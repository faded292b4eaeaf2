----------------------------- MODULE Web_proofs -----------------------------
(***************************************************************************)
(* Proofs about Web, for any passwords, any number of slots, any streams:  *)
(*  - the sessions and the password that memory and flash hold, which      *)
(*    nothing the streams do disturbs: one lemma for each kind of step;    *)
(*  - the room that events leave to replies;                               *)
(*  - messages reach the worker whole and in order;                        *)
(*  - every block of memory is accounted for.                              *)
(***************************************************************************)
EXTENDS Web, FiniteSetTheorems, TLAPS

\* Why a late token is harmless: while a session is being opened and a password is in
\* force, it is still the one the request was let in under, for only a set, a wipe or
\* a restart begins another era, and the first and the last end the handler.
OpeningIsOfThisEra ==
  (async.step \in {"issue", "keep"} /\ IsSet) => async.era = era

\* A new password is put in force only after flash has taken it, unless a factory
\* reset has come in between.
ApplyingIsStored ==
  (async.step = "apply" /\ wiping \in {"no", "flash"}) => nvs = async.pw

LoginInv ==
  /\ LoginTypeOK
  /\ SessionsOfThisPassword
  /\ PasswordInForceIsStored
  /\ OpeningIsOfThisEra
  /\ ApplyingIsStored

USE LoginAssumption

LEMMA LoginStarts == Init => LoginInv
  BY DEF Init, LoginInit, LoginInv, LoginTypeOK, SessionsOfThisPassword,
         PasswordInForceIsStored, OpeningIsOfThisEra, ApplyingIsStored, Stored, Slot,
         NoSessions, Empty, Idle, Accepts

LEMMA NextSlotIsOne ==
  ASSUME NEW n \in Slot
  PROVE  (n + 1) % AUTH_MAX_SESSIONS \in Slot
  BY DEF Slot

\* The handlers of the AsyncTCP task, one case each.
LEMMA HandlersKeepLogin == LoginInv /\ LoginHandlers => LoginInv'
<1> SUFFICES ASSUME LoginInv, LoginHandlers PROVE LoginInv'
  OBVIOUS
<1> USE DEF LoginInv, LoginTypeOK, SessionsOfThisPassword, PasswordInForceIsStored,
            OpeningIsOfThisEra, ApplyingIsStored, Stored, Accepts, IsSet
<1>1. ASSUME NEW pw \in Passwords, BeginSet(pw) PROVE LoginInv'
  <2>1. /\ async' = [step |-> "store", pw |-> pw, era |-> 0]
        /\ used.sets + 1 \in Nat /\ used' = [used EXCEPT !.sets = used.sets + 1]
    <3>1. async' = [Idle EXCEPT !.step = "store", !.pw = pw]
      BY <1>1 DEF BeginSet
    <3>2. async' = [step |-> "store", pw |-> pw, era |-> 0]
      BY <3>1, Zenon DEF Idle
    <3>3. used.sets + 1 \in Nat /\ used' = [used EXCEPT !.sets = used.sets + 1]
      BY <1>1 DEF BeginSet
    <3>4. QED
      BY <3>2, <3>3
  <2>2. LoginTypeOK'
    BY <1>1, <2>1 DEF BeginSet
  <2>3. QED
    BY <1>1, <2>1, <2>2 DEF BeginSet, Idle
<1>2. CASE StorePassword
  BY <1>2 DEF StorePassword, Idle
<1>3. CASE ApplyPassword
  BY <1>3 DEF ApplyPassword, ClearSessions, NoSessions, Empty, Idle, Slot
<1>4. CASE OpenSession
  BY <1>4 DEF OpenSession, Idle
<1>5. CASE IssueToken
  BY <1>5 DEF IssueToken, Idle
<1>6. CASE KeepToken
  BY <1>6, NextSlotIsOne DEF KeepToken, Idle, Empty
<1>7. ASSUME NEW i \in Slot, Revoke(slots[i]) PROVE LoginInv'
  BY <1>7 DEF Revoke, Idle, Empty
<1>8. QED
  BY <1>1, <1>2, <1>3, <1>4, <1>5, <1>6, <1>7 DEF LoginHandlers, Setup, Change

\* The factory reset's task, between any two steps of a handler.
LEMMA ResetKeepsLogin == LoginInv /\ FactoryReset => LoginInv'
<1> SUFFICES ASSUME LoginInv, FactoryReset PROVE LoginInv'
  OBVIOUS
<1> USE DEF LoginInv, LoginTypeOK, SessionsOfThisPassword, PasswordInForceIsStored,
            OpeningIsOfThisEra, ApplyingIsStored, Stored, Accepts, IsSet
<1>1. CASE BeginReset
  BY <1>1 DEF BeginReset
<1>2. CASE WipeFlash
  BY <1>2 DEF WipeFlash
<1>3. CASE WipeMemory
  BY <1>3 DEF WipeMemory, ClearSessions, NoSessions, Empty, Slot
<1>4. QED
  BY <1>1, <1>2, <1>3 DEF FactoryReset

LEMMA RestartKeepsLogin == LoginInv /\ Restart => LoginInv'
  BY DEF LoginInv, LoginTypeOK, SessionsOfThisPassword, PasswordInForceIsStored,
         OpeningIsOfThisEra, ApplyingIsStored, Stored, Accepts, IsSet, Restart, Load,
         ClearSessions, NoSessions, Empty, Idle, Slot

LEMMA StreamsLeaveLogin == LoginInv /\ UNCHANGED loginVars => LoginInv'
  BY DEF LoginInv, LoginTypeOK, SessionsOfThisPassword, PasswordInForceIsStored,
         OpeningIsOfThisEra, ApplyingIsStored, Stored, Accepts, IsSet, loginVars

\* The inductive invariant: what memory and flash hold, and what a handler caught
\* between two steps still knows.
THEOREM LoginInvariant == Spec => []LoginInv
<1>1. LoginInv /\ [Next]_vars => LoginInv'
  BY HandlersKeepLogin, ResetKeepsLogin, RestartKeepsLogin, StreamsLeaveLogin
  DEF Next, AsyncTcp, Handshake, Reboot, vars
<1>2. QED
  BY LoginStarts, <1>1, PTL DEF Spec

\* For any passwords and slots: no token outlives the password its owner was let in
\* under (auth_set and auth_clear drop the sessions, auth_session_create looks twice).
THEOREM TokensDieWithTheirPassword == Spec => []SessionsOfThisPassword
<1>1. LoginInv => SessionsOfThisPassword
  BY DEF LoginInv
<1>2. QED
  BY <1>1, LoginInvariant, PTL

\* For any passwords: what is in force is what flash holds (auth_set writes flash first
\* and puts in force only what flash took), or nothing since a load that failed.
THEOREM InForceIsStored == Spec => []PasswordInForceIsStored
<1>1. LoginInv => PasswordInForceIsStored
  BY DEF LoginInv
<1>2. QED
  BY <1>1, LoginInvariant, PTL

HIDE LoginAssumption

-----------------------------------------------------------------------------
(* The room that events leave to replies.                                  *)

Holding == {t \in EventTask : post[t] = "holds"}

OutOK ==
  /\ out \in Seq({"event", "reply"})
  /\ post \in [Replier \cup EventTask -> {"idle", "wants", "holds"}]

\* Why the reserve is not simply respected: an event task that was let in holds its
\* message outside the queue while others are let in.  Whoever is let in finds room, so
\* the events queued by then and the tasks that hold one stay below this sum.
AdmittedFit ==
  Cardinality(EventsIn(out)) + Cardinality(Holding)
    <= WS_OUT_QUEUE_LEN - WS_OUT_RESERVED - 1 + Cardinality(EventTask)

RoomInv == OutOK /\ AdmittedFit

LEMMA TasksAreFinite ==
  /\ Cardinality(EventTask) \in Nat /\ Cardinality(EventTask) >= 1
  /\ IsFiniteSet(Holding) /\ Cardinality(Holding) \in Nat
  /\ Cardinality(Holding) <= Cardinality(EventTask)
<1>1. IsFiniteSet(EventTask) /\ EventTask # {}
  BY SocketsAssumption DEF SocketsAssumption
<1>2. Cardinality(EventTask) \in Nat /\ Cardinality(EventTask) # 0
  BY <1>1, FS_CardinalityType, FS_EmptySet
<1>3. Holding \subseteq EventTask
  BY DEF Holding
<1>4. QED
  BY <1>1, <1>2, <1>3, FS_Subset, FS_CardinalityType

LEMMA EventsAreFinite ==
  ASSUME NEW q \in Seq({"event", "reply"})
  PROVE  /\ IsFiniteSet(EventsIn(q)) /\ Cardinality(EventsIn(q)) \in Nat
         /\ Cardinality(EventsIn(q)) <= Len(q)
<1>1. Len(q) \in Nat /\ DOMAIN q = 1..Len(q) /\ EventsIn(q) \subseteq 1..Len(q)
  BY DEF EventsIn
<1>2. IsFiniteSet(1..Len(q)) /\ Cardinality(1..Len(q)) = Len(q)
  <2>1. IsFiniteSet(1..Len(q))
        /\ Cardinality(1..Len(q)) = IF 1 > Len(q) THEN 0 ELSE Len(q) - 1 + 1
    BY <1>1, FS_Interval
  <2>2. QED
    BY <1>1, <2>1
<1>3. QED
  BY <1>1, <1>2, FS_Subset, FS_CardinalityType

LEMMA AppendedEvents ==
  ASSUME NEW q \in Seq({"event", "reply"}), NEW m \in {"event", "reply"}
  PROVE  Cardinality(EventsIn(Append(q, m)))
           = Cardinality(EventsIn(q)) + (IF m = "event" THEN 1 ELSE 0)
<1>1. CASE m = "event"
  <2>1. EventsIn(Append(q, m)) = EventsIn(q) \cup {Len(q) + 1}
    BY <1>1 DEF EventsIn
  <2>2. Len(q) + 1 \notin EventsIn(q)
    BY DEF EventsIn
  <2>3. QED
    BY <1>1, <2>1, <2>2, EventsAreFinite, FS_AddElement
<1>2. CASE m # "event"
  <2>1. EventsIn(Append(q, m)) = EventsIn(q)
    BY <1>2 DEF EventsIn
  <2>2. QED
    BY <1>2, <2>1, EventsAreFinite
<1>3. QED
  BY <1>1, <1>2

LEMMA TakenEvents ==
  ASSUME NEW q \in Seq({"event", "reply"}), q # <<>>
  PROVE  /\ Tail(q) \in Seq({"event", "reply"})
         /\ Cardinality(EventsIn(Tail(q))) <= Cardinality(EventsIn(q))
<1> DEFINE f == [i \in EventsIn(Tail(q)) |-> i + 1]
<1>1. Tail(q) \in Seq({"event", "reply"})
  OBVIOUS
<1>2. f \in Injection(EventsIn(Tail(q)), EventsIn(q))
  <2>1. \A i \in EventsIn(Tail(q)) : i \in Nat /\ i + 1 \in EventsIn(q)
    BY DEF EventsIn
  <2>2. f \in [EventsIn(Tail(q)) -> EventsIn(q)]
    BY <2>1
  <2>3. \A i, j \in EventsIn(Tail(q)) : f[i] = f[j] => i = j
    BY <2>1
  <2>4. QED
    BY <2>2, <2>3 DEF Injection, IsInjective
<1>3. QED
  BY <1>1, <1>2, EventsAreFinite, FS_Injection

LEMMA RoomStarts == Init => RoomInv
<1> SUFFICES ASSUME Init PROVE RoomInv
  OBVIOUS
<1>1. out = <<>> /\ post = [t \in Replier \cup EventTask |-> "idle"]
  BY DEF Init, SocketsInit
<1>2. EventsIn(out) = {} /\ Holding = {}
  BY <1>1 DEF EventsIn, Holding
<1>3. OutOK
  BY <1>1 DEF OutOK
<1>4. AdmittedFit
  BY <1>2, FS_EmptySet, TasksAreFinite, SocketsAssumption DEF SocketsAssumption, AdmittedFit
<1>5. QED
  BY <1>3, <1>4 DEF RoomInv

LEMMA PreparedFits ==
  ASSUME RoomInv, NEW t \in Replier \cup EventTask, Prepare(t)
  PROVE  RoomInv'
<1> USE DEF RoomInv
<1>1. out' = out /\ EventsIn(out)' = EventsIn(out)
  BY DEF Prepare, EventsIn
<1>2. OutOK'
  BY DEF OutOK, Prepare
<1>3. IsFiniteSet(Holding') /\ Cardinality(Holding') \in Nat
      /\ Cardinality(Holding') <= Cardinality(EventTask)
  <2>1. IsFiniteSet(EventTask) /\ Holding' \subseteq EventTask
    BY SocketsAssumption DEF SocketsAssumption, Holding
  <2>2. QED
    BY <2>1, FS_Subset, FS_CardinalityType
<1>4. CASE t \in EventTask /\ post'[t] = "holds"
  <2>1. t \notin Replier
    BY <1>4, SocketsAssumption DEF SocketsAssumption
  <2>2. WS_OUT_QUEUE_LEN - Len(out) > WS_OUT_RESERVED
    BY <1>4, <2>1 DEF Prepare, Admit, OutOK
  <2>3. Len(out) \in Nat /\ Cardinality(EventsIn(out)) \in Nat
        /\ Cardinality(EventsIn(out)) <= Len(out)
    BY EventsAreFinite DEF OutOK
  <2>4. Cardinality(EventTask) \in Nat
        /\ WS_OUT_QUEUE_LEN \in Nat /\ WS_OUT_RESERVED \in Nat
    BY TasksAreFinite, SocketsAssumption DEF SocketsAssumption
  <2>5. Cardinality(EventsIn(out)) + Cardinality(Holding')
          <= WS_OUT_QUEUE_LEN - WS_OUT_RESERVED - 1 + Cardinality(EventTask)
    BY <1>3, <2>2, <2>3, <2>4
  <2>6. QED
    BY <1>1, <1>2, <2>5 DEF AdmittedFit
<1>5. CASE ~(t \in EventTask /\ post'[t] = "holds")
  <2>1. Holding' \subseteq Holding
    BY <1>5 DEF Prepare, Holding, OutOK
  <2>2. Cardinality(Holding') <= Cardinality(Holding)
    BY <2>1, TasksAreFinite, FS_Subset
  <2>3. Cardinality(EventsIn(out)) \in Nat
    BY EventsAreFinite DEF OutOK
  <2>4. QED
    BY <1>1, <1>2, <1>3, <2>2, <2>3, TasksAreFinite, SocketsAssumption
    DEF AdmittedFit, SocketsAssumption
<1>6. QED
  BY <1>4, <1>5

LEMMA EnqueuedFits ==
  ASSUME RoomInv, NEW t \in Replier \cup EventTask, Enqueue(t)
  PROVE  RoomInv'
<1> USE DEF RoomInv
<1> DEFINE m == IF t \in EventTask THEN "event" ELSE "reply"
<1>1. out' = Append(out, m) \/ out' = out
  BY DEF Enqueue
<1>2. OutOK'
  BY <1>1 DEF OutOK, Enqueue
<1>3. Cardinality(EventsIn(out)') <= Cardinality(EventsIn(out)) + (IF m = "event" THEN 1 ELSE 0)
      /\ Cardinality(EventsIn(out)') \in Nat /\ Cardinality(EventsIn(out)) \in Nat
  <2>1. out \in Seq({"event", "reply"}) /\ out' \in Seq({"event", "reply"})
    BY <1>2 DEF OutOK
  <2>2. Cardinality(EventsIn(out)) \in Nat /\ Cardinality(EventsIn(out')) \in Nat
    BY <2>1, EventsAreFinite
  <2>3. CASE out' = out
    BY <2>2, <2>3
  <2>4. CASE out' = Append(out, m)
    BY <2>1, <2>2, <2>4, AppendedEvents
  <2>5. EventsIn(out)' = EventsIn(out')
    BY DEF EventsIn
  <2>6. QED
    BY <1>1, <2>2, <2>3, <2>4, <2>5
<1>4. Holding' = Holding \ {t} /\ (t \in EventTask => t \in Holding)
  BY DEF Enqueue, Holding, OutOK
<1>5. Cardinality(Holding') = Cardinality(Holding) - (IF m = "event" THEN 1 ELSE 0)
      /\ Cardinality(Holding) \in Nat
  <2>1. Cardinality(Holding \ {t}) = IF t \in Holding THEN Cardinality(Holding) - 1
                                     ELSE Cardinality(Holding)
    BY TasksAreFinite, FS_RemoveElement
  <2>2. t \in Holding <=> m = "event"
    BY <1>4 DEF Holding
  <2>3. QED
    BY <1>4, <2>1, <2>2, TasksAreFinite
<1>6. QED
  BY <1>2, <1>3, <1>5, TasksAreFinite, SocketsAssumption DEF AdmittedFit, SocketsAssumption

LEMMA TakenFits == ASSUME RoomInv, SenderTakes PROVE RoomInv'
<1> USE DEF RoomInv
<1>1. out' = Tail(out) /\ out # <<>> /\ post' = post /\ Holding' = Holding
  BY DEF SenderTakes, Holding
<1>2. OutOK' /\ EventsIn(out)' = EventsIn(Tail(out))
  BY <1>1, TakenEvents DEF OutOK, EventsIn
<1>3. Cardinality(EventsIn(Tail(out))) <= Cardinality(EventsIn(out))
      /\ Cardinality(EventsIn(Tail(out))) \in Nat /\ Cardinality(EventsIn(out)) \in Nat
  BY <1>1, TakenEvents, EventsAreFinite DEF OutOK
<1>4. QED
  BY <1>1, <1>2, <1>3, TasksAreFinite, SocketsAssumption DEF AdmittedFit, SocketsAssumption

LEMMA WorkerFits == ASSUME RoomInv, WorkerHandles PROVE RoomInv'
<1> USE DEF RoomInv
<1>1. out' = out /\ OutOK'
  BY DEF WorkerHandles, OutOK
<1>2. Worker \notin EventTask
  BY SocketsAssumption DEF SocketsAssumption
<1>3. Holding' = Holding
  BY <1>2 DEF WorkerHandles, Holding, OutOK
<1>4. QED
  BY <1>1, <1>3 DEF AdmittedFit, EventsIn

LEMMA OthersFit == ASSUME RoomInv, UNCHANGED <<out, post>> PROVE RoomInv'
  BY DEF RoomInv, OutOK, AdmittedFit, EventsIn, Holding

LEMMA RebootFits == ASSUME RoomInv, Reboot PROVE RoomInv'
<1>1. out' = <<>> /\ post' = [t \in Replier \cup EventTask |-> "idle"]
  BY DEF Reboot
<1>2. EventsIn(out)' = {} /\ Holding' = {}
  BY <1>1 DEF EventsIn, Holding
<1>3. OutOK'
  BY <1>1 DEF OutOK
<1>4. AdmittedFit'
  BY <1>2, FS_EmptySet, TasksAreFinite, SocketsAssumption DEF SocketsAssumption, AdmittedFit
<1>5. QED
  BY <1>3, <1>4 DEF RoomInv

\* What the queue holds and who may add to it, in every state: the check in enqueue_out
\* and xQueueSend are two steps.
THEOREM RoomInvariant == Spec => []RoomInv
<1>1. RoomInv /\ [Next]_vars => RoomInv'
  <2> SUFFICES ASSUME RoomInv, [Next]_vars PROVE RoomInv'
    OBVIOUS
  <2>1. CASE Reboot
    BY <2>1, RebootFits
  <2>2. CASE SocketTask
    <3>1. CASE WorkerTakes \/ SenderSends
      BY <3>1, OthersFit DEF WorkerTakes, SenderSends
    <3>2. QED
      BY <2>2, <3>1, WorkerFits, PreparedFits, EnqueuedFits, TakenFits DEF SocketTask
  <2>3. CASE UNCHANGED <<out, post>>
    BY <2>3, OthersFit
  <2>4. SocketCallback => UNCHANGED <<out, post>>
    BY DEF SocketCallback, Disconnect, FirstChunk, NextChunk, LoseChunk, EventsClose
  <2>5. Handshake => UNCHANGED <<out, post>>
    BY DEF Handshake, Connect, EventsOpen
  <2>6. QED
    BY <2>4, <2>5, <2>1, <2>2, <2>3 DEF Next, AsyncTcp, vars, socketVars
<1>2. QED
  BY RoomStarts, <1>1, PTL DEF Spec

\* For any queue, reserve and event tasks: events take of the reserved slots at most one
\* for every event task but one (enqueue_out looks, then xQueueSend adds).
THEOREM RepliesKeepTheirRoom == Spec => []EventsLeaveRoom
<1>1. RoomInv => EventsLeaveRoom
  <2> SUFFICES ASSUME RoomInv PROVE EventsLeaveRoom
    OBVIOUS
  <2>1. Cardinality(EventsIn(out)) \in Nat
    BY EventsAreFinite DEF RoomInv, OutOK
  <2>2. QED
    BY <2>1, TasksAreFinite, SocketsAssumption
    DEF RoomInv, AdmittedFit, EventsLeaveRoom, SocketsAssumption
<1>2. QED
  BY <1>1, RoomInvariant, PTL
-----------------------------------------------------------------------------
(* Messages: an assembly holds the first chunks of its client's frame.     *)

Chunk == [id : Nat, k : Nat, size : Nat]
Frame == [id : Nat, size : Nat, sent : Nat]

\* got is how frame f begins.
Begins(got, f) ==
  /\ got \in Seq(Chunk)
  /\ \A i \in 1..Len(got) : got[i] = [id |-> f.id, k |-> i, size |-> f.size]

AssemblyOf(asm, f) ==
  \/ asm = NoAssembly
  \/ asm = [total |-> f.size, got |-> asm.got] /\ Begins(asm.got, f)

ClientsOK ==
  /\ client \in [Clients -> [on : BOOLEAN, frame : Frame, asm : [total : Nat, got : Seq(Chunk)]]]
  /\ \A c \in Clients : AssemblyOf(client[c].asm, client[c].frame)

QueueOK ==
  /\ worker \in Seq(Chunk) /\ Whole(worker)
  /\ rx \in Seq(Seq(Chunk)) /\ \A i \in 1..Len(rx) : Whole(rx[i])

MessageInv == ClientsOK /\ QueueOK /\ frames \in Nat

LEMMA NothingIsWhole == Whole(<<>>) /\ <<>> \in Seq(Chunk) /\ NoAssembly \in [total : Nat, got : Seq(Chunk)]
  BY DEF Whole, NoAssembly

LEMMA MessageStarts == Init => MessageInv
<1> SUFFICES ASSUME Init PROVE MessageInv
  OBVIOUS
<1>1. ClientsOK
  <2>1. client = [c \in Clients |-> Gone]
    BY DEF Init, SocketsInit
  <2>2. Gone \in [on : BOOLEAN, frame : Frame, asm : [total : Nat, got : Seq(Chunk)]]
    BY NothingIsWhole DEF Gone, NoFrame, Frame
  <2>3. AssemblyOf(Gone.asm, Gone.frame)
    BY DEF AssemblyOf, Gone
  <2>4. QED
    BY <2>1, <2>2, <2>3 DEF ClientsOK
<1>2. QueueOK
  BY NothingIsWhole DEF Init, SocketsInit, QueueOK
<1>3. QED
  BY <1>1, <1>2 DEF MessageInv, Init, SocketsInit

\* One client's frame and assembly change, and they still belong together.
LEMMA ClientChanges ==
  ASSUME ClientsOK, NEW c \in Clients, NEW b \in BOOLEAN, NEW f \in Frame,
         NEW asm \in [total : Nat, got : Seq(Chunk)], AssemblyOf(asm, f),
         client' = [client EXCEPT ![c] = [on |-> b, frame |-> f, asm |-> asm]]
  PROVE  ClientsOK'
  BY DEF ClientsOK, AssemblyOf

\* A chunk more, in order, is the frame's next; the last one makes the frame.
LEMMA ChunkAppended ==
  ASSUME NEW f \in Frame, NEW got, Begins(got, f), NEW k \in Nat, k = Len(got) + 1
  PROVE  LET more == Append(got, [id |-> f.id, k |-> k, size |-> f.size])
         IN  Begins(more, f) /\ Len(more) = k /\ (k = f.size => Whole(more))
<1> DEFINE chunk == [id |-> f.id, k |-> k, size |-> f.size]
           more  == Append(got, chunk)
<1>1. chunk \in Chunk /\ got \in Seq(Chunk) /\ Len(got) \in Nat
  BY DEF Chunk, Frame, Begins
<1>2. /\ more \in Seq(Chunk) /\ Len(more) = k
      /\ \A i \in 1..Len(got) : more[i] = got[i]
      /\ more[k] = chunk
  BY <1>1
<1> HIDE DEF more
<1>3. \A i \in 1..k : more[i] = [id |-> f.id, k |-> i, size |-> f.size]
  <2>1. SUFFICES ASSUME NEW i \in 1..k
                 PROVE  more[i] = [id |-> f.id, k |-> i, size |-> f.size]
    OBVIOUS
  <2>2. i \in 1..Len(got) \/ i = k
    BY <1>1
  <2>3. QED
    BY <1>2, <2>2 DEF Begins
<1>4. Begins(more, f)
  BY <1>2, <1>3 DEF Begins
<1>5. ASSUME k = f.size PROVE Whole(more)
  <2>1. more[1].id = f.id
    <3>1. 1 \in 1..k
      BY <1>1
    <3>2. more[1] = [id |-> f.id, k |-> 1, size |-> f.size]
      BY <1>3, <3>1
    <3>3. QED
      BY <3>2
  <2>2. DOMAIN more = 1..k
    BY <1>2
  <2>3. QED
    BY <1>2, <1>3, <1>5, <2>1, <2>2 DEF Whole
<1>6. QED
  BY <1>2, <1>4, <1>5 DEF more

\* The two assignments of a chunk's step are one to the client.
LEMMA BothChange ==
  ASSUME ClientsOK, NEW c \in Clients, NEW f, NEW asm
  PROVE  [client EXCEPT ![c].frame = f, ![c].asm = asm]
           = [client EXCEPT ![c] = [on |-> client[c].on, frame |-> f, asm |-> asm]]
<1>1. client[c] \in [on : BOOLEAN, frame : Frame, asm : [total : Nat, got : Seq(Chunk)]]
      /\ DOMAIN client = Clients
  BY DEF ClientsOK
<1>2. [[client[c] EXCEPT !.frame = f] EXCEPT !.asm = asm]
        = [on |-> client[c].on, frame |-> f, asm |-> asm]
  <2>1. client[c] = [on |-> client[c].on, frame |-> client[c].frame, asm |-> client[c].asm]
    BY <1>1
  <2>2. [client[c] EXCEPT !.frame = f]
          = [on |-> client[c].on, frame |-> f, asm |-> client[c].asm]
    BY <2>1
  <2>3. ASSUME NEW r, r = [on |-> client[c].on, frame |-> f, asm |-> client[c].asm]
        PROVE  [r EXCEPT !.asm = asm] = [on |-> client[c].on, frame |-> f, asm |-> asm]
    BY <2>3
  <2>4. QED
    BY <2>2, <2>3
<1>3. [client EXCEPT ![c].frame = f, ![c].asm = asm]
         = [client EXCEPT ![c] = [[client[c] EXCEPT !.frame = f] EXCEPT !.asm = asm]]
  BY <1>1
<1>4. QED
  BY <1>2, <1>3

LEMMA FrameReplaced ==
  ASSUME ClientsOK, NEW c \in Clients, NEW f \in Frame,
         client' = [client EXCEPT ![c].frame = f, ![c].asm = NoAssembly]
  PROVE  ClientsOK'
<1>1. client' = [client EXCEPT ![c] = [on |-> client[c].on, frame |-> f, asm |-> NoAssembly]]
  <2> DEFINE Put(asm) == [client EXCEPT ![c].frame = f, ![c].asm = asm]
             One(asm) == [client EXCEPT ![c] = [on |-> client[c].on, frame |-> f, asm |-> asm]]
  <2>1. \A asm : Put(asm) = One(asm)
    BY BothChange
  <2>2. client' = Put(NoAssembly)
    OBVIOUS
  <2> HIDE DEF Put, One
  <2>3. client' = One(NoAssembly)
    BY <2>1, <2>2
  <2>4. QED
    BY <2>3 DEF One
<1>2. client[c].on \in BOOLEAN /\ AssemblyOf(NoAssembly, f)
  BY DEF ClientsOK, AssemblyOf
<1>3. QED
  BY <1>1, <1>2, NothingIsWhole, ClientChanges

LEMMA FrameMoves ==
  ASSUME ClientsOK, NEW c \in Clients, NEW f \in Frame, AssemblyOf(client[c].asm, f),
         client' = [client EXCEPT ![c].frame = f]
  PROVE  ClientsOK'
<1>1. client[c] \in [on : BOOLEAN, frame : Frame, asm : [total : Nat, got : Seq(Chunk)]]
      /\ DOMAIN client = Clients
  BY DEF ClientsOK
<1>2. [client[c] EXCEPT !.frame = f] = [on |-> client[c].on, frame |-> f, asm |-> client[c].asm]
  BY <1>1
<1>3. client' = [client EXCEPT ![c] = [on |-> client[c].on, frame |-> f, asm |-> client[c].asm]]
  BY <1>1, <1>2
<1>4. client[c].on \in BOOLEAN /\ client[c].asm \in [total : Nat, got : Seq(Chunk)]
  BY <1>1
<1>5. QED
  BY <1>3, <1>4, ClientChanges, Zenon

LEMMA ContinueKeeps ==
  ASSUME ClientsOK, QueueOK, NEW c \in Clients, NEW f \in Frame,
         NEW a \in [total : Nat, got : Seq(Chunk)], a.total = f.size, Begins(a.got, f),
         NEW k \in Nat, k <= f.size, NEW before, Continue(c, a, k, f, before), worker' = worker
  PROVE  ClientsOK' /\ QueueOK'
<1> DEFINE got == Append(a.got, [id |-> f.id, k |-> k, size |-> f.size])
           Put(asm) == [client EXCEPT ![c].frame = f, ![c].asm = asm]
<1>1. \A asm : Put(asm) = [client EXCEPT ![c] = [on |-> client[c].on, frame |-> f, asm |-> asm]]
  BY BothChange
<1>2. client[c].on \in BOOLEAN
  BY DEF ClientsOK
<1>3. ASSUME client' = Put(NoAssembly) PROVE ClientsOK'
  <2>1. AssemblyOf(NoAssembly, f)
    BY DEF AssemblyOf
  <2>2. client' = [client EXCEPT ![c] = [on |-> client[c].on, frame |-> f, asm |-> NoAssembly]]
    BY <1>1, <1>3
  <2>3. QED
    BY <1>2, <2>1, <2>2, NothingIsWhole, ClientChanges
<1>4. ASSUME rx' = rx PROVE QueueOK'
  BY <1>4 DEF QueueOK
<1>5. CASE ~(Len(a.got) + 1 = k /\ a.total = f.size)
  BY <1>3, <1>4, <1>5 DEF Continue
<1>6. CASE Len(a.got) + 1 = k
  <2>1. Begins(got, f) /\ Len(got) = k /\ (k = f.size => Whole(got))
    BY <1>6, ChunkAppended
  <2>2. got \in Seq(Chunk) /\ f.size \in Nat
    BY <2>1 DEF Begins, Frame
  <2>3. CASE k < a.total
    <3>1. client' = Put([a EXCEPT !.got = got]) /\ rx' = rx
      BY <1>6, <2>3 DEF Continue
    <3>2. [a EXCEPT !.got = got] = [total |-> f.size, got |-> got]
      <4>1. a = [total |-> f.size, got |-> a.got]
        OBVIOUS
      <4>2. \A h : [a EXCEPT !.got = h] = [total |-> f.size, got |-> h]
        BY <4>1
      <4>3. QED
        BY <4>2
    <3>3. AssemblyOf([total |-> f.size, got |-> got], f)
      BY <2>1 DEF AssemblyOf
    <3>4. [total |-> f.size, got |-> got] \in [total : Nat, got : Seq(Chunk)]
      BY <2>2
    <3> HIDE DEF got
    <3>5. client' = [client EXCEPT ![c] = [on |-> client[c].on, frame |-> f,
                                           asm |-> [total |-> f.size, got |-> got]]]
      BY <1>1, <3>1, <3>2
    <3>6. ClientsOK'
      BY <1>2, <3>3, <3>4, <3>5, ClientChanges
    <3>7. QED
      BY <1>4, <3>1, <3>6
  <2>4. CASE ~(k < a.total)
    <3>1. Whole(got)
      BY <2>1, <2>2, <2>4
    <3>2. client' = Put(NoAssembly) /\ (rx' = Append(rx, got) \/ rx' = rx)
      BY <1>6, <2>4 DEF Continue, Deliver
    <3> HIDE DEF got
    <3>3. ASSUME rx' = Append(rx, got) PROVE QueueOK'
      <4>1. rx \in Seq(Seq(Chunk)) /\ Len(rx) \in Nat
        BY DEF QueueOK
      <4>2. /\ rx' \in Seq(Seq(Chunk)) /\ Len(rx') = Len(rx) + 1
            /\ \A i \in 1..Len(rx) : rx'[i] = rx[i]
            /\ rx'[Len(rx) + 1] = got
        BY <2>2, <3>3, <4>1
      <4>3. \A i \in 1..Len(rx') : i \in 1..Len(rx) \/ i = Len(rx) + 1
        BY <4>1, <4>2
      <4>4. \A i \in 1..Len(rx') : Whole(rx'[i])
        BY <3>1, <4>2, <4>3 DEF QueueOK
      <4>5. QED
        BY <4>2, <4>4 DEF QueueOK
    <3>4. QED
      BY <1>3, <1>4, <3>2, <3>3
  <2>5. QED
    BY <2>3, <2>4
<1>7. QED
  BY <1>5, <1>6

LEMMA FirstChunkStep ==
  ASSUME MessageInv, NEW c \in Clients, FirstChunk(c)
  PROVE  MessageInv'
<1>1. ClientsOK /\ QueueOK /\ frames \in Nat /\ frames' = frames + 1 /\ worker' = worker
  BY DEF MessageInv, FirstChunk
<1>2. PICK size \in 1..MaxChunks :
        Begun(c, [id |-> frames + 1, size |-> size, sent |-> 1], blocks - Held(c))
  BY DEF FirstChunk
<1> DEFINE f == [id |-> frames + 1, size |-> size, sent |-> 1]
           a == [total |-> f.size, got |-> <<>>]
<1>3. f \in Frame /\ f.size \in Nat /\ 1 <= f.size
  BY <1>1, <1>2 DEF Frame
<1>4. a \in [total : Nat, got : Seq(Chunk)] /\ a.total = f.size /\ Begins(a.got, f)
  BY <1>3 DEF Begins
<1>5. \/ Continue(c, a, 1, f, blocks - Held(c))
      \/ client' = [client EXCEPT ![c].frame = f, ![c].asm = NoAssembly] /\ rx' = rx
  BY <1>2 DEF Begun
<1> HIDE DEF f, a
<1>6. CASE Continue(c, a, 1, f, blocks - Held(c))
  BY <1>1, <1>3, <1>4, <1>6, ContinueKeeps DEF MessageInv
<1>7. CASE client' = [client EXCEPT ![c].frame = f, ![c].asm = NoAssembly] /\ rx' = rx
  <2>1. ClientsOK'
    BY <1>1, <1>3, <1>7, FrameReplaced
  <2>2. QED
    BY <1>1, <1>7, <2>1 DEF MessageInv, QueueOK
<1>8. QED
  BY <1>5, <1>6, <1>7

LEMMA NextChunkKeeps ==
  ASSUME MessageInv, NEW c \in Clients, NextChunk(c)
  PROVE  MessageInv'
<1> DEFINE f    == client[c].frame
           k    == f.sent + 1
           next == [f EXCEPT !.sent = k]
           a    == client[c].asm
<1>1. ClientsOK /\ QueueOK /\ frames' \in Nat /\ worker' = worker
  BY DEF MessageInv, NextChunk
<1>2. f \in Frame /\ a \in [total : Nat, got : Seq(Chunk)] /\ AssemblyOf(a, f)
  BY <1>1 DEF ClientsOK
<1>3. f.sent < f.size
  BY DEF NextChunk
<1>4. next \in Frame /\ next.size = f.size /\ next.id = f.id /\ k \in Nat /\ k <= next.size
  BY <1>2, <1>3 DEF Frame
<1>5. IF a = NoAssembly THEN client' = [client EXCEPT ![c].frame = next] /\ rx' = rx
      ELSE Continue(c, a, k, next, blocks - 1)
  BY DEF NextChunk
<1> HIDE DEF f, k, next, a
<1>6. CASE a = NoAssembly
  <2>1. ClientsOK'
    <3>1. AssemblyOf(a, next)
      BY <1>6 DEF AssemblyOf
    <3>2. QED
      BY <1>1, <1>4, <1>5, <1>6, <3>1, FrameMoves DEF a
  <2>2. QED
    BY <1>1, <1>5, <1>6, <2>1 DEF MessageInv, QueueOK
<1>7. CASE a # NoAssembly
  <2>1. a.total = next.size /\ Begins(a.got, next)
    BY <1>2, <1>4, <1>7 DEF AssemblyOf, Begins
  <2>2. QED
    BY <1>1, <1>2, <1>4, <1>5, <1>7, <2>1, ContinueKeeps DEF MessageInv
<1>8. QED
  BY <1>6, <1>7

LEMMA LoseChunkKeeps ==
  ASSUME MessageInv, NEW c \in Clients, LoseChunk(c)
  PROVE  MessageInv'
<1> DEFINE f == client[c].frame
           g == [f EXCEPT !.sent = f.sent + 1]
<1>1. ClientsOK /\ QueueOK /\ frames' \in Nat /\ worker' = worker /\ rx' = rx
  BY DEF MessageInv, LoseChunk
<1>2. f \in Frame /\ AssemblyOf(client[c].asm, f)
  BY <1>1 DEF ClientsOK
<1>3. g \in Frame /\ g.size = f.size /\ g.id = f.id
  BY <1>2 DEF Frame
<1>4. AssemblyOf(client[c].asm, g)
  BY <1>2, <1>3 DEF AssemblyOf, Begins
<1>5. client' = [client EXCEPT ![c].frame = g]
  BY <1>1 DEF LoseChunk, ClientsOK
<1> HIDE DEF f, g
<1>6. ClientsOK'
  BY <1>1, <1>3, <1>4, <1>5, FrameMoves
<1>7. QED
  BY <1>1, <1>6 DEF MessageInv, QueueOK

\* A connection begins or ends.
LEMMA ClientGone ==
  ASSUME MessageInv, NEW c \in Clients, Connect(c) \/ Disconnect(c)
  PROVE  MessageInv'
<1>1. ClientsOK /\ QueueOK /\ frames' \in Nat /\ worker' = worker /\ rx' = rx
  BY DEF MessageInv, Connect, Disconnect
<1>2. \E b \in BOOLEAN :
        client' = [client EXCEPT ![c] = [on |-> b, frame |-> NoFrame, asm |-> NoAssembly]]
  BY DEF Connect, Disconnect, Gone
<1>3. NoFrame \in Frame /\ AssemblyOf(NoAssembly, NoFrame)
  BY DEF NoFrame, Frame, AssemblyOf
<1>4. ClientsOK'
  BY <1>1, <1>2, <1>3, NothingIsWhole, ClientChanges
<1>5. QED
  BY <1>1, <1>4 DEF MessageInv, QueueOK

LEMMA WorkerKeeps ==
  ASSUME MessageInv, WorkerTakes \/ WorkerHandles
  PROVE  MessageInv'
<1>1. ClientsOK' /\ frames' \in Nat
  BY DEF MessageInv, ClientsOK, WorkerTakes, WorkerHandles
<1>2. CASE WorkerTakes
  <2>1. rx \in Seq(Seq(Chunk)) /\ rx # <<>> /\ worker' = Head(rx) /\ rx' = Tail(rx)
    BY <1>2 DEF MessageInv, QueueOK, WorkerTakes
  <2>2. Len(rx) \in Nat /\ 1 \in 1..Len(rx) /\ worker' = rx[1] /\ worker' \in Seq(Chunk)
    BY <2>1
  <2>3. rx' \in Seq(Seq(Chunk)) /\ \A i \in 1..Len(rx') : i + 1 \in 1..Len(rx) /\ rx'[i] = rx[i + 1]
    BY <2>1
  <2>4. QueueOK'
    BY <2>2, <2>3 DEF MessageInv, QueueOK
  <2>5. QED
    BY <1>1, <2>4 DEF MessageInv
<1>3. CASE WorkerHandles
  BY <1>1, <1>3, NothingIsWhole DEF MessageInv, QueueOK, WorkerHandles
<1>4. QED
  BY <1>2, <1>3

LEMMA RebootKeepsNone == ASSUME MessageInv, Reboot PROVE MessageInv'
<1>1. client' = [c \in Clients |-> Gone] /\ rx' = <<>> /\ worker' = <<>> /\ frames' \in Nat
  BY DEF Reboot, MessageInv
<1>2. Gone \in [on : BOOLEAN, frame : Frame, asm : [total : Nat, got : Seq(Chunk)]]
      /\ AssemblyOf(Gone.asm, Gone.frame)
  BY NothingIsWhole DEF Gone, NoFrame, Frame, AssemblyOf
<1>3. ClientsOK'
  BY <1>1, <1>2 DEF ClientsOK
<1>4. QueueOK'
  BY <1>1, NothingIsWhole DEF QueueOK
<1>5. QED
  BY <1>1, <1>3, <1>4 DEF MessageInv

\* Every assembly is how its client's frame begins, and every message a whole frame
\* (ws_event).
THEOREM MessageInvariant == Spec => []MessageInv
<1>1. MessageInv /\ [Next]_vars => MessageInv'
  <2> SUFFICES ASSUME MessageInv, [Next]_vars PROVE MessageInv'
    OBVIOUS
  <2>1. CASE UNCHANGED <<client, rx, worker, frames>>
    BY <2>1 DEF MessageInv, ClientsOK, QueueOK
  <2>2. CASE Handshake
    BY <2>1, <2>2, ClientGone DEF Handshake, EventsOpen
  <2>3. CASE SocketCallback
    BY <2>1, <2>3, ClientGone, FirstChunkStep, NextChunkKeeps, LoseChunkKeeps
    DEF SocketCallback, EventsClose
  <2>4. CASE SocketTask
    BY <2>1, <2>4, WorkerKeeps DEF SocketTask, Prepare, Enqueue, SenderTakes, SenderSends
  <2>5. CASE Reboot
    BY <2>5, RebootKeepsNone
  <2>6. QED
    BY <2>2, <2>4, <2>1, <2>3, <2>5 DEF Next, AsyncTcp, vars, socketVars
<1>2. QED
  BY MessageStarts, <1>1, PTL DEF Spec

\* For any clients, frames and queues: whatever frame a client abandons, loses a chunk of
\* or is refused, the worker is given whole frames only (ws_event, ws_deliver).
THEOREM WholeMessagesOnly == Spec => []MessagesAreWhole
<1>1. MessageInv => MessagesAreWhole
  <2>1. SUFFICES ASSUME QueueOK PROVE MessagesAreWhole
    BY DEF MessageInv
  <2>2. rx \in Seq(Seq(Chunk))
    BY <2>1 DEF QueueOK
  <2>3. DOMAIN rx = 1..Len(rx)
    BY <2>2
  <2>4. QED
    BY <2>1, <2>3 DEF QueueOK, MessagesAreWhole
<1>2. QED
  BY <1>1, MessageInvariant, PTL

-----------------------------------------------------------------------------
(* Memory.                                                                 *)
(*                                                                         *)
(* Every step changes one client's assembly or one task's message, so the  *)
(* two sets that are counted grow or shrink by that one element; what they *)
(* lose, a queue or the free list has gained.  The count needs more facts: *)
(* a client that is not connected has no assembly, no message is empty (an *)
(* empty one would look like an idle worker), and the worker holds nothing *)
(* to send while it has a message in hand.                                 *)

Building == {c \in Clients : client[c].asm # NoAssembly}
HoldingAny == {t \in DOMAIN post : post[t] = "holds"}
Holds(t) == IF post[t] = "holds" THEN 1 ELSE 0

OffIsEmpty == \A c \in Clients : client[c].on = FALSE => client[c].asm = NoAssembly
NoneIsEmpty == \A i \in 1..Len(rx) : rx[i] # <<>>
WorkerBusy == worker # <<>> => post[Worker] = "idle"
SendingOK == sending \in {"none", "event", "reply"}

\* What the count stands on.
StreamsTyped == MessageInv /\ RoomInv
MemInv == OffIsEmpty /\ NoneIsEmpty /\ SendingOK /\ WorkerBusy /\ MemoryAccounted

-----------------------------------------------------------------------------
(* Counting.                                                               *)

LEMMA CountOne ==
  ASSUME NEW S, IsFiniteSet(S), NEW x
  PROVE  /\ Cardinality(S) \in Nat /\ Cardinality(S \ {x}) \in Nat
         /\ Cardinality(S) = Cardinality(S \ {x}) + (IF x \in S THEN 1 ELSE 0)
<1>1. Cardinality(S) \in Nat /\ IsFiniteSet(S \ {x})
  BY FS_CardinalityType, FS_RemoveElement
<1>2. Cardinality(S \ {x}) \in Nat
  BY <1>1, FS_CardinalityType
<1>3. Cardinality(S \ {x}) = IF x \in S THEN Cardinality(S) - 1 ELSE Cardinality(S)
  BY FS_RemoveElement
<1>4. QED
  BY <1>1, <1>2, <1>3

\* Two sets that differ at most in x.
LEMMA CountsDiffer ==
  ASSUME NEW S, NEW T, IsFiniteSet(S), IsFiniteSet(T), NEW x, S \ {x} = T \ {x}
  PROVE  /\ Cardinality(S) \in Nat /\ Cardinality(T) \in Nat
         /\ Cardinality(T) = Cardinality(S) - (IF x \in S THEN 1 ELSE 0)
                                            + (IF x \in T THEN 1 ELSE 0)
<1>1. /\ Cardinality(S) \in Nat /\ Cardinality(S \ {x}) \in Nat
      /\ Cardinality(S) = Cardinality(S \ {x}) + (IF x \in S THEN 1 ELSE 0)
  BY CountOne
<1>2. /\ Cardinality(T) \in Nat
      /\ Cardinality(T) = Cardinality(T \ {x}) + (IF x \in T THEN 1 ELSE 0)
  BY CountOne
<1>3. QED
  BY <1>1, <1>2

LEMMA BuildingIsFinite ==
  IsFiniteSet(Building) /\ IsFiniteSet(Building') /\ Cardinality(Building) \in Nat
<1>1. Building \subseteq Clients /\ Building' \subseteq Clients /\ IsFiniteSet(Clients)
  BY SocketsAssumption DEF SocketsAssumption, Building
<1>2. IsFiniteSet(Building) /\ IsFiniteSet(Building')
  BY <1>1, FS_Subset
<1>3. QED
  BY <1>2, FS_CardinalityType

LEMMA HoldingIsFinite ==
  ASSUME OutOK, OutOK'
  PROVE  IsFiniteSet(HoldingAny) /\ IsFiniteSet(HoldingAny') /\ Cardinality(HoldingAny) \in Nat
<1>1. IsFiniteSet(Replier \cup EventTask)
  BY SocketsAssumption, FS_Union DEF SocketsAssumption
<1>2. HoldingAny \subseteq Replier \cup EventTask /\ HoldingAny' \subseteq Replier \cup EventTask
  BY DEF HoldingAny, OutOK
<1>3. IsFiniteSet(HoldingAny) /\ IsFiniteSet(HoldingAny')
  BY <1>1, <1>2, FS_Subset
<1>4. QED
  BY <1>3, FS_CardinalityType

\* The count in short.
Messages == Len(rx) + (IF worker = <<>> THEN 0 ELSE 1)
Outgoing == Len(out) + (IF sending = "none" THEN 0 ELSE 1)

\* The parts of the count are numbers, before a step and after it.
LEMMA CountTyped ==
  ASSUME StreamsTyped, StreamsTyped'
  PROVE  /\ Cardinality(Building) \in Nat /\ Cardinality(Building') \in Nat
         /\ Cardinality(HoldingAny) \in Nat /\ Cardinality(HoldingAny') \in Nat
         /\ Messages \in Nat /\ Outgoing \in Nat /\ Messages' \in Nat /\ Outgoing' \in Nat
         /\ Len(rx) \in Nat /\ Len(rx') \in Nat /\ Len(out) \in Nat /\ Len(out') \in Nat
<1>1. /\ Len(rx) \in Nat /\ Len(rx') \in Nat /\ Len(out) \in Nat /\ Len(out') \in Nat
  BY DEF StreamsTyped, MessageInv, QueueOK, RoomInv, OutOK
<1>2. Messages \in Nat /\ Outgoing \in Nat /\ Messages' \in Nat /\ Outgoing' \in Nat
  BY <1>1 DEF Messages, Outgoing
<1>3. /\ IsFiniteSet(Building) /\ IsFiniteSet(Building')
      /\ IsFiniteSet(HoldingAny) /\ IsFiniteSet(HoldingAny')
  BY BuildingIsFinite, HoldingIsFinite DEF StreamsTyped, RoomInv
<1>4. QED
  BY <1>1, <1>2, <1>3, FS_CardinalityType

\* The count in these parts, before a step and after it.
LEMMA AccountedIs ==
  ASSUME StreamsTyped, StreamsTyped'
  PROVE  /\ MemoryAccounted <=> blocks = Cardinality(Building) + Messages
                                           + Cardinality(HoldingAny) + Outgoing
         /\ MemoryAccounted' <=> blocks' = Cardinality(Building') + Messages'
                                             + Cardinality(HoldingAny') + Outgoing'
<1>1. MemoryAccounted <=> blocks = Cardinality(Building) + Messages
                                 + Cardinality(HoldingAny) + Outgoing
  <2> DEFINE w == IF worker = <<>> THEN 0 ELSE 1
             s == IF sending = "none" THEN 0 ELSE 1
  <2>1. MemoryAccounted <=>
          blocks = Cardinality(Building) + Len(rx) + w + Cardinality(HoldingAny)
                    + Len(out) + s
    BY DEF MemoryAccounted, Building, HoldingAny
  <2>2. Messages = Len(rx) + w /\ Outgoing = Len(out) + s
    BY DEF Messages, Outgoing
  <2>3. w \in {0, 1} /\ s \in {0, 1}
    OBVIOUS
  <2> HIDE DEF w, s
  <2>4. /\ Cardinality(Building) \in Nat /\ Len(rx) \in Nat
        /\ Cardinality(HoldingAny) \in Nat /\ Len(out) \in Nat
    BY CountTyped
  <2>5. Cardinality(Building) + Len(rx) + w + Cardinality(HoldingAny) + Len(out) + s
          = Cardinality(Building) + (Len(rx) + w) + Cardinality(HoldingAny) + (Len(out) + s)
    BY <2>3, <2>4
  <2>6. QED
    BY <2>1, <2>2, <2>5
<1>2. MemoryAccounted' <=> blocks' = Cardinality(Building') + Messages'
                                 + Cardinality(HoldingAny') + Outgoing'
  <2> DEFINE w == IF worker' = <<>> THEN 0 ELSE 1
             s == IF sending' = "none" THEN 0 ELSE 1
  <2>1. MemoryAccounted' <=>
          blocks' = Cardinality(Building') + Len(rx') + w + Cardinality(HoldingAny')
                    + Len(out') + s
    BY DEF MemoryAccounted, Building, HoldingAny
  <2>2. Messages' = Len(rx') + w /\ Outgoing' = Len(out') + s
    BY DEF Messages, Outgoing
  <2>3. w \in {0, 1} /\ s \in {0, 1}
    OBVIOUS
  <2> HIDE DEF w, s
  <2>4. /\ Cardinality(Building') \in Nat /\ Len(rx') \in Nat
        /\ Cardinality(HoldingAny') \in Nat /\ Len(out') \in Nat
    BY CountTyped
  <2>5. Cardinality(Building') + Len(rx') + w + Cardinality(HoldingAny') + Len(out') + s
          = Cardinality(Building') + (Len(rx') + w) + Cardinality(HoldingAny') + (Len(out') + s)
    BY <2>3, <2>4
  <2>6. QED
    BY <2>1, <2>2, <2>5
<1>3. QED
  BY <1>1, <1>2

-----------------------------------------------------------------------------
(* One client's assembly changes.                                          *)

LEMMA OneClient ==
  ASSUME NEW c \in Clients, \A d \in Clients \ {c} : client'[d] = client[d]
  PROVE  Cardinality(Building') = Cardinality(Building) - Held(c) + Held(c)'
<1>1. Building \ {c} = Building' \ {c}
  BY DEF Building
<1>2. /\ Held(c) = (IF c \in Building THEN 1 ELSE 0)
      /\ Held(c)' = (IF c \in Building' THEN 1 ELSE 0)
  BY DEF Held, Building
<1>3. QED
  BY <1>1, <1>2, BuildingIsFinite, CountsDiffer

LEMMA InboundCounts ==
  ASSUME StreamsTyped, StreamsTyped', MemInv, NEW c \in Clients,
         \A d \in Clients \ {c} : client'[d] = client[d],
         UNCHANGED <<worker, out, sending, post>>,
         blocks' = blocks - Held(c) + Held(c)' + (Len(rx') - Len(rx))
  PROVE  MemoryAccounted'
<1>1. Cardinality(Building') = Cardinality(Building) - Held(c) + Held(c)'
  BY OneClient
<1>2. HoldingAny' = HoldingAny /\ Outgoing' = Outgoing
  BY DEF HoldingAny, Outgoing
<1>3. Messages' = Messages + (Len(rx') - Len(rx))
  BY CountTyped DEF Messages
<1>4. blocks = Cardinality(Building) + Messages + Cardinality(HoldingAny) + Outgoing
  BY AccountedIs DEF MemInv
<1>5. Held(c) \in Nat /\ Held(c)' \in Nat
  BY DEF Held
<1>6. blocks' = Cardinality(Building') + Messages' + Cardinality(HoldingAny') + Outgoing'
  <2>1. Cardinality(HoldingAny') = Cardinality(HoldingAny)
    BY <1>2
  <2>2. QED
    <3>1. /\ Cardinality(Building) \in Nat /\ Messages \in Nat /\ Outgoing \in Nat
          /\ Cardinality(HoldingAny) \in Nat /\ Len(rx) \in Nat /\ Len(rx') \in Nat
      BY CountTyped
    <3>2. Cardinality(Building) + Messages + Cardinality(HoldingAny) + Outgoing
            - Held(c) + Held(c)' + (Len(rx') - Len(rx))
          = (Cardinality(Building) - Held(c) + Held(c)') + (Messages + (Len(rx') - Len(rx)))
              + Cardinality(HoldingAny) + Outgoing
      BY <1>5, <3>1
    <3>3. blocks' = Cardinality(Building) + Messages + Cardinality(HoldingAny) + Outgoing
                      - Held(c) + Held(c)' + (Len(rx') - Len(rx))
      BY <1>4, <1>5, <3>1
    <3>4. Cardinality(Building') + Messages' + Cardinality(HoldingAny') + Outgoing'
          = (Cardinality(Building) - Held(c) + Held(c)') + (Messages + (Len(rx') - Len(rx)))
              + Cardinality(HoldingAny) + Outgoing
      BY <1>1, <1>2, <1>3, <2>1
    <3>5. QED
      BY <3>2, <3>3, <3>4
<1>7. QED
  BY <1>6, AccountedIs

\* What Continue frees and allocates.
LEMMA ContinueCounts ==
  ASSUME StreamsTyped, NEW c \in Clients, NEW f, NEW a \in [total : Nat, got : Seq(Chunk)],
         NEW k \in Nat, NEW before \in Int, Continue(c, a, k, f, before), NoneIsEmpty
  PROVE  /\ blocks' = before + Held(c)' + (Len(rx') - Len(rx))
         /\ \A d \in Clients \ {c} : client'[d] = client[d]
         /\ client'[c].on = client[c].on
         /\ NoneIsEmpty'
<1> DEFINE got == Append(a.got, [id |-> f.id, k |-> k, size |-> f.size])
           Put(asm) == [client EXCEPT ![c].frame = f, ![c].asm = asm]
           more == [a EXCEPT !.got = got]
<1>1. ClientsOK /\ rx \in Seq(Seq(Chunk)) /\ Len(rx) \in Nat
  BY DEF StreamsTyped, MessageInv, QueueOK
<1>2. got # <<>> /\ more.got = got
  OBVIOUS
<1>3. more # NoAssembly
  BY <1>2 DEF NoAssembly
<1>4. \/ client' = Put(NoAssembly) /\ rx' = rx /\ blocks' = before
      \/ client' = Put(more) /\ rx' = rx /\ blocks' = before + 1
      \/ client' = Put(NoAssembly) /\ rx' = Append(rx, got) /\ blocks' = before + 1
  BY DEF Continue, Deliver
<1>5. ASSUME NEW asm, client' = Put(asm)
      PROVE  /\ \A d \in Clients \ {c} : client'[d] = client[d]
             /\ client'[c].on = client[c].on /\ client'[c].asm = asm
  <2>1. client[c] \in [on : BOOLEAN, frame : Frame, asm : [total : Nat, got : Seq(Chunk)]]
        /\ DOMAIN client = Clients
    BY <1>1 DEF ClientsOK
  <2>2. QED
    BY <1>5, <2>1
<1> HIDE DEF got, Put, more
<1>6. CASE client' = Put(NoAssembly) /\ rx' = rx /\ blocks' = before
  <2>1. Held(c)' = 0
    BY <1>5, <1>6 DEF Held
  <2>2. QED
    BY <1>1, <1>5, <1>6, <2>1 DEF NoneIsEmpty
<1>7. CASE client' = Put(more) /\ rx' = rx /\ blocks' = before + 1
  <2>1. Held(c)' = 1
    BY <1>3, <1>5, <1>7 DEF Held
  <2>2. QED
    BY <1>1, <1>5, <1>7, <2>1 DEF NoneIsEmpty
<1>8. CASE client' = Put(NoAssembly) /\ rx' = Append(rx, got) /\ blocks' = before + 1
  <2>1. Held(c)' = 0
    BY <1>5, <1>8 DEF Held
  <2>2. Len(rx') = Len(rx) + 1 /\ rx'[Len(rx) + 1] = got /\ \A i \in 1..Len(rx) : rx'[i] = rx[i]
    BY <1>1, <1>8
  <2>3. \A i \in 1..Len(rx') : i \in 1..Len(rx) \/ i = Len(rx) + 1
    BY <1>1, <2>2
  <2>4. NoneIsEmpty'
    BY <1>2, <2>2, <2>3 DEF NoneIsEmpty
  <2>5. QED
    BY <1>1, <1>5, <1>8, <2>1, <2>2, <2>4
<1>9. QED
  BY <1>4, <1>6, <1>7, <1>8

\* A step of the AsyncTCP task for client c.
LEMMA InboundKeeps ==
  ASSUME StreamsTyped, StreamsTyped', MemInv, NEW c \in Clients,
         \A d \in Clients \ {c} : client'[d] = client[d],
         client'[c].on = TRUE \/ client'[c].asm = NoAssembly, NoneIsEmpty',
         UNCHANGED <<worker, out, sending, post>>,
         blocks' = blocks - Held(c) + Held(c)' + (Len(rx') - Len(rx))
  PROVE  MemInv'
<1>1. MemoryAccounted'
  BY InboundCounts
<1>2. OffIsEmpty'
  BY DEF OffIsEmpty, MemInv
<1>3. SendingOK' /\ WorkerBusy'
  BY DEF SendingOK, WorkerBusy, MemInv
<1>4. QED
  BY <1>1, <1>2, <1>3 DEF MemInv

LEMMA BlocksTyped ==
  ASSUME StreamsTyped, StreamsTyped', MemInv, NEW c \in Clients
  PROVE  blocks \in Nat /\ Held(c) \in {0, 1} /\ Len(rx) \in Nat
<1>1. blocks = Cardinality(Building) + Messages + Cardinality(HoldingAny) + Outgoing
  BY AccountedIs DEF MemInv
<1>2. /\ Cardinality(Building) \in Nat /\ Messages \in Nat
      /\ Cardinality(HoldingAny) \in Nat /\ Outgoing \in Nat /\ Len(rx) \in Nat
  BY CountTyped
<1>3. QED
  BY <1>1, <1>2 DEF Held

LEMMA ChunkCounted ==
  ASSUME StreamsTyped, StreamsTyped', MemInv, NEW c \in Clients, FirstChunk(c) \/ NextChunk(c)
  PROVE  MemInv'
<1>1. /\ ClientsOK /\ NoneIsEmpty /\ client[c].on = TRUE /\ UNCHANGED <<worker, out, sending, post>>
      /\ frames \in Nat
  BY DEF StreamsTyped, MessageInv, MemInv, FirstChunk, NextChunk, ClientsOK
<1>2. blocks \in Nat /\ Held(c) \in {0, 1} /\ Len(rx) \in Nat
  BY BlocksTyped
<1>3. ASSUME NEW f, NEW a \in [total : Nat, got : Seq(Chunk)], NEW k \in Nat,
             Continue(c, a, k, f, blocks - Held(c))
      PROVE  MemInv'
  <2>1. blocks - Held(c) \in Int
    BY <1>2
  <2>2. /\ blocks' = blocks - Held(c) + Held(c)' + (Len(rx') - Len(rx))
        /\ \A d \in Clients \ {c} : client'[d] = client[d]
        /\ client'[c].on = client[c].on /\ NoneIsEmpty'
    BY <1>1, <1>3, <2>1, ContinueCounts
  <2>3. QED
    BY <1>1, <2>2, InboundKeeps
<1>4. ASSUME NEW f, client' = [client EXCEPT ![c].frame = f, ![c].asm = NoAssembly],
             blocks' = blocks - Held(c), rx' = rx
      PROVE  MemInv'
  <2>1. /\ \A d \in Clients \ {c} : client'[d] = client[d]
        /\ client'[c].asm = NoAssembly
    BY <1>1, <1>4 DEF ClientsOK
  <2>2. Held(c)' = 0 /\ NoneIsEmpty'
    BY <1>1, <1>4, <2>1 DEF Held, NoneIsEmpty
  <2>3. blocks' = blocks - Held(c) + Held(c)' + (Len(rx') - Len(rx))
    BY <1>2, <1>4, <2>2
  <2>4. QED
    BY <1>1, <2>1, <2>2, <2>3, InboundKeeps
<1>5. CASE FirstChunk(c)
  <2>1. PICK size \in 1..MaxChunks :
          Begun(c, [id |-> frames + 1, size |-> size, sent |-> 1], blocks - Held(c))
    BY <1>5 DEF FirstChunk
  <2> DEFINE f == [id |-> frames + 1, size |-> size, sent |-> 1]
             a == [total |-> f.size, got |-> <<>>]
  <2>2. a \in [total : Nat, got : Seq(Chunk)]
    BY <2>1
  <2>3. \/ Continue(c, a, 1, f, blocks - Held(c))
        \/ /\ client' = [client EXCEPT ![c].frame = f, ![c].asm = NoAssembly]
           /\ blocks' = blocks - Held(c) /\ rx' = rx
    BY <2>1 DEF Begun
  <2> HIDE DEF f, a
  <2>4. QED
    BY <1>3, <1>4, <2>2, <2>3
<1>6. CASE NextChunk(c)
  <2> DEFINE f    == client[c].frame
             next == [f EXCEPT !.sent = f.sent + 1]
             a    == client[c].asm
  <2>1. IF a = NoAssembly
          THEN client' = [client EXCEPT ![c].frame = next] /\ rx' = rx /\ blocks' = blocks
          ELSE Continue(c, a, f.sent + 1, next, blocks - 1)
    BY <1>6 DEF NextChunk
  <2>2. a \in [total : Nat, got : Seq(Chunk)] /\ f.sent + 1 \in Nat
    BY <1>1 DEF ClientsOK, Frame
  <2>3. CASE a = NoAssembly
    <3>1. /\ \A d \in Clients \ {c} : client'[d] = client[d]
          /\ client'[c].asm = client[c].asm
      BY <1>1, <2>1, <2>3 DEF ClientsOK
    <3>2. Held(c)' = 0 /\ Held(c) = 0 /\ NoneIsEmpty' /\ client'[c].asm = NoAssembly
      BY <1>1, <2>1, <2>3, <3>1 DEF Held, NoneIsEmpty
    <3>3. blocks' = blocks - Held(c) + Held(c)' + (Len(rx') - Len(rx))
      BY <1>2, <2>1, <2>3, <3>2
    <3>4. QED
      BY <1>1, <3>1, <3>2, <3>3, InboundKeeps
  <2>4. CASE a # NoAssembly
    <3>1. Held(c) = 1
      BY <2>4 DEF Held
    <3> HIDE DEF f, next, a
    <3>2. Continue(c, a, f.sent + 1, next, blocks - Held(c))
      BY <2>1, <2>4, <3>1
    <3>3. QED
      BY <1>3, <2>2, <3>2
  <2>5. QED
    BY <2>3, <2>4
<1>7. QED
  BY <1>5, <1>6

LEMMA ConnectionCounted ==
  ASSUME StreamsTyped, StreamsTyped', MemInv, NEW c \in Clients,
         Connect(c) \/ Disconnect(c) \/ LoseChunk(c)
  PROVE  MemInv'
<1>1. /\ ClientsOK /\ NoneIsEmpty /\ UNCHANGED <<rx, worker, out, sending, post>>
      /\ blocks \in Nat /\ Held(c) \in {0, 1} /\ Len(rx) \in Nat
  BY BlocksTyped DEF StreamsTyped, MessageInv, MemInv, Connect, Disconnect, LoseChunk
<1>2. \A d \in Clients \ {c} : client'[d] = client[d]
  BY <1>1 DEF Connect, Disconnect, LoseChunk, ClientsOK
<1>3. NoneIsEmpty'
  BY <1>1 DEF NoneIsEmpty
<1>4. CASE Connect(c)
  <2>1. client[c].asm = NoAssembly /\ client'[c].asm = NoAssembly /\ blocks' = blocks
    BY <1>1, <1>4 DEF Connect, ClientsOK, MemInv, OffIsEmpty, Gone
  <2>2. Held(c)' = 0 /\ Held(c) = 0
    BY <2>1 DEF Held
  <2>3. blocks' = blocks - Held(c) + Held(c)' + (Len(rx') - Len(rx))
    BY <1>1, <2>1, <2>2
  <2>4. QED
    BY <1>1, <1>2, <1>3, <2>1, <2>3, InboundKeeps
<1>5. CASE Disconnect(c)
  <2>1. client'[c].asm = NoAssembly /\ blocks' = blocks - Held(c)
    BY <1>1, <1>5 DEF Disconnect, ClientsOK, Gone
  <2>2. Held(c)' = 0
    BY <2>1 DEF Held
  <2>3. blocks' = blocks - Held(c) + Held(c)' + (Len(rx') - Len(rx))
    BY <1>1, <2>1, <2>2
  <2>4. QED
    BY <1>1, <1>2, <1>3, <2>1, <2>3, InboundKeeps
<1>6. CASE LoseChunk(c)
  <2>1. client'[c].asm = client[c].asm /\ client'[c].on = TRUE /\ blocks' = blocks
    BY <1>1, <1>6 DEF LoseChunk, ClientsOK
  <2>2. Held(c)' = Held(c)
    BY <2>1 DEF Held
  <2>3. blocks' = blocks - Held(c) + Held(c)' + (Len(rx') - Len(rx))
    BY <1>1, <2>1, <2>2
  <2>4. QED
    BY <1>1, <1>2, <1>3, <2>1, <2>3, InboundKeeps
<1>7. QED
  BY <1>4, <1>5, <1>6

-----------------------------------------------------------------------------
(* One task's message, or the sender's, changes.                           *)

LEMMA OneTask ==
  ASSUME OutOK, OutOK', NEW t \in Replier \cup EventTask,
         \A u \in (Replier \cup EventTask) \ {t} : post'[u] = post[u]
  PROVE  Cardinality(HoldingAny') = Cardinality(HoldingAny) - Holds(t) + Holds(t)'
<1>1. HoldingAny \ {t} = HoldingAny' \ {t}
  BY DEF HoldingAny, OutOK
<1>2. /\ Holds(t) = (IF t \in HoldingAny THEN 1 ELSE 0)
      /\ Holds(t)' = (IF t \in HoldingAny' THEN 1 ELSE 0)
  BY DEF Holds, HoldingAny, OutOK
<1>3. QED
  BY <1>1, <1>2, HoldingIsFinite, CountsDiffer

LEMMA TasksCount ==
  ASSUME StreamsTyped, StreamsTyped', MemInv, client' = client,
         NEW t \in Replier \cup EventTask,
         \A u \in (Replier \cup EventTask) \ {t} : post'[u] = post[u],
         blocks' = blocks - Holds(t) + Holds(t)' + (Messages' - Messages) + (Outgoing' - Outgoing)
  PROVE  MemoryAccounted'
<1> DEFINE b == Cardinality(Building)   h == Cardinality(HoldingAny)
<1>1. Cardinality(HoldingAny') = h - Holds(t) + Holds(t)'
  BY OneTask DEF StreamsTyped, RoomInv
<1>2. Cardinality(Building') = b
  BY DEF Building
<1>3. blocks = b + Messages + h + Outgoing
  BY AccountedIs DEF MemInv
<1>4. /\ b \in Nat /\ h \in Nat /\ Messages \in Nat /\ Messages' \in Nat
      /\ Outgoing \in Nat /\ Outgoing' \in Nat /\ Holds(t) \in Nat /\ Holds(t)' \in Nat
  BY CountTyped DEF Holds
<1> HIDE DEF b, h
<1>5. (b + Messages + h + Outgoing) - Holds(t) + Holds(t)' + (Messages' - Messages)
        + (Outgoing' - Outgoing)
      = b + Messages' + (h - Holds(t) + Holds(t)') + Outgoing'
  BY <1>4
<1>6. blocks' = b + Messages' + (h - Holds(t) + Holds(t)') + Outgoing'
  BY <1>3, <1>5
<1>7. QED
  BY <1>1, <1>2, <1>6, AccountedIs

\* A step that leaves the clients alone.
LEMMA TaskKeeps ==
  ASSUME StreamsTyped, StreamsTyped', MemInv, client' = client,
         NEW t \in Replier \cup EventTask,
         \A u \in (Replier \cup EventTask) \ {t} : post'[u] = post[u],
         NoneIsEmpty', SendingOK', WorkerBusy',
         blocks' = blocks - Holds(t) + Holds(t)' + (Messages' - Messages) + (Outgoing' - Outgoing)
  PROVE  MemInv'
<1>1. MemoryAccounted'
  BY TasksCount
<1>2. OffIsEmpty'
  BY DEF OffIsEmpty, MemInv
<1>3. QED
  BY <1>1, <1>2 DEF MemInv

LEMMA TaskBlocks ==
  ASSUME StreamsTyped, StreamsTyped', MemInv
  PROVE  blocks \in Nat
<1>1. blocks = Cardinality(Building) + Messages + Cardinality(HoldingAny) + Outgoing
  BY AccountedIs DEF MemInv
<1>2. QED
  BY <1>1, CountTyped

LEMMA PreparedCounted ==
  ASSUME StreamsTyped, StreamsTyped', MemInv, NEW t \in Replier \cup EventTask, Prepare(t)
  PROVE  MemInv'
<1>1. /\ blocks \in Nat /\ Messages \in Nat /\ Outgoing \in Nat
      /\ post \in [Replier \cup EventTask -> {"idle", "wants", "holds"}]
  BY TaskBlocks, CountTyped DEF StreamsTyped, RoomInv, OutOK
<1>2. /\ client' = client /\ NoneIsEmpty' /\ SendingOK'
      /\ Messages' = Messages /\ Outgoing' = Outgoing
      /\ \A u \in (Replier \cup EventTask) \ {t} : post'[u] = post[u]
  BY <1>1 DEF Prepare, MemInv, NoneIsEmpty, SendingOK, Messages, Outgoing
<1>3. WorkerBusy'
  <2>1. worker' = worker /\ WorkerBusy /\ Worker \in Replier \cup EventTask
    BY SocketsAssumption DEF Prepare, MemInv, SocketsAssumption
  <2>2. CASE t = Worker
    BY <2>1, <2>2 DEF Prepare, WorkerBusy
  <2>3. CASE t # Worker
    BY <1>2, <2>1, <2>3 DEF WorkerBusy
  <2>4. QED
    BY <2>2, <2>3
<1>4. blocks' = blocks - Holds(t) + Holds(t)'
  <2>1. Holds(t) = 0
    BY DEF Prepare, Holds
  <2>2. blocks' = blocks + Holds(t)'
    BY <1>1 DEF Prepare, Holds
  <2>3. QED
    BY <1>1, <2>1, <2>2 DEF Holds
<1>5. blocks' = blocks - Holds(t) + Holds(t)' + (Messages' - Messages) + (Outgoing' - Outgoing)
  BY <1>1, <1>2, <1>4 DEF Holds
<1>6. QED
  BY <1>2, <1>3, <1>5, TaskKeeps

LEMMA EnqueuedCounted ==
  ASSUME StreamsTyped, StreamsTyped', MemInv, NEW t \in Replier \cup EventTask, Enqueue(t)
  PROVE  MemInv'
<1>1. /\ blocks \in Nat /\ Messages \in Nat /\ Outgoing \in Nat /\ Len(out) \in Nat
      /\ post \in [Replier \cup EventTask -> {"idle", "wants", "holds"}]
      /\ out \in Seq({"event", "reply"})
  BY TaskBlocks, CountTyped DEF StreamsTyped, RoomInv, OutOK
<1>2. /\ client' = client /\ NoneIsEmpty' /\ SendingOK' /\ Messages' = Messages
      /\ \A u \in (Replier \cup EventTask) \ {t} : post'[u] = post[u]
  BY <1>1 DEF Enqueue, MemInv, NoneIsEmpty, SendingOK, Messages
<1>3. WorkerBusy'
  BY <1>1 DEF Enqueue, MemInv, WorkerBusy
<1>4. Holds(t) = 1 /\ Holds(t)' = 0
  BY <1>1 DEF Enqueue, Holds
<1>5. \/ Outgoing' = Outgoing + 1 /\ blocks' = blocks
      \/ Outgoing' = Outgoing /\ blocks' = blocks - 1
  BY <1>1 DEF Enqueue, Outgoing
<1>6. blocks' = blocks - Holds(t) + Holds(t)' + (Messages' - Messages) + (Outgoing' - Outgoing)
  BY <1>1, <1>2, <1>4, <1>5
<1>7. QED
  BY <1>2, <1>3, <1>6, TaskKeeps

LEMMA WorkerCounted ==
  ASSUME StreamsTyped, StreamsTyped', MemInv, WorkerTakes \/ WorkerHandles
  PROVE  MemInv'
<1>1. /\ blocks \in Nat /\ Messages \in Nat /\ Outgoing \in Nat /\ Len(rx) \in Nat
      /\ post \in [Replier \cup EventTask -> {"idle", "wants", "holds"}]
      /\ Worker \in Replier \cup EventTask
  BY TaskBlocks, CountTyped, SocketsAssumption
  DEF StreamsTyped, RoomInv, OutOK, SocketsAssumption
<1>2. /\ client' = client /\ SendingOK' /\ Outgoing' = Outgoing
      /\ \A u \in (Replier \cup EventTask) \ {Worker} : post'[u] = post[u]
  BY <1>1 DEF WorkerTakes, WorkerHandles, MemInv, SendingOK, Outgoing
<1>3. CASE WorkerTakes
  <2>1. /\ rx \in Seq(Seq(Chunk)) /\ rx # <<>> /\ rx' = Tail(rx)
        /\ worker = <<>> /\ worker' = rx[1] /\ NoneIsEmpty /\ blocks' = blocks
    BY <1>3 DEF StreamsTyped, MessageInv, QueueOK, MemInv, WorkerTakes
  <2>2. 1 \in 1..Len(rx) /\ Len(rx') = Len(rx) - 1 /\ worker' # <<>>
    BY <1>1, <2>1 DEF NoneIsEmpty
  <2>3. \A i \in 1..Len(rx') : i + 1 \in 1..Len(rx) /\ rx'[i] = rx[i + 1]
    BY <2>1
  <2>4. NoneIsEmpty'
    BY <2>1, <2>3 DEF NoneIsEmpty
  <2>5. Messages' = Messages
    BY <1>1, <2>1, <2>2 DEF Messages
  <2>6. Holds(Worker)' = Holds(Worker) /\ Holds(Worker) \in Nat /\ WorkerBusy'
    BY <1>3 DEF WorkerTakes, Holds, WorkerBusy
  <2>7. blocks' = blocks - Holds(Worker) + Holds(Worker)' + (Messages' - Messages)
                    + (Outgoing' - Outgoing)
    BY <1>1, <1>2, <2>1, <2>5, <2>6
  <2>8. QED
    BY <1>1, <1>2, <2>4, <2>6, <2>7, TaskKeeps
<1>4. CASE WorkerHandles
  <2>1. /\ worker # <<>> /\ worker' = <<>> /\ rx' = rx /\ post[Worker] = "idle"
        /\ blocks' = blocks - 1 /\ post'[Worker] # "holds" /\ NoneIsEmpty
    BY <1>1, <1>4 DEF WorkerHandles, MemInv, WorkerBusy
  <2>2. NoneIsEmpty' /\ WorkerBusy'
    BY <2>1 DEF NoneIsEmpty, WorkerBusy
  <2>3. Messages' = Messages - 1
    BY <1>1, <2>1 DEF Messages
  <2>4. Holds(Worker) = 0 /\ Holds(Worker)' = 0
    BY <2>1 DEF Holds
  <2>5. blocks' = blocks - Holds(Worker) + Holds(Worker)' + (Messages' - Messages)
                    + (Outgoing' - Outgoing)
    BY <1>1, <1>2, <2>1, <2>3, <2>4
  <2>6. QED
    BY <1>1, <1>2, <2>2, <2>5, TaskKeeps
<1>5. QED
  BY <1>3, <1>4

LEMMA SenderCounted ==
  ASSUME StreamsTyped, StreamsTyped', MemInv, SenderTakes \/ SenderSends
  PROVE  MemInv'
<1>1. /\ blocks \in Nat /\ Messages \in Nat /\ Outgoing \in Nat /\ Len(out) \in Nat
      /\ out \in Seq({"event", "reply"}) /\ Worker \in Replier \cup EventTask
  BY TaskBlocks, CountTyped, SocketsAssumption
  DEF StreamsTyped, RoomInv, OutOK, SocketsAssumption
<1>2. /\ client' = client /\ NoneIsEmpty' /\ WorkerBusy' /\ Messages' = Messages
      /\ post' = post
  BY DEF SenderTakes, SenderSends, MemInv, NoneIsEmpty, WorkerBusy, Messages
<1>3. \/ SendingOK' /\ Outgoing' = Outgoing /\ blocks' = blocks
      \/ SendingOK' /\ Outgoing' = Outgoing - 1 /\ blocks' = blocks - 1
  <2>1. CASE SenderTakes
    <3>1. sending = "none" /\ sending' \in {"event", "reply"} /\ Len(out') = Len(out) - 1
          /\ blocks' = blocks
      BY <1>1, <2>1 DEF SenderTakes
    <3>2. QED
      BY <1>1, <3>1 DEF SendingOK, Outgoing
  <2>2. CASE SenderSends
    BY <1>1, <2>2 DEF SenderSends, SendingOK, Outgoing
  <2>3. QED
    BY <2>1, <2>2
<1>4. Holds(Worker)' = Holds(Worker) /\ Holds(Worker) \in Nat
  BY <1>2 DEF Holds
<1>5. blocks' = blocks - Holds(Worker) + Holds(Worker)' + (Messages' - Messages)
                  + (Outgoing' - Outgoing)
  BY <1>1, <1>2, <1>3, <1>4
<1>6. QED
  BY <1>1, <1>2, <1>3, <1>5, TaskKeeps

-----------------------------------------------------------------------------

\* Nothing is allocated.
LEMMA EmptyCounts ==
  ASSUME client = [c \in Clients |-> Gone], rx = <<>>, worker = <<>>, out = <<>>,
         sending = "none", post = [t \in Replier \cup EventTask |-> "idle"], blocks = 0
  PROVE  MemInv
<1>1. Building = {} /\ HoldingAny = {}
  BY DEF Building, HoldingAny, Gone
<1>2. MemoryAccounted
  <2>1. Cardinality(Building) = 0 /\ Cardinality(HoldingAny) = 0
    BY <1>1, FS_EmptySet
  <2>2. QED
    BY <2>1 DEF MemoryAccounted, Building, HoldingAny
<1>3. OffIsEmpty /\ NoneIsEmpty /\ SendingOK /\ WorkerBusy
  BY DEF OffIsEmpty, NoneIsEmpty, SendingOK, WorkerBusy, Gone
<1>4. QED
  BY <1>2, <1>3 DEF MemInv

LEMMA RebootCounts == Reboot => MemInv'
<1> SUFFICES ASSUME Reboot PROVE MemInv'
  OBVIOUS
<1>1. /\ client' = [c \in Clients |-> Gone] /\ rx' = <<>> /\ worker' = <<>> /\ out' = <<>>
      /\ sending' = "none" /\ post' = [t \in Replier \cup EventTask |-> "idle"] /\ blocks' = 0
  BY DEF Reboot
<1>2. Building' = {} /\ HoldingAny' = {}
  BY <1>1 DEF Building, HoldingAny, Gone
<1>3. MemoryAccounted'
  <2>1. Cardinality(Building') = 0 /\ Cardinality(HoldingAny') = 0
    BY <1>2, FS_EmptySet
  <2>2. QED
    BY <1>1, <2>1 DEF MemoryAccounted, Building, HoldingAny
<1>4. OffIsEmpty' /\ NoneIsEmpty' /\ SendingOK' /\ WorkerBusy'
  BY <1>1 DEF OffIsEmpty, NoneIsEmpty, SendingOK, WorkerBusy, Gone
<1>5. QED
  BY <1>3, <1>4 DEF MemInv

LEMMA OthersCount ==
  ASSUME MemInv, UNCHANGED <<client, rx, worker, out, sending, post, blocks>>
  PROVE  MemInv'
  BY DEF MemInv, OffIsEmpty, NoneIsEmpty, SendingOK, WorkerBusy, MemoryAccounted

\* For any clients, tasks, queues and frames: no heap block of the streams is lost or
\* freed twice, whether a frame is abandoned, refused, or a client leaves in the middle
\* of it, a queue is full, or a task is overtaken between its check and its post.
THEOREM MemoryIsAccounted == Spec => []MemoryAccounted
<1>1. Init => MemInv
  BY EmptyCounts DEF Init, SocketsInit
<1>2. StreamsTyped /\ StreamsTyped' /\ MemInv /\ [Next]_vars => MemInv'
  <2> SUFFICES ASSUME StreamsTyped, StreamsTyped', MemInv, [Next]_vars PROVE MemInv'
    OBVIOUS
  <2>1. CASE Reboot
    BY <2>1, RebootCounts
  <2>2. CASE UNCHANGED <<client, rx, worker, out, sending, post, blocks>>
    BY <2>2, OthersCount
  <2>3. CASE Handshake
    BY <2>2, <2>3, ConnectionCounted DEF Handshake, EventsOpen
  <2>4. CASE SocketCallback
    BY <2>2, <2>4, ConnectionCounted, ChunkCounted DEF SocketCallback, EventsClose
  <2>5. CASE SocketTask
    BY <2>5, WorkerCounted, SenderCounted, PreparedCounted, EnqueuedCounted DEF SocketTask
  <2>6. QED
    BY <2>3, <2>4, <2>5, <2>1, <2>2 DEF Next, AsyncTcp, vars, socketVars
<1>3. MemInv => MemoryAccounted
  BY DEF MemInv
<1>4. MessageInv /\ RoomInv => StreamsTyped
  BY DEF StreamsTyped
<1>5. QED
  BY <1>1, <1>2, <1>3, <1>4, MessageInvariant, RoomInvariant, PTL DEF Spec
=============================================================================
