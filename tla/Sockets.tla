------------------------------ MODULE Sockets -------------------------------
(***************************************************************************)
(* The WebSocket and the event stream: src/src/web/web_sockets.cpp.        *)
(*                                                                         *)
(* Inbound, the AsyncTCP task puts the chunks of a frame together and      *)
(* hands whole messages to a worker task.  Outbound, every task posts to   *)
(* one queue that a sender task drains: replies wait for room, events      *)
(* (telemetry, log lines) never wait and may not take the last slots.      *)
(*                                                                         *)
(* The library that calls back is external.  It gives the chunks of a      *)
(* frame in order; here it may also lose chunks after the first, start a   *)
(* frame before the last one is complete, or drop the connection, at any   *)
(* point.  That a frame's first chunk is always reported is an assumption  *)
(* about the library: it is what ends an older assembly (index = 0), and   *)
(* without it a later chunk could be added to that one.                    *)
(***************************************************************************)
EXTENDS Naturals, Sequences, FiniteSets

CONSTANTS
  Clients,                  \* WebSocket clients
  Replier, EventTask,       \* tasks that post replies and alerts; events
  Worker,                   \* the one of Replier that handles messages
  WS_RX_QUEUE_LEN,          \* web_sockets.cpp: 8
  WS_OUT_QUEUE_LEN,         \* 32
  WS_OUT_RESERVED,          \* 8
  MaxChunks, MaxFrames      \* bounds: chunks of a frame; frames in all

ASSUME SocketsAssumption ==
  /\ Worker \in Replier /\ EventTask # {}
  /\ IsFiniteSet(Clients) /\ IsFiniteSet(Replier) /\ IsFiniteSet(EventTask)
  /\ Replier \cap EventTask = {}
  /\ {WS_RX_QUEUE_LEN, WS_OUT_QUEUE_LEN} \subseteq Nat \ {0}
  /\ WS_OUT_RESERVED \in 0..(WS_OUT_QUEUE_LEN - 1)

VARIABLES
  client,    \* per client: connected, the frame the library is in, the assembly
  events,    \* someone listens to /rawEvents
  rx,        \* ws_rx_queue
  worker,    \* the message the worker has in hand
  out,       \* ws_out_queue
  sending,   \* what the sender has taken off it
  post,      \* how far each task is with enqueue_out
  blocks,    \* ghost: heap blocks allocated and not freed
  frames     \* bound: frames begun

socketVars == <<client, events, rx, worker, out, sending, post, blocks, frames>>

NoFrame == [id |-> 0, size |-> 0, sent |-> 0]
NoAssembly == [total |-> 0, got |-> <<>>]
Gone == [on |-> FALSE, frame |-> NoFrame, asm |-> NoAssembly]

SocketsInit ==
  /\ client = [c \in Clients |-> Gone] /\ events = FALSE
  /\ rx = <<>> /\ worker = <<>>
  /\ out = <<>> /\ sending = "none"
  /\ post = [t \in Replier \cup EventTask |-> "idle"]
  /\ blocks = 0 /\ frames = 0

WsClients == {c \in Clients : client[c].on}
Held(c) == IF client[c].asm = NoAssembly THEN 0 ELSE 1

-----------------------------------------------------------------------------
(* Inbound.                                                                *)

Connect(c) ==
  /\ ~client[c].on
  /\ client' = [client EXCEPT ![c] = [Gone EXCEPT !.on = TRUE]]
  /\ UNCHANGED <<events, rx, worker, out, sending, post, blocks, frames>>

\* Mutant: the assembly of a client that leaves is forgotten, not freed.
DisconnectOnly(c) ==
  /\ client[c].on /\ client' = [client EXCEPT ![c] = Gone]
  /\ UNCHANGED <<events, rx, worker, out, sending, post, blocks, frames>>

Disconnect(c) ==
  /\ client[c].on /\ client' = [client EXCEPT ![c] = Gone]
  /\ blocks' = blocks - Held(c)
  /\ UNCHANGED <<events, rx, worker, out, sending, post, frames>>

\* ws_deliver: a full queue drops the message.  before: the blocks without it.
Deliver(msg, before) ==
  IF Len(rx) < WS_RX_QUEUE_LEN
    THEN rx' = Append(rx, msg) /\ blocks' = before + 1
    ELSE rx' = rx /\ blocks' = before

\* A chunk for the assembly a: out of order, the assembly is freed; the last one makes
\* it a message.
Continue(c, a, k, f, before) ==
  LET inOrder == Len(a.got) + 1 = k /\ a.total = f.size
      got == Append(a.got, [id |-> f.id, k |-> k, size |-> f.size])
  IN IF ~inOrder
       THEN /\ client' = [client EXCEPT ![c].frame = f, ![c].asm = NoAssembly]
            /\ blocks' = before /\ rx' = rx
     ELSE IF k < a.total
       THEN /\ client' = [client EXCEPT ![c].frame = f, ![c].asm = [a EXCEPT !.got = got]]
            /\ blocks' = before + 1 /\ rx' = rx
     ELSE /\ client' = [client EXCEPT ![c].frame = f, ![c].asm = NoAssembly]
          /\ Deliver(got, before)

\* The first chunk of a frame (index 0): the assembly of an unfinished one is freed;
\* then the frame is refused, or there is no memory for it, or it is begun.
Begun(c, f, before) ==
  \/ /\ client' = [client EXCEPT ![c].frame = f, ![c].asm = NoAssembly]
     /\ blocks' = before /\ rx' = rx
  \/ Continue(c, [total |-> f.size, got |-> <<>>], 1, f, before)

\* Mutant: a refused frame leaves the assembly there was.
FirstChunkKeeps(c) ==
  /\ client[c].on /\ frames < MaxFrames /\ frames' = frames + 1
  /\ \E size \in 1..MaxChunks :
       LET f == [id |-> frames + 1, size |-> size, sent |-> 1] IN
         \/ client' = [client EXCEPT ![c].frame = f] /\ blocks' = blocks /\ rx' = rx
         \/ Begun(c, f, blocks - Held(c))
  /\ UNCHANGED <<events, worker, out, sending, post>>

FirstChunk(c) ==
  /\ client[c].on /\ frames < MaxFrames /\ frames' = frames + 1
  /\ \E size \in 1..MaxChunks :
       Begun(c, [id |-> frames + 1, size |-> size, sent |-> 1], blocks - Held(c))
  /\ UNCHANGED <<events, worker, out, sending, post>>

\* A later chunk; those of a frame without an assembly are ignored.
NextChunk(c) ==
  LET f == client[c].frame
      k == f.sent + 1
      next == [f EXCEPT !.sent = k]
  IN /\ client[c].on /\ f.sent < f.size
     /\ IF client[c].asm = NoAssembly
          THEN client' = [client EXCEPT ![c].frame = next] /\ UNCHANGED <<rx, blocks>>
          ELSE Continue(c, client[c].asm, k, next, blocks - 1)
     /\ UNCHANGED <<events, worker, out, sending, post, frames>>

\* The library does not report a chunk, which is never a frame's first.
LoseChunk(c) ==
  /\ client[c].on /\ client[c].frame.sent < client[c].frame.size
  /\ client' = [client EXCEPT ![c].frame.sent = @ + 1]
  /\ UNCHANGED <<events, rx, worker, out, sending, post, blocks, frames>>

WorkerTakes ==
  /\ worker = <<>> /\ post[Worker] = "idle" /\ rx # <<>>
  /\ worker' = Head(rx) /\ rx' = Tail(rx)
  /\ UNCHANGED <<client, events, out, sending, post, blocks, frames>>

\* The message is freed; then the file system is offline, or the message is no request,
\* or it is handled, which may end in a reply.
WorkerHandles ==
  /\ worker # <<>> /\ worker' = <<>> /\ blocks' = blocks - 1
  /\ \E reply \in BOOLEAN : post' = [post EXCEPT ![Worker] = IF reply THEN "wants" ELSE "idle"]
  /\ UNCHANGED <<client, events, rx, out, sending, frames>>

-----------------------------------------------------------------------------
(* Outbound.                                                               *)

EventsClose ==
  /\ events /\ events' = FALSE
  /\ UNCHANGED <<client, rx, worker, out, sending, post, blocks, frames>>

EventsOpen ==
  /\ ~events /\ events' = TRUE
  /\ UNCHANGED <<client, rx, worker, out, sending, post, blocks, frames>>

Listened(t) == IF t \in EventTask THEN events ELSE WsClients # {}

\* Mutant: an event takes any free slot.
AdmitAny(t) == t \in Replier \/ Len(out) < WS_OUT_QUEUE_LEN

Admit(t) == t \in Replier \/ WS_OUT_QUEUE_LEN - Len(out) > WS_OUT_RESERVED

\* enqueue_out up to xQueueSend: nobody listens, no room for an event, no memory, or
\* the message is made.  The worker has something to say after a message, the others
\* at any time.
Prepare(t) ==
  /\ post[t] = (IF t = Worker THEN "wants" ELSE "idle")
  /\ \/ post' = [post EXCEPT ![t] = "idle"] /\ blocks' = blocks
     \/ /\ Listened(t) /\ Admit(t)
        /\ post' = [post EXCEPT ![t] = "holds"] /\ blocks' = blocks + 1
  /\ UNCHANGED <<client, events, rx, worker, out, sending, frames>>

\* xQueueSend: a reply waits for room until its time is up, an event does not.
Enqueue(t) ==
  /\ post[t] = "holds" /\ post' = [post EXCEPT ![t] = "idle"]
  /\ \/ /\ Len(out) < WS_OUT_QUEUE_LEN /\ blocks' = blocks
        /\ out' = Append(out, IF t \in EventTask THEN "event" ELSE "reply")
     \/ Len(out) = WS_OUT_QUEUE_LEN /\ out' = out /\ blocks' = blocks - 1
  /\ UNCHANGED <<client, events, rx, worker, sending, frames>>

SenderTakes ==
  /\ sending = "none" /\ out # <<>>
  /\ sending' = Head(out) /\ out' = Tail(out)
  /\ UNCHANGED <<client, events, rx, worker, post, blocks, frames>>

\* Sent to whoever still listens, and freed.
SenderSends ==
  /\ sending # "none" /\ sending' = "none" /\ blocks' = blocks - 1
  /\ UNCHANGED <<client, events, rx, worker, out, post, frames>>

\* What the AsyncTCP task does here, and what other tasks do.
SocketCallback ==
  \/ \E c \in Clients : Disconnect(c) \/ FirstChunk(c) \/ NextChunk(c) \/ LoseChunk(c)
  \/ EventsClose

SocketTask ==
  \/ WorkerTakes \/ WorkerHandles
  \/ \E t \in Replier \cup EventTask : Prepare(t) \/ Enqueue(t)
  \/ SenderTakes \/ SenderSends

-----------------------------------------------------------------------------
(* Properties.                                                             *)

\* A message handed to the worker is one whole frame of one client, every chunk once
\* and in order: frames that were refused, abandoned or lost a chunk leave nothing in
\* a later message.
Whole(m) == \A i \in DOMAIN m : m[i] = [id |-> m[1].id, k |-> i, size |-> Len(m)]

MessagesAreWhole == Whole(worker) /\ \A i \in DOMAIN rx : Whole(rx[i])

\* Nothing allocated is lost or freed twice: every block is an unfinished assembly, a
\* message on its way to the worker, or something to send on its way to the sender.
MemoryAccounted ==
  blocks = Cardinality({c \in Clients : client[c].asm # NoAssembly})
           + Len(rx) + (IF worker = <<>> THEN 0 ELSE 1)
           + Cardinality({t \in DOMAIN post : post[t] = "holds"})
           + Len(out) + (IF sending = "none" THEN 0 ELSE 1)

\* However long the queue stays full, events leave room for replies: of the reserved
\* slots they can take one for every other task that has been let in since, and no more.
\* (The comments promise more: that events leave all WS_OUT_RESERVED slots.)
EventsIn(q) == {i \in DOMAIN q : q[i] = "event"}

EventsLeaveRoom ==
  Cardinality(EventsIn(out))
    <= WS_OUT_QUEUE_LEN - WS_OUT_RESERVED + Cardinality(EventTask) - 1
=============================================================================
