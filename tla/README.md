# Project Voyager: specifications and proofs

Project Voyager is an ESP32 board with a LoRa radio, a web interface and a USB
port.  Boards exchange chat messages, bridge files between two PCs (Kermit in the
browser, over WebSerial) and carry IP packets for a PC program, Voyager Link (Go).
The firmware is a dozen FreeRTOS tasks over shared queues, flags and mutexes; the
radio loses, damages and repeats frames; boards reboot and PC programs are killed.
These modules model the parts where that is hard to get right.  Paths below are
relative to the repository: firmware in `src/`, pages in `data_main/`, Voyager
Link in `tools/voyager-link/`.

## 1. Inventory

| component | code | state | operations | talks to | status |
|---|---|---|---|---|---|
| Acknowledged LoRa link | `src/lora/lora_support.cpp`, `lora_proto.h` | send/receive/ACK queues, the packet in hand (`TxRetry`), `rx_dedup`, sequence counter | queue, transmit, wait, retry, receive, filter duplicates, acknowledge | radio, web pages, network mode | **LoraLink, RxDedup** |
| Radio access | same file | `lora_write_mutex`, `tx_in_progress`, FIFO, DIO0 edge | listen before talk, interrupt, missed-edge poll, apply a configuration | LoRa tasks, web worker, OTA | **RadioAccess** |
| USB port: bridge / Improv / network mode | `src/core/support_method.cpp`, `net_serial.cpp`, `improv_serial.cpp` | `lora_serial`, `s_active`, `s_busy`, the serial task's place | switch the bridge, enter, feed, poll and leave the mode, save the setting | web worker, Voyager Link | **NetMode** |
| Voyager Link, joining | `netbridge_windows.go` | handshake, keepalive, ACK clock | join, ask again, keep alive, leave, die | board over USB | **NetMode** |
| Voyager Link, ports | `server.go` | owner of each COM port | claim, open, take over, release | HTTP clients, bridge | planned |
| Voyager Link, pacing and gateway | `netpace.go`, `netgw.go` | token bucket, window, flow table | pace, forward, expire | PC network | planned |
| Kermit file transfer | `data_main/kermit.js`, `script.js` | one session per end: packet, tries, timers; the received pieces | negotiate, send, acknowledge, NAK, time out, cancel, linger; bridge on/off | boards' bridges | **Kermit, FileTransfer** |
| File system and settings | `support_method.cpp` | `s_fs_mutex`, `g_fs_offline`, files | enter, leave, replace a file | everybody | **FsUpdate** |
| Over-the-air update | `src/web/web_server.cpp` | owner, radio held, dirty, snapshot | admit, write, finish, abort, restore, reboot | file system, radio | **FsUpdate** |
| WebSocket and SSE | `src/web/web_sockets.cpp` | outgoing queue with reserve, receive queue, frame being assembled, client counts | enqueue, send, assemble, dispatch | pages, all tasks | **Sockets, Web** |
| Web transmit API and its tracker | `web_server.cpp`, `data_main/lib.js` | `next_tx_id`, the page's pending list | accept, started, result, give up | LoRa link, WebSocket | partly (LoraLink `Enqueue`) |
| Login | `src/web/auth.cpp` | password hash, four session slots | set, clear, create, revoke, check | web server, factory reset | **Login, Web** |
| WiFi | `src/wifi/wifi_support.cpp` | stored networks, monitor state, fallback AP, scan flag | connect best, monitor, fall back, scan, provision, restart | Improv, pages | **WifiLink** |
| Buttons, LED, SOS | `src/core/core_dispatch.h`, `tasks.cpp` | press classifiers | short, long, SOS, cancel | display, LoRa link | **Panel** (not the LED) |
| Display task | `src/display/oled_layout.h`, `oled_display.cpp` | its queue, page, overlay, alert, hold bar, message ring, sleep | post, apply, service (timers, sleep, redraw) | buttons, all tasks | **Panel** (not the drawing) |
| Bluetooth serial | `src/core/bt_serial.cpp` | a byte pump like the bridge's | | bridge | not modelled |
| Pages, Improv framing, boot, build scripts | see `PROJECT.json` | rendering, parsing, one-off set-up | | | not modelled |

What makes them hard, and so what the properties are about: acknowledgements that
are late, lost, meant for somebody else, or carry a wrapped number; full queues in
the middle of an exchange; flags tested by one task and changed by another before
it acts; uploads that fail after some of four resources have been taken; programs
that die in the middle of a handshake; a last acknowledgement nobody can
acknowledge; a step whose failure nobody looks at; a frame that lands while the interrupt is ignored; a message cut off in
the middle by the next one; a token issued while its password is being changed; a
hold that wakes the screen it was meant to act on.  `PROJECT.json` lists each at the line where it bites.

## 2. Modules

```
RxDedup  <-  LoraLink  <-  MCLoraPair, MCLoraTrio     MessageService (abstract)
                ^                                      = LoraLink!Service
                LoraLink_proofs
RadioAccess  <-  RadioAccess_proofs
NetMode      <-  NetMode_proofs
Kermit       <-  Kermit_proofs                         FileTransfer (abstract)
FsUpdate     <-  FsUpdate_proofs                       = Kermit!Transfer
Login, Sockets  <-  Web  <-  MCWeb
                      Web  <-  Web_proofs
WifiLink     <-  WifiLink_proofs
Panel        <-  Panel_proofs
```

**RxDedup** is `RxDedupMulti` of `lora_proto.h`: a table of the last accepted
number per source, with a window in accepted packets after which an entry no
longer counts, and replacement when full.  Pure operators, no variables.

**LoraLink** is both sides of the acknowledged protocol on any number of boards.
Per board: `Enqueue` (any task that calls `xQueueSend(send_packets)`), the TX task
(`TakePacket`, `Transmit`, `TransmitFails`, `Broadcast`, `OnAck`, `OnTimeout`: the
states of `send_with_retry`), the RX task (`RxBad`, `RxAck`, `RxData`,
`RxBroadcast`: the branches of `handle_rx_frame`; `SendAkn`), and the two tasks
that drain the queues.  The air is one step per frame: each board in reach hears
it, hears it damaged, or misses it, and a board's radio holds one frame, which the
next one overwrites.  So loss, collision, and the order in which tasks get the
mutex are all outcomes of the step; listening before talking only changes how
likely they are.  An ACK carries a number and a verdict and no address, as
`REC_AKNG` does.  `delivered` and `result` are histories.  LORA_SERIAL frames, which
have no ACK and no filter, are Kermit's channel and not in LoraLink.

**MessageService** is what the link promises between two boards: packets are
accepted in order and at most once, and "ok" is reported only for an accepted one.

**RadioAccess** opens up what LoraLink takes as one step, a transmission: the TX task
listening before it talks (`CheckModem`, `CheckFlags`, `Backoff`),
register access by register access (`TakeRadio`, `Key`, `Load`, `Listen`, `Unkey`),
the RX task reading the FIFO and answering with an ACK in between, a configuration
saved and applied, an update holding the radio, and reboots.  The DIO0 interrupt is
an edge: it is ignored while `tx_in_progress`, and the RX task's poll makes up for it.
Two more writers of `lora_config.json` do not apply it: a factory reset (`ResetFile`)
and a filesystem image (`OtaWrites`); `replaced` says which, until the reboot.

**NetMode** is the owner of the USB port: the serial task's loop, one place per
mode, reading the flags where the code reads them; the web worker's check and
assignment as two steps, and likewise those of `net_enter` (`NetEnter`, `NetEntered`),
which also refuses when its queue could not be created (`rx_q`); the tasks that save the setting; the idle timeout;
Improv tasks; reboots; and Voyager Link's handshake, adapter set-up, keepalive,
repeated start command, leave, and sudden death.

**Kermit** is `kermit.js` at both ends, with the boards' bridges between as two
queues that lose and damage frames, and `script.js` switching its board's bridge
off when a session reports.  Every transition of sender, receiver and the
lingering receiver is an action; a packet is its type, number, check type and
piece.  **FileTransfer** is what it promises: pieces stored in order and once,
the receiver's success only with the whole file, the sender's only after it.

**FsUpdate** is an update from admission to reboot, any number of competing requests,
the radio mutex, the settings snapshot, `ota_finish_task`, settings saves with both
tests in `fs_enter`, file responses under way, and reboots.  It fails in these ways: it
is refused; the file system is busy; `Update.begin`, a write or `Update.end` fails; the
client goes; the snapshot leaves a file out (too large, no heap), so that only the
backup of the boot may be left; the lock stays busy and the remount goes on without it;
the image cannot be mounted; a file cannot be written back; the finishing task cannot
be created, or neither it nor the restart task (`Stuck`).  Settings are one value, the
number of times the user saved them; `lost` names what befell them.

**Login** is `auth.cpp` with its routes: a password is written to flash and then put
in force with all sessions gone; a session is opened in three steps (the check, the
token, the slot); a factory reset wipes flash and memory from a task of its own and
restarts the board between any two of them.  Flash may refuse a password, refuse to be
cleared, or not be readable at boot (`Load`): `auth_init` then leaves none in force and
does not try again.  Two resets at once are not modelled.  **Sockets** is `web_sockets.cpp`: chunks
of WebSocket frames put together into messages for the worker task, and the outgoing
queue that replies wait for and events may not fill; every heap block is counted.
**Web** puts the two together: one AsyncTCP task runs the login handlers and the
stream callbacks, `StreamGate` lets a stream open only for a client `auth_check`
accepts, and a restart ends everything.

**Panel** is the two buttons and the display: the button task (`PollButtons`, with
`Update` for `CoreButton::update`), what it and other tasks post to the display's
queue (`PostAll`, `OthersPost`), and the display task, which applies an update
(`Apply`, one operator per kind) and then runs `Service`: alerts and overlays that
run out, sleep, redraw.  `Tick` is one sample of the buttons; `turn` gives each task
its run in every tick.  The ages saturate at the delay they are compared with.  While
BTN1 is held the bar may be posted again at any tick or not (`Throttle`: `shown_step`
lets it through once a tenth).  `press` is a ghost: how long BTN1 has been down, with
releases shorter than the debounce time counted in, and what its hold has done.

**WifiLink** is the WiFi of one board: `wifi_monitor` up to its blocking scan, the
scan as an interval in which other tasks run, the driver below with its callbacks,
provisioning over USB (Improv) in its four stages, saves from the web, the
restart they share, and reboots.  Elapsed times are flags.  The node that is
chosen, avoided or roamed to is not told apart from the others of its network.

Definitions marked "Mutant" are plausible wrong versions of the definition that
follows them; no action uses them.  Each property is shown to fail when one of them is put in
the place of the original.

## 3. Runs

| run | question | properties | bounds |
|---|---|---|---|
| lora_pair | do two boards that both send get the service? | `TypeOK`, `FreshIsNotDuplicate`, `ImplementsService`, `EveryPacketReported` | 3 packets (chat and network), 1 retry, queues of 1 (send: 2), numbers mod 3, table of 1, window of 2 |
| lora_trio | what still holds with three boards, two of them hidden from each other, ACKs for others, and more sources than slots? | `InOrderOncePerWindow`, `DedupTracksLatest`, `AcksAreEarned`, `OkMeansSeqAccepted` | 4 packets, one a broadcast, 1 retry; the third board hears 3 sources with a table of 2 and a window of 2 |
| lora_wrap (fails) | can a new message be taken for a duplicate? | `FreshIsNotDuplicate` | numbers mod 4, four packets between two chat messages |
| radio | is a frame ever lost because nobody looked, does the board talk over others, does it use what was saved? | `FreeMeansListening`, `DeafOnlyWhileSending`, `TalksOnClearChannel`, `SavedMeansApplied`, `FramesAreTaken`, `SendsEnd` | 2 configurations, 2 checks of the channel, 2 packets, 1 save, 1 upload, 1 reboot (by a factory reset or not) |
| net_mode | does an abandoned board fall back, and a joined one come alive? | `TypeOK`, `NetModeEnds`, `JoinedComesAlive` | 2 joins, 2 asks each, 2 browser commands, 1 reboot |
| net_owner (fails) | is the port the bridge's or the network's? | `OneOwner` | the same |
| kermit | does a file arrive whole or is a failure reported, always? | `InStep`, `ImplementsTransfer`, `BothReport` | 3 pieces, numbers mod 4, 3 tries, 3 frames in flight, 2 lost or damaged |
| fs_update | do settings, file system and radio survive failing updates? | `NoSaveDuringUpdate`, `SettingsCarried`, `OfflineExactly`, `RadioAccounted`, `RadioComesBack` | 2 request slots, 3 uploads of 2 pieces, 2 saves, 2 reboots |
| wifi | is the board reachable again whatever fails, and quiet when it is not needed? | `TypeOK`, `ReachableAgain`, `KeepsTrying`, `FallbackStops` | 2 networks, 1 provisioning, 1 save, 1 reboot, 2 links lost |
| wifi_provision (fails) | is the network saved the one that was reached? | `SavesWhatItReached` | the same |
| web | are the sessions those of the password in force and on flash, is no message a mixture, is all memory given back, is there room for replies? | `SessionsOfThisPassword`, `PasswordInForceIsStored`, `MessagesAreWhole`, `MemoryAccounted`, `EventsLeaveRoom` | 2 passwords, 1 set, 2 slots, 2 tokens, 1 restart; 1 client, 2 frames of up to 3 chunks; queues of 1 in and 3 out (2 reserved); the worker and 2 event tasks |
| panel | does the display show what is current, and do buttons mean what the user meant? | `TypeOK`, `DetailShowsTheKthNewest`, `ShownIsCurrent`, `WakingPressOnlyWakes`, `SosIsHeldAndOnce`, `ScreenSleeps` | 2 pages, queue and ring of 2, 3 level changes, 3 posts of which 1 is no message, delays scaled down in order |

The Kermit, WiFi, panel and web runs do not check for deadlock: sessions that have
ended, a board in AP mode that nobody asks for anything, a sleeping panel, and a web
server whose bounds on requests are used up are at rest.  The other runs check it.

The bounds are small and the code's constants large (256 numbers, 64, ten tries,
queues of 20), but what can go wrong happens at the limits, and the small values
reach every limit: queues overflow, the table of the third board in lora_trio evicts a
source and that source's retry comes back, numbers wrap, tries run out, the
file is longer than half the number space, a second upload retries the first, a
reboot falls between any two steps.  In `Panel` the delays keep their order and the
code's one inequality between them (`HOLD_WAKE_WINDOW >= SOS_HOLD + DEBOUNCE`, an
assumption of the module).  Symmetry is used in the web run only, for passwords and for
the tasks that post events, and that run has no liveness property.

The scaled delays and table sizes matter only for the liveness properties and for the
three failing runs: every other property is proved for all of them (section 5).

The type invariants of FsUpdate, RadioAccess, Kermit and Login are not among the
properties of the runs, for their proofs cover every instance (section 5).

### What the failing runs show

* **lora_wrap.**  Network packets use numbers of the same counter as chat.  A
  listener that does not commit them (broadcasts, other boards' packets) keeps its old
  chat entry, and the chat message a full turn later is dropped *and acknowledged*.
  `support_method.cpp:469` avoids this for serial frames; for LORA_NET nothing does.
* **net_owner.**  Bridge and network mode each test the other's flag before setting
  their own, in two tasks with nothing between: both can be on.
* **wifi_provision.**  The monitor tests `g_provisioning` only at the top of its loop.
  If provisioning starts while it scans, it then connects to the stored network, and
  provisioning, which asks only whether the board is connected, saves the new one.

More disagreements were seen while modelling and have no run:

* `lora_proto.h:152` calls the duplicate table's replacement LRU, and the entry evicted
  is the next in turn.
* A Kermit receiver lingers to repeat a lost last ACK, but its page turns the bridge off
  at once, so the repeats do not leave and the sender reports a failure for a file that
  arrived.
* The offline flag of the file system is tested when a request arrives, so a file
  response that has begun goes on reading the partition.
* Events do not leave the whole reserve to replies, as `web_sockets.cpp:9` ("slots kept
  free for WS replies") and `:234` and `web_validate.h:280-283` ("can never crowd out a WS
  reply") say: the free slots are counted in one step and taken in another, so each event
  task but one can take a reserved slot.  `EventsLeaveRoom` states what is left.
* `web_server.cpp:533` keeps the radio quiet "until the reboot", and when neither the
  finishing nor the restart task can be created there is none: the second result is not
  looked at (`:535`).
* `auth.h:17` has the password loaded "also done lazily"; after a load that failed it is not,
  for `auth_init` sets `g_loaded` all the same (`auth.cpp:36`).

### What the properties except

Each exception is a path the code has, is in the model, and is named in the property:

* `Stranded` (`ReachableAgain`, `FallbackStops`): provisioning succeeded and its restart
  task could not be created.  Its result is dropped and the monitor stands still for ever.
* `Stuck` (`RadioComesBack`): an upload is through and neither task for its end could be
  created.  The mutex stays held, later uploads are answered busy, until someone reboots
  the board; `RadioAccounted` says that nothing else holds the radio without an upload.
* `lost` (`SettingsCarried`): a reboot between erasing and restoring, a snapshot that left
  the file out, an image that cannot be mounted, a restore that could not be written.  The
  code reboots all the same in the last three.
* `replaced` and `reported` (`SavedMeansApplied`): the file was replaced by a factory reset
  or by a filesystem image, or the save was answered "applies after restart".  Until the
  reboot the radio runs something else.
* `load = "failed"` (`PasswordInForceIsStored`): flash could not be read at boot; no
  password is then in force until one is set.
* `~rx_q` (`JoinedComesAlive`): the board could not create its receive queue and refuses
  the network mode.

## 4. Fairness

Weak fairness of each FreeRTOS task (or goroutine, or browser session): a task
that can run does run, which the scheduler gives at the priorities used.  Timers
fire.  It is never assumed that the radio carries a frame, that a peer answers, that
anybody sends a command, that an upload gets through, or that a WiFi network answers.  Two conditions say
more.  In NetMode a loop of the serial task ends although frames may keep arriving
(`SF_vars(LoopEnds)`): keepalives are 5 s apart and a loop takes milliseconds.  In
FsUpdate a request ends some day (`RequestEnds`), by the client, by success or by the
connection's timeout in the web server library.

In RadioAccess the RX, TX and configuration tasks are fair, and an update ends and gives
the radio back (`OtaGives`).  In Kermit each end's session is (`SenderRuns`,
`ReceiverRuns`: a frame is handled or the timer fires).  In Panel the button
task, the display task and the clock run, the boot animation ends, and a frame that
is due again and again is drawn some day (`SF_vars(Service /\ ~dirty')`: `service`
draws once the last frame is old enough, and it is called every few milliseconds).  That
in every tick the buttons are polled once and the display task gets to `service` once is
an assumption of the module, which a long drawing would break.  The web run checks safety
only.

## 5. Proofs

For every value of the constants (any number of boards, any workload, table and
queue sizes; files of any length; any number of requests, passwords, sessions, clients
and configurations):

* **LoraLink_proofs**, in five parts.
  *The table* (`CommitProperties`, `SlotForIsSlot`): what committing and looking up do to
  a table of any size; the slot chosen is the source's own, else a free one, else the
  next in turn.
  *The ACKs*: `TypeCorrect`, `DedupCorrect` (`DedupTracksLatest`), `AcksEarned` and
  `OkIsNeverUnfounded`, from
  `LinkInv == TypeOK /\ DedupTracksLatest /\ AcksAreEarned /\ OkMeansSeqAccepted`.
  The argument: a positive ACK is created for a packet that is queued and committed
  in the same step, or for one the table knows.  That the table is right
  (`DedupTracksLatest`) makes the second case as good as the first.  The ACK then
  moves from `reply` through the air into another board's `ackQueue`; histories only
  grow, so what it claims stays true; and `send_with_retry` reports success only
  from such an ACK with its own number.  None of the four is inductive alone.
  *The order*: `OnceAndInOrder` (`InOrderOncePerWindow`), from `OrderInv`.
  A data frame in a radio is of a packet no older than anything its board has queued
  from that sender, because a sender transmits only its current packet and a radio
  keeps only the last frame: so numbers never go down.  That nothing is queued twice
  within the window rests on the table: while no more sources have been heard than it
  has slots, a slot that is needed is a free one (`RoomForNew`, by counting), so no
  source is forgotten (`NoneForgotten`), and a source's entry is its last packet.
  *What the filter may mistake*: `SwallowsOnlyAfterWrap` holds of any boards and
  workloads: a frame answered as a duplicate was queued before, or is SEQ_MOD or more
  packets after one that was.  `FreshPasses` (`FreshIsNotDuplicate`) follows where no
  board sends more than SEQ_MOD packets (`NoWrap`), and lora_wrap shows that it needs
  that: the theorem says that the wrap is the only cause.
  *Two boards*: `PairDeliversOnce` needs two boards (`Pair`) and a window of at least
  two packets (the code's is 16), and no bound on the workload: what a board queues is
  its peer's, so the packet queued last is in the table whatever its size, and the
  filter stops its repeat (`LastIsDuplicate`); older packets no longer arrive.  With
  `NoWrap` also, `PairImplementsService` (`ImplementsService`): every step is one of
  MessageService or a stutter.  Queueing delivers (`AcceptDelivers`); an "ok" rests on
  a packet of that number that the peer has queued from here, no newer than the one in
  hand, and only that one has the number (`AcceptedIsCurrent`).
* **Kermit_proofs**: `KermitInvariant`, `TypeCorrect`, `StaysInStep` (`InStep`) and
  `TransferImplemented`: every step of Kermit is a step of FileTransfer or stutters.
  The invariant `KInv` names the number k of packets the receiver has taken.  The
  sender is at packet k or k + 1; data frames in flight are of these two, the older
  before the newer; answers in flight speak of packet k, or of k - 1 before k.  Two
  neighbours never have the same number as `SEQ_MOD` is at least 4, so each end knows
  which of the two it holds: this is where losses and repeats become harmless.
* **FsUpdate_proofs**: `NobodySavesDuringUpdate`, `SettingsAreCarried`,
  `OfflineOnlyForUpdate`, `RadioIsAccounted` and `TypeCorrect`, from `UpdateInv`.
  Its additions: whose the lock is (`LockOwned`); an owner is an upload under way,
  with no reboot pending (`OwnerUploads`); the dirty flag is exact
  (`DirtyIsOffline`); and where the user's settings are at each moment
  (`SettingsAreSomewhere`): on the disk while it is whole, in the snapshot from then
  until they are restored, or `lost` names why in neither.  `SettingsCarried` speaks only
  of the moments in between updates and is not inductive without it.
* **RadioAccess_proofs**: `FreeRadioListens`, `DeafOnlyForOwnFrames`,
  `ClearChannelRespected`, `SavesAreApplied` and `TypeCorrect`, from `RadioInv`: for
  each point a task can be at, whether it holds the mutex and what it has done to the
  radio by then.  The properties speak of the moments between these points.  For
  `SavedMeansApplied`: a save that is not over has written what it wants, as long as no
  reset or image has replaced the file.
* **Web_proofs**: `TokensDieWithTheirPassword` (`SessionsOfThisPassword`),
  `InForceIsStored`, `RepliesKeepTheirRoom` (`EventsLeaveRoom`),
  `WholeMessagesOnly` (`MessagesAreWhole`) and `MemoryIsAccounted` (`MemoryAccounted`).
  The first two need
  what a handler caught between two steps still knows: a session being opened while a
  password is in force was let in under that password (`OpeningIsOfThisEra`), and a
  password being put in force is in flash (`ApplyingIsStored`).  Boots that cannot read
  the password are among the steps.  The third counts:
  events in the queue plus tasks that have looked and not yet posted never exceed the
  shared slots by more than one for every event task but one.  The fourth keeps, for
  every client, that its assembly holds the first chunks of the frame the library is in,
  numbered from 1 with none left out (`AssemblyOf`): a chunk lost or a frame abandoned
  breaks the numbering, and the assembly is given up.  The fifth: every step changes one
  client's assembly or one task's message, so each of the sets that are counted grows or
  shrinks by that element, and what it loses a queue, the worker or the free list has
  gained.  It needs that a client that has left has no assembly, that no message is
  empty, and that the worker holds nothing to send while it has a message in hand.
* **Panel_proofs**: `PanelTypeCorrect`, `DetailIsRight`
  (`DetailShowsTheKthNewest`), `PanelIsCurrent` (`ShownIsCurrent`), `OneSosAHold`
  (`SosIsHeldAndOnce`) and `WakingPressIsSpent` (`WakingPressOnlyWakes`).  The detail
  view needs that the slots of the ring hold the newest `count` messages in order round
  it.  For the SOS, `HoldInv` bounds what `CoreButton` keeps (`since`, `held`) by the
  time BTN1 has really been down: releases shorter than the debounce time do not end a
  hold, and are counted in.  For the waking press, `WakeInv` follows one press from its
  bar in the queue to its release: whenever a press is marked as the one that woke the
  screen, `hold_wake` is set, the time since is no more than the time it has been held,
  and so its release falls in `HOLD_WAKE_WINDOW`.  Updates that a full queue drops only
  take evidence away.
* **WifiLink_proofs**: `TypeCorrect` (with at most one restart waiting: `OneRestart`
  relates the flag and the task) and `InterfacesStayOn`.  The monitor switches the access
  point, provisioning the STA, in any order; a board booted for a network keeps its STA
  because provisioning noted it as on, a board booted as access point keeps that because
  it has no monitor (`Reasons`), and the fallback flag never outlives its access point.
* **NetMode_proofs**: `TypeCorrect`: save tasks are counted against the commands that
  started them, and the handshake asks only before its deadline.
  `OnlyStaleChecksCollide`: net_owner fails through two steps only, the web worker's
  assignment after its check (`SetsTheBridge`) and that of `net_enter` after its own
  (`SetsTheNetwork`).

The assumptions are those named in the modules (`LinkAssumption`, `DedupAssumption`,
`KermitAssumption`, `FsUpdateAssumption`, `RadioAssumption`, `LoginAssumption`,
`SocketsAssumption`, `PanelAssumption`, `WifiAssumption`, `NetModeAssumption`): types and positive sizes, numbers modulo at least 4 in Kermit;
boards in LoraLink hash to distinct duplicate keys; the clients and the tasks of
Sockets are finitely many.

A theorem states every safety property of a passing run.  Only model-checked is liveness
(`EveryPacketReported`, `NetModeEnds`, `JoinedComesAlive`, `BothReport`,
`RadioComesBack`, `FramesAreTaken`, `SendsEnd`, `ScreenSleeps`, `ReachableAgain`,
`KeepsTrying`, `FallbackStops`): the prover does not do fairness or ENABLED.

## 6. Not modelled

* Frame layout, JSON, the CRC, Improv and SLIP framing, the encoding of Kermit
  packets: a damaged frame is recognised as such.  (A damaged chat frame's sequence
  byte can be anything, `BadSeq`.)
* Time as numbers: a timeout can fire whenever its task waits, unless a module
  says what it waits for.
* Memory exhaustion, except where code has a path for it that changes the outcome
  (refused packets, a snapshot without heap, tasks that cannot be created in an update or
  in provisioning).  The tasks created at boot are there: in WifiLink in particular the
  monitor (`wifi_support.cpp:586-592`), and the access point starts (`:624-629`); a board
  on which either fails goes on without, and nothing said of reaching it holds.
* In LoraLink, reboots: the table and the numbers are in RAM only, so a packet being
  retried across its receiver's reboot is delivered again.
* In LoraLink a transmission is one step; RadioAccess has its steps, and not the
  protocol around them.
* In LoraLink, ACKs without bound from boards outside the model: a wait is measured from
  its transmission, so they cannot lengthen it.  With three boards a success means that
  some board accepted that number (`OkMeansSeqAccepted`): ACKs name no sender, so that it
  was the addressee is neither what the code knows nor what is stated.
* In Sockets, a frame whose first chunk the library does not report: that it always does
  is an assumption, for `index == 0` is what ends an older assembly.
* In FsUpdate, the login and the steps inside `write_file_atomic`.  A wrong checksum is
  one of the ways `Update.end` fails.
* In Login, which request carries which
  token is left open; who may do something is whom `auth_check` accepts.
* In Sockets, the counters of what was dropped, which are only printed.  A task that
  posts both events and replies is one of each.
* In Panel, the LED and the drawing.  A hold that wakes the screen and
  ends in an SOS, or whose release a full queue drops, leaves `hold_wake` set, and a
  short press of BTN1 within its window is then swallowed: the module does this as
  the code does, and no property speaks of it.
* Pages, scripts and boot: nothing in them interleaves.

## 7. What is left

1. **WifiScan**: scans for the pages and for Improv beside the monitor's; one at a
   time, and the interfaces left as they were found.
2. **LinkPorts** and **LinkGateway**: claim, take-over and release of a port between
   the HTTP server and the bridge; the flow table's limit.
3. **WebTx**: every accepted transmission is resolved in the page.
4. **KermitCodec** and **AtomicFile**: decoding undoes encoding; a settings file is
   the old or the new one after a power loss at any step.
5. LoraLink with reboots, and with RadioAccess in the place of its one-step
   transmissions.
6. Proofs: what may be said of three boards in place of MessageService (an "ok" names a
   number and not a packet), and of a counter that goes round between two boards.
