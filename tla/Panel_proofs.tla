---------------------------- MODULE Panel_proofs ----------------------------
(***************************************************************************)
(* Proofs about Panel, for any delays in the order of the real ones, any   *)
(* queue and any ring:                                                     *)
(*  1. what the queue holds and where its presses came from;               *)
(*  2. types;                                                              *)
(*  3. the ring, and the detail view into it;                              *)
(*  4. the panel shows what the state says;                                *)
(*  5. the hold of BTN1: one SOS for one hold, and the press that woke the *)
(*     screen only wakes it.                                               *)
(***************************************************************************)
EXTENDS Panel, TLAPS

Notes == {Alert("timed"), Alert("sticky"), Info(0), Info(1)}
Presses == {Press(1, FALSE), Press(2, FALSE), Press(2, TRUE)}
Updates == {Progress, Hide, Message} \cup Notes \cup Presses

Event == {"Pressed", "Progress", "HoldFired", "ShortRelease", "LongRelease", None}

Queued(q) == {q[i] : i \in 1..Len(q)}

LEMMA Delays ==
  /\ DEBOUNCE \in Nat /\ DEBOUNCE > 0 /\ SOS_HOLD \in Nat /\ SOS_HOLD > 0
  /\ BTN2_LONG \in Nat /\ BTN2_LONG > 0 /\ SLEEP_TIMEOUT \in Nat /\ SLEEP_TIMEOUT > 0
  /\ MSG_OVERLAY \in Nat /\ MSG_OVERLAY > 0 /\ ALERT_TIME \in Nat /\ ALERT_TIME > 0
  /\ PROGRESS_STALE \in Nat /\ PROGRESS_STALE > 0
  /\ QUEUE_DEPTH \in Nat /\ QUEUE_DEPTH > 0 /\ MSG_RING_SIZE \in Nat /\ MSG_RING_SIZE > 0
  /\ HOLD_WAKE_WINDOW \in Nat /\ HOLD_WAKE_WINDOW >= SOS_HOLD + DEBOUNCE
  /\ PAGES \in Nat /\ PAGES > 1
  BY PanelAssumption DEF PanelAssumption

USE Delays

-----------------------------------------------------------------------------
(* 1. What the queue holds.                                                *)

\* What apply() reads of an update is there.
LEMMA UpdateFields ==
  ASSUME NEW m \in Updates
  PROVE  /\ m.cmd \in {"progress", "hide", "alert", "message", "button", "info"}
         /\ m.cmd = "progress" => m = Progress
         /\ m.cmd = "alert" => m.kind \in {"timed", "sticky"}
         /\ m.cmd = "info" => m.value \in {0, 1}
         /\ m.cmd = "button" => m.btn \in {1, 2} /\ m = Press(m.btn, m.long)
                                /\ (m.long = TRUE \/ m.long = FALSE)
  BY DEF Updates, Notes, Presses, Progress, Hide, Message, Alert, Info, Press

LEMMA PostKeeps ==
  ASSUME NEW q \in Seq(Updates), Len(q) <= QUEUE_DEPTH, NEW m \in Updates
  PROVE  /\ Post(q, m) \in Seq(Updates) /\ Len(Post(q, m)) <= QUEUE_DEPTH
         /\ Queued(Post(q, m)) \subseteq Queued(q) \cup {m}
<1>1. CASE Len(q) < QUEUE_DEPTH
  <2>1. Post(q, m) = Append(q, m)
    BY <1>1 DEF Post
  <2>2. Append(q, m) \in Seq(Updates) /\ Len(Append(q, m)) = Len(q) + 1 /\ Len(q) \in Nat
        /\ \A i \in 1..Len(q) + 1 : Append(q, m)[i] = IF i = Len(q) + 1 THEN m ELSE q[i]
    OBVIOUS
  <2>3. QED
    BY <1>1, <2>1, <2>2 DEF Queued
<1>2. CASE ~(Len(q) < QUEUE_DEPTH)
  BY <1>2 DEF Post
<1>3. QED
  BY <1>1, <1>2

LEMMA QueuedOf ==
  /\ Queued(<<>>) = {}
  /\ \A x : Queued(<<x>>) = {x}
  /\ \A x, y : Queued(<<x, y>>) = {x, y}
<1>1. ASSUME NEW x PROVE Queued(<<x>>) = {x}
  <2>1. Len(<<x>>) = 1 /\ <<x>>[1] = x /\ 1..1 = {1}
    OBVIOUS
  <2>2. QED
    BY <2>1 DEF Queued
<1>2. ASSUME NEW x, NEW y PROVE Queued(<<x, y>>) = {x, y}
  <2>1. Len(<<x, y>>) = 2 /\ <<x, y>>[1] = x /\ <<x, y>>[2] = y /\ 1..2 = {1, 2}
    OBVIOUS
  <2>2. QED
    BY <2>1 DEF Queued
<1>3. Queued(<<>>) = {}
  BY DEF Queued
<1>4. QED
  BY <1>1, <1>2, <1>3

LEMMA QueuedJoin ==
  ASSUME NEW q \in Seq(Updates), NEW r \in Seq(Updates)
  PROVE  q \o r \in Seq(Updates) /\ Queued(q \o r) \subseteq Queued(q) \cup Queued(r)
<1>1. q \o r \in Seq(Updates) /\ Len(q \o r) = Len(q) + Len(r)
      /\ \A i \in 1..Len(q) + Len(r) :
           (q \o r)[i] = IF i <= Len(q) THEN q[i] ELSE r[i - Len(q)]
  OBVIOUS
<1>2. \A i \in 1..Len(q) + Len(r) : (q \o r)[i] \in Queued(q) \cup Queued(r)
  <2>1. SUFFICES ASSUME NEW i \in 1..Len(q) + Len(r)
                 PROVE  (q \o r)[i] \in Queued(q) \cup Queued(r)
    OBVIOUS
  <2>2. CASE i <= Len(q)
    BY <1>1, <2>2 DEF Queued
  <2>3. CASE ~(i <= Len(q))
    <3>1. i - Len(q) \in 1..Len(r)
      BY <2>3
    <3>2. QED
      BY <1>1, <2>3, <3>1 DEF Queued
  <2>4. QED
    BY <2>2, <2>3
<1>3. QED
  BY <1>1, <1>2 DEF Queued

\* However many updates one poll posts, the queue keeps its depth and gets no others.
LEMMA PostAllKeeps ==
  ASSUME NEW q \in Seq(Updates), Len(q) <= QUEUE_DEPTH, NEW ms \in Seq(Updates)
  PROVE  /\ PostAll(q, ms) \in Seq(Updates) /\ Len(PostAll(q, ms)) <= QUEUE_DEPTH
         /\ Queued(PostAll(q, ms)) \subseteq Queued(q) \cup Queued(ms)
<1>1. PICK k \in 0..Len(ms) : PostAll(q, ms) = q \o SubSeq(ms, 1, k)
                              /\ Len(q) + k <= QUEUE_DEPTH
  <2>1. CASE Len(q) + Len(ms) <= QUEUE_DEPTH
    <3>1. SubSeq(ms, 1, Len(ms)) = ms
      OBVIOUS
    <3>2. PostAll(q, ms) = q \o ms
      BY <2>1 DEF PostAll
    <3>3. PostAll(q, ms) = q \o SubSeq(ms, 1, Len(ms))
      BY <3>1, <3>2, Zenon
    <3>4. Len(ms) \in 0..Len(ms)
      OBVIOUS
    <3>5. QED
      BY <2>1, <3>3, <3>4
  <2>2. CASE ~(Len(q) + Len(ms) <= QUEUE_DEPTH)
    <3>1. QUEUE_DEPTH - Len(q) \in 0..Len(ms)
      BY <2>2
    <3>2. PostAll(q, ms) = q \o SubSeq(ms, 1, QUEUE_DEPTH - Len(q))
      BY <2>2 DEF PostAll
    <3>3. Len(q) + (QUEUE_DEPTH - Len(q)) <= QUEUE_DEPTH
      OBVIOUS
    <3>4. QED
      BY <3>1, <3>2, <3>3
  <2>3. QED
    BY <2>1, <2>2
<1>2. SubSeq(ms, 1, k) \in Seq(Updates) /\ Len(SubSeq(ms, 1, k)) = k
      /\ \A i \in 1..k : SubSeq(ms, 1, k)[i] = ms[i] /\ i \in 1..Len(ms)
  OBVIOUS
<1>3. Queued(SubSeq(ms, 1, k)) \subseteq Queued(ms)
  BY <1>2 DEF Queued
<1>4. Len(q \o SubSeq(ms, 1, k)) = Len(q) + k
  BY <1>2
<1>5. /\ q \o SubSeq(ms, 1, k) \in Seq(Updates)
      /\ Queued(q \o SubSeq(ms, 1, k)) \subseteq Queued(q) \cup Queued(SubSeq(ms, 1, k))
  BY <1>2, QueuedJoin
<1>6. QED
  BY <1>1, <1>3, <1>4, <1>5

\* What one poll posts: a bar only while BTN1 is down, BTN1's press only when it is
\* let go before the SOS.
LEMMA PollPosts ==
  ASSUME NEW e1 \in Event, NEW e2 \in Event, NEW shows \in Throttle(e1)
  PROVE  LET ms == shows \o Posts2(e2)
         IN /\ ms \in Seq(Updates)
            /\ Progress \in Queued(ms) => e1 \in {"Pressed", "Progress"}
            /\ Press(1, FALSE) \in Queued(ms) => e1 = "ShortRelease"
<1> DEFINE ms == shows \o Posts2(e2)
<1>1. \/ shows = <<Progress>> /\ e1 \in {"Pressed", "Progress"}
      \/ shows = <<Hide, Press(1, FALSE)>> /\ e1 = "ShortRelease"
      \/ shows = <<>> \/ shows = <<Hide, Alert("timed")>>
  <2>1. shows = Posts1(e1) \/ shows = <<>>
    BY DEF Throttle
  <2>2. QED
    BY <2>1 DEF Posts1
<1>2. Posts2(e2) \in {<<>>, <<Press(2, FALSE)>>, <<Press(2, TRUE)>>}
  BY DEF Posts2
<1>3. {Progress, Hide, Alert("timed"), Press(1, FALSE), Press(2, FALSE), Press(2, TRUE)}
        \subseteq Updates
  BY DEF Updates, Notes, Presses
<1>4. shows \in Seq(Updates)
  <2>1. \A x, y \in Updates : <<x>> \in Seq(Updates) /\ <<x, y>> \in Seq(Updates)
    OBVIOUS
  <2>2. <<>> \in Seq(Updates)
    OBVIOUS
  <2>3. QED
    BY <1>1, <1>3, <2>1, <2>2
<1>5. Posts2(e2) \in Seq(Updates)
  <2>1. \A x \in Updates : <<x>> \in Seq(Updates)
    OBVIOUS
  <2>2. <<>> \in Seq(Updates)
    OBVIOUS
  <2>3. QED
    BY <1>2, <1>3, <2>1, <2>2
<1>6. ms \in Seq(Updates) /\ Queued(ms) \subseteq Queued(shows) \cup Queued(Posts2(e2))
  BY <1>4, <1>5, QueuedJoin
<1>7. Queued(Posts2(e2)) \subseteq {Press(2, FALSE), Press(2, TRUE)}
  BY <1>2, QueuedOf
<1>8. /\ Progress \notin {Hide, Alert("timed"), Press(1, FALSE), Press(2, FALSE), Press(2, TRUE)}
      /\ Press(1, FALSE) \notin {Hide, Alert("timed"), Press(2, FALSE), Press(2, TRUE)}
  BY DEF Progress, Press, Hide, Alert
<1>9. \/ Queued(shows) = {Progress} /\ e1 \in {"Pressed", "Progress"}
      \/ Queued(shows) = {Hide, Press(1, FALSE)} /\ e1 = "ShortRelease"
      \/ Queued(shows) = {} \/ Queued(shows) = {Hide, Alert("timed")}
  BY <1>1, QueuedOf
<1>10. QED
  BY <1>6, <1>7, <1>8, <1>9

-----------------------------------------------------------------------------
(* 2. Types.                                                               *)

CoreButton ==
  [raw : BOOLEAN, since : 0..DEBOUNCE, stable : BOOLEAN, held : Nat, fired : BOOLEAN, ev : Event]

ButtonsOK ==
  /\ level \in [Button -> BOOLEAN] /\ btn \in [Button -> CoreButton]
  /\ \A b \in Button : btn[b].held <= Hold(b)

QueueOK == queue \in Seq(Updates) /\ Len(queue) <= QUEUE_DEPTH

RingOK ==
  ring \in [slot : [0..(MSG_RING_SIZE - 1) -> Nat], head : 0..(MSG_RING_SIZE - 1),
            count : 0..MSG_RING_SIZE, total : Nat]

SleepState ==
  [on : BOOLEAN, idle : 0..SLEEP_TIMEOUT, hold_wake : BOOLEAN, since : 0..(HOLD_WAKE_WINDOW + 1)]

SleepOK == sleep \in SleepState

FlagsOK ==
  /\ panel_on \in BOOLEAN /\ dirty \in BOOLEAN /\ booting \in BOOLEAN
  /\ turn \in {"poll", "show", "tick"}

UiOK ==
  /\ info \in {0, 1} /\ page \in 0..(PAGES - 1)
  /\ alert \in [kind : {None, "timed", "sticky"}, left : 0..ALERT_TIME]
  /\ prog \in [on : BOOLEAN, age : 0..PROGRESS_STALE] /\ msgov \in 0..MSG_OVERLAY

PanelTyped == ButtonsOK /\ QueueOK /\ RingOK /\ SleepOK /\ FlagsOK /\ UiOK

LEMMA PanelStarts == Init => PanelTyped
<1>1. Init => QueueOK
  BY DEF Init, QueueOK
<1>2. Init => RingOK
  BY DEF Init, RingOK
<1>3. Init => ButtonsOK
  BY DEF Init, ButtonsOK, CoreButton, Released, Event, Button, Hold, None
<1>4. Init => SleepOK
  <2>1. 0 \in 0..SLEEP_TIMEOUT /\ 0 \in 0..(HOLD_WAKE_WINDOW + 1)
    OBVIOUS
  <2>2. QED
    BY <2>1 DEF Init, SleepOK, SleepState
<1>5. Init => FlagsOK
  BY DEF Init, FlagsOK
<1>6. Init => UiOK
  <2>1. 0 \in 0..(PAGES - 1) /\ 0 \in 0..ALERT_TIME /\ 0 \in 0..PROGRESS_STALE
        /\ 0 \in 0..MSG_OVERLAY
    OBVIOUS
  <2>2. QED
    BY <2>1 DEF Init, UiOK
<1>7. QED
  BY <1>1, <1>2, <1>3, <1>4, <1>5, <1>6 DEF PanelTyped

\* One sample of a button that holds for a time h to fire.
LEMMA SampleTyped ==
  ASSUME NEW c \in CoreButton, NEW h \in Nat \ {0}, c.held <= h, NEW pressed \in BOOLEAN
  PROVE  Update(c, pressed, h) \in CoreButton /\ Update(c, pressed, h).held <= h
<1>1. Update(c, pressed, h).since \in 0..DEBOUNCE
  BY DEF Update, Up, CoreButton
<1>2. Update(c, pressed, h).held \in Nat /\ Update(c, pressed, h).held <= h
  BY DEF Update, HeldNext, Up, CoreButton
<1>3. Update(c, pressed, h).ev \in Event
  BY DEF Update, Event
<1>4. /\ Update(c, pressed, h).raw \in BOOLEAN /\ Update(c, pressed, h).stable \in BOOLEAN
      /\ Update(c, pressed, h).fired \in BOOLEAN
  BY Zenon DEF Update
<1>5. Update(c, pressed, h) = [raw |-> Update(c, pressed, h).raw,
                               since |-> Update(c, pressed, h).since,
                               stable |-> Update(c, pressed, h).stable,
                               held |-> Update(c, pressed, h).held,
                               fired |-> Update(c, pressed, h).fired,
                               ev |-> Update(c, pressed, h).ev]
  BY DEF Update
<1>6. QED
  BY <1>1, <1>2, <1>3, <1>4, <1>5 DEF CoreButton

LEMMA ButtonsStayTyped == ButtonsOK /\ [Next]_vars => ButtonsOK'
<1> SUFFICES ASSUME ButtonsOK, [Next]_vars PROVE ButtonsOK'
  OBVIOUS
<1>1. CASE PollButtons
  <2>1. \A b \in Button : Hold(b) \in Nat \ {0}
    BY DEF Hold
  <2>2. \A b \in Button : /\ Update(btn[b], level[b], Hold(b)) \in CoreButton
                          /\ Update(btn[b], level[b], Hold(b)).held <= Hold(b)
    BY <2>1, SampleTyped DEF ButtonsOK
  <2>3. btn' = [b \in Button |-> Update(btn[b], level[b], Hold(b))] /\ level' = level
    BY <1>1 DEF PollButtons, Button
  <2>4. QED
    BY <2>2, <2>3 DEF ButtonsOK
<1>2. ASSUME NEW b \in Button, SetLevel(b) PROVE ButtonsOK'
  BY <1>2 DEF ButtonsOK, SetLevel
<1>3. CASE UNCHANGED buttonVars
  BY <1>3 DEF ButtonsOK, buttonVars
<1>4. QED
  BY <1>1, <1>2, <1>3
  DEF Next, vars, OthersPost, DisplayTask, Apply, Service, Pump, BootEnds, Tick

LEMMA QueueStaysTyped == ButtonsOK' /\ QueueOK /\ [Next]_vars => QueueOK'
<1> SUFFICES ASSUME ButtonsOK', QueueOK, [Next]_vars PROVE QueueOK'
  OBVIOUS
<1>1. CASE PollButtons
  <2>1. PICK shows \in Throttle(btn'[1].ev) :
          queue' = PostAll(queue, shows \o Posts2(btn'[2].ev))
    BY <1>1 DEF PollButtons, Button
  <2>2. btn'[1].ev \in Event /\ btn'[2].ev \in Event
    BY DEF ButtonsOK, CoreButton, Button
  <2>3. shows \o Posts2(btn'[2].ev) \in Seq(Updates)
    BY <2>1, <2>2, PollPosts
  <2>4. QED
    BY <2>1, <2>3, PostAllKeeps DEF QueueOK
<1>2. CASE OthersPost
  <2>1. PICK m \in Updates : queue' = Post(queue, m)
    BY <1>2 DEF OthersPost, Updates, Notes
  <2>2. QED
    BY <2>1, PostKeeps DEF QueueOK
<1>3. CASE Apply
  BY <1>3 DEF Apply, QueueOK
<1>4. CASE UNCHANGED queue
  BY <1>4 DEF QueueOK
<1>5. QED
  BY <1>1, <1>2, <1>3, <1>4
  DEF Next, vars, SetLevel, DisplayTask, Service, Pump, BootEnds, Tick

LEMMA RingStaysTyped == RingOK /\ [Next]_vars => RingOK'
<1> SUFFICES ASSUME RingOK, [Next]_vars PROVE RingOK'
  OBVIOUS
<1>1. CASE ring' = RingPush(ring)
  <2>1. (ring.head + 1) % MSG_RING_SIZE \in 0..(MSG_RING_SIZE - 1)
    BY DEF RingOK
  <2>2. Up(ring.count, MSG_RING_SIZE) \in 0..MSG_RING_SIZE
    BY DEF RingOK, Up
  <2>3. QED
    BY <1>1, <2>1, <2>2 DEF RingOK, RingPush
<1>2. CASE UNCHANGED ring
  BY <1>2 DEF RingOK
<1>3. QED
  BY <1>1, <1>2
  DEF Next, vars, uiVars, SetLevel, PollButtons, OthersPost, DisplayTask, Service, Pump, BootEnds,
      Tick, Apply, ApplyProgress, ApplyHide, ApplyInfo, ApplyAlert, ApplyMessage, ApplyButton

LEMMA SleepStaysTyped == SleepOK /\ [Next]_vars => SleepOK'
<1> SUFFICES ASSUME SleepOK, [Next]_vars PROVE SleepOK'
  OBVIOUS
<1>a. \A on, wake \in BOOLEAN, idle \in 0..SLEEP_TIMEOUT, since \in 0..(HOLD_WAKE_WINDOW + 1) :
        [on |-> on, idle |-> idle, hold_wake |-> wake, since |-> since] \in SleepState
  BY DEF SleepState
<1>b. 0 \in 0..SLEEP_TIMEOUT /\ 0 \in 0..(HOLD_WAKE_WINDOW + 1)
  OBVIOUS
<1>c. \A on \in BOOLEAN, idle \in 0..SLEEP_TIMEOUT :
        [sleep EXCEPT !.on = on, !.idle = idle] \in SleepState
  BY DEF SleepState, SleepOK
<1>1. CASE sleep' = Awake(sleep)
  BY <1>1, <1>b, <1>c DEF SleepOK, Awake
<1>2. CASE sleep' = [on |-> TRUE, idle |-> 0, hold_wake |-> TRUE, since |-> 0]
           \/ sleep' = [on |-> TRUE, idle |-> 0, hold_wake |-> FALSE, since |-> 0]
  BY <1>2, <1>a, <1>b DEF SleepOK
<1>3. ASSUME NEW b, NEW long, SleepButton(b, long) PROVE SleepOK'
  <2>1. (~TurnsOff(b, long)) \in BOOLEAN
    BY ZenonT(30)
  <2>2. QED
    BY <1>3, <1>a, <1>b, <2>1, Zenon DEF SleepOK, SleepButton
<1>4. CASE Service
  <2>1. PICK kept \in BOOLEAN, due \in BOOLEAN :
          LET idle == IF kept THEN 0 ELSE sleep.idle
              on == sleep.on /\ due
          IN sleep' = [sleep EXCEPT !.on = on, !.idle = IF on THEN idle ELSE 0]
    BY <1>4, ZenonT(30) DEF Service
  <2>2. sleep.on \in BOOLEAN /\ sleep.idle \in 0..SLEEP_TIMEOUT
    BY DEF SleepOK, SleepState
  <2>3. (sleep.on /\ due) \in BOOLEAN
    BY ZenonT(30)
  <2>4. QED
    BY <1>b, <1>c, <2>1, <2>2, <2>3, ZenonT(30) DEF SleepOK
<1>5. CASE Tick
  <2>1. PICK idle, since : sleep' = [sleep EXCEPT !.idle = idle, !.since = since]
                           /\ idle \in {0, Up(sleep.idle, SLEEP_TIMEOUT)}
                           /\ since \in {0, Up(sleep.since, HOLD_WAKE_WINDOW + 1)}
    BY <1>5, ZenonT(30) DEF Tick
  <2>2. sleep.since \in 0..(HOLD_WAKE_WINDOW + 1) /\ sleep.idle \in 0..SLEEP_TIMEOUT
    BY DEF SleepOK, SleepState
  <2>3. idle \in 0..SLEEP_TIMEOUT /\ since \in 0..(HOLD_WAKE_WINDOW + 1)
    BY <2>1, <2>2 DEF Up
  <2>4. QED
    BY <2>1, <2>3 DEF SleepOK, SleepState
<1>6. CASE UNCHANGED sleep
  BY <1>6 DEF SleepOK
<1>7. QED
  BY <1>1, <1>2, <1>3, <1>4, <1>5, <1>6
  DEF Next, vars, uiVars, SetLevel, PollButtons, OthersPost, DisplayTask, Pump, BootEnds,
      Apply, ApplyProgress, ApplyHide, ApplyInfo, ApplyAlert, ApplyMessage, ApplyButton

LEMMA FlagsStayTyped == FlagsOK /\ SleepOK /\ [Next]_vars => FlagsOK'
<1> SUFFICES ASSUME FlagsOK, SleepOK, [Next]_vars PROVE FlagsOK'
  OBVIOUS
<1>1. turn' \in {"poll", "show", "tick"}
  BY DEF FlagsOK, Next, vars, uiVars, SetLevel, PollButtons, OthersPost, DisplayTask, Apply,
         Service, Pump, BootEnds, Tick
<1>2. panel_on' \in BOOLEAN /\ booting' \in BOOLEAN
  <2>1. CASE Service
    BY <2>1, ZenonT(30) DEF Service, FlagsOK
  <2>2. CASE ~Service
    BY <2>2 DEF FlagsOK, Next, vars, SetLevel, PollButtons, OthersPost, DisplayTask, Apply,
                Pump, BootEnds, Tick
  <2>3. QED
    BY <2>1, <2>2
<1>3. dirty' \in BOOLEAN
  <2>1. CASE Service
    BY <2>1, ZenonT(30) DEF Service, FlagsOK
  <2>2. CASE Apply
    BY <2>2, ZenonT(30) DEF FlagsOK, Apply, ApplyProgress, ApplyHide, ApplyInfo, ApplyAlert,
       ApplyMessage, ApplyButton
  <2>3. CASE ~Service /\ ~Apply
    BY <2>3 DEF FlagsOK, Next, vars, SetLevel, PollButtons, OthersPost, DisplayTask,
                Pump, BootEnds, Tick
  <2>4. QED
    BY <2>1, <2>2, <2>3
<1>4. QED
  BY <1>1, <1>2, <1>3 DEF FlagsOK

\* What apply() takes from the queue.
LEMMA HeadIsUpdate ==
  ASSUME QueueOK, Apply
  PROVE  Head(queue) \in Updates /\ Head(queue) \in Queued(queue)
<1>1. queue \in Seq(Updates) /\ queue # <<>>
  BY DEF QueueOK, Apply
<1>2. Len(queue) \in Nat /\ Len(queue) >= 1 /\ Head(queue) = queue[1]
  BY <1>1
<1>3. QED
  BY <1>1, <1>2 DEF Queued

\* Each part of what the pages show, whatever update is applied.
LEMMA AppliedStaysTyped == UiOK /\ QueueOK /\ Apply => UiOK'
<1> SUFFICES ASSUME UiOK, QueueOK, Apply PROVE UiOK'
  OBVIOUS
<1> DEFINE m == Head(queue)
<1>1. m \in Updates
  BY HeadIsUpdate
<1>2. PAGE_MESSAGES \in 0..(PAGES - 1) /\ (page + 1) % PAGES \in 0..(PAGES - 1)
  BY DEF PAGE_MESSAGES, UiOK
<1>3. NoAlert \in [kind : {None, "timed", "sticky"}, left : 0..ALERT_TIME]
      /\ NoBar \in [on : BOOLEAN, age : 0..PROGRESS_STALE]
      /\ [on |-> TRUE, age |-> 0] \in [on : BOOLEAN, age : 0..PROGRESS_STALE]
  BY DEF NoAlert, NoBar
<1>4. \A k \in {"timed", "sticky"} : [kind |-> k, left |-> IF k = "timed" THEN ALERT_TIME ELSE 0]
                                     \in [kind : {None, "timed", "sticky"}, left : 0..ALERT_TIME]
  OBVIOUS
<1>5. 0 \in 0..MSG_OVERLAY /\ MSG_OVERLAY \in 0..MSG_OVERLAY
  OBVIOUS
<1>6. CASE ApplyProgress \/ ApplyHide
  BY <1>3, <1>6 DEF UiOK, ApplyProgress, ApplyHide
<1>7. CASE m.cmd = "info" /\ ApplyInfo(m.value)
  BY <1>1, <1>7, UpdateFields DEF UiOK, ApplyInfo
<1>8. CASE m.cmd = "alert" /\ ApplyAlert(m.kind)
  BY <1>1, <1>4, <1>8, UpdateFields DEF UiOK, ApplyAlert
<1>9. CASE ApplyMessage
  BY <1>5, <1>9 DEF UiOK, ApplyMessage
<1>10. CASE m.cmd = "button" /\ ApplyButton(m.btn, m.long)
  <2>1. info' = info /\ prog' = prog
    BY <1>10 DEF ApplyButton
  <2>2. alert' \in {alert, NoAlert} /\ msgov' \in {msgov, 0}
    BY <1>10 DEF ApplyButton, LandOnMessages
  <2>3. page' \in {page, PAGE_MESSAGES, (page + 1) % PAGES}
    BY <1>10 DEF ApplyButton, LandOnMessages
  <2>4. QED
    BY <1>2, <1>3, <1>5, <2>1, <2>2, <2>3 DEF UiOK
<1>11. QED
  BY <1>6, <1>7, <1>8, <1>9, <1>10 DEF Apply

LEMMA UiStaysTyped == UiOK /\ QueueOK /\ [Next]_vars => UiOK'
<1> SUFFICES ASSUME UiOK, QueueOK, [Next]_vars PROVE UiOK'
  OBVIOUS
<1>1. CASE Service
  <2>1. PAGE_MESSAGES \in 0..(PAGES - 1) /\ 0 \in 0..MSG_OVERLAY
    BY DEF PAGE_MESSAGES
  <2>2. NoAlert \in [kind : {None, "timed", "sticky"}, left : 0..ALERT_TIME]
        /\ NoBar \in [on : BOOLEAN, age : 0..PROGRESS_STALE]
    BY DEF NoAlert, NoBar
  <2>3. info' = info /\ alert' \in {alert, NoAlert} /\ prog' \in {prog, NoBar}
    BY <1>1 DEF Service
  <2>4. page' \in {page, PAGE_MESSAGES} /\ msgov' \in {msgov, 0}
    BY <1>1 DEF Service, LandOnMessages
  <2>5. QED
    BY <2>1, <2>2, <2>3, <2>4 DEF UiOK
<1>2. CASE Tick
  <2>1. PICK rest, age : /\ alert' = [alert EXCEPT !.left = rest] /\ rest = Down(alert.left)
                          /\ prog' = [prog EXCEPT !.age = age]
                          /\ age \in {0, Up(prog.age, PROGRESS_STALE)}
    BY <1>2, ZenonT(30) DEF Tick
  <2>2. alert.left \in 0..ALERT_TIME /\ prog.age \in 0..PROGRESS_STALE
    BY DEF UiOK
  <2>3. rest \in 0..ALERT_TIME /\ age \in 0..PROGRESS_STALE
    BY <2>1, <2>2 DEF Up, Down
  <2>4. info' = info /\ page' = page /\ msgov' \in 0..MSG_OVERLAY
    BY <1>2 DEF Tick, UiOK
  <2>5. QED
    BY <2>1, <2>3, <2>4 DEF UiOK
<1>3. CASE UNCHANGED <<info, page, alert, prog, msgov>>
  BY <1>3 DEF UiOK
<1>4. QED
  BY <1>1, <1>2, <1>3, AppliedStaysTyped
  DEF Next, vars, uiVars, SetLevel, PollButtons, OthersPost, DisplayTask, Pump, BootEnds

\* Types hold by induction; the queue's depth and the ring's bounds are part of them.
THEOREM PanelInvariant == Spec => []PanelTyped
<1>1. PanelTyped /\ [Next]_vars => PanelTyped'
  BY ButtonsStayTyped, QueueStaysTyped, RingStaysTyped, SleepStaysTyped, FlagsStayTyped,
     UiStaysTyped DEF PanelTyped
<1>2. QED
  BY <1>1, PanelStarts, PTL DEF Spec

\* For any delays, queue and ring: the queue never holds more than its depth (post()
\* drops what does not fit), the ring stays within its slots, and no age or countdown
\* leaves its range.
THEOREM PanelTypeCorrect == Spec => []TypeOK
<1>1. PanelTyped => TypeOK
  <2> SUFFICES ASSUME PanelTyped PROVE TypeOK
    OBVIOUS
  <2>1. \A b \in Button : Hold(b) \in Nat
    BY DEF Hold
  <2>2. \A b \in Button : /\ btn[b].since \in 0..DEBOUNCE /\ btn[b].held \in 0..Hold(b)
                          /\ \A f \in {"raw", "stable", "fired"} : btn[b][f] \in BOOLEAN
    BY <2>1 DEF PanelTyped, ButtonsOK, CoreButton
  <2>3. \A i \in 1..Len(queue) :
          queue[i].cmd \in {"progress", "hide", "alert", "message", "button", "info"}
    <3>1. \A i \in 1..Len(queue) : queue[i] \in Updates
      BY DEF PanelTyped, QueueOK
    <3>2. QED
      BY <3>1, UpdateFields
  <2>4. ring.slot \in [0..(MSG_RING_SIZE - 1) -> Nat] /\ ring.head \in 0..(MSG_RING_SIZE - 1)
        /\ ring.count \in 0..MSG_RING_SIZE /\ ring.total \in Nat
    BY DEF PanelTyped, RingOK
  <2>5. QED
    BY <2>2, <2>3, <2>4
    DEF PanelTyped, TypeOK, ButtonsOK, QueueOK, SleepOK, SleepState, FlagsOK, UiOK
<1>2. QED
  BY <1>1, PanelInvariant, PTL

-----------------------------------------------------------------------------
(* 3. The ring and the detail view.                                        *)

LEMMA Around ==
  ASSUME NEW n \in Nat \ {0}, NEW x \in Nat, x < 2 * n
  PROVE  x % n = IF x < n THEN x ELSE x - n
<1>1. CASE x < n
  BY <1>1
<1>2. CASE ~(x < n)
  <2>1. x = n + (x - n) /\ x - n \in 0..n - 1
    BY <1>2
  <2>2. QED
    BY <1>2, <2>1
<1>3. QED
  BY <1>1, <1>2

LEMMA SlotOf ==
  ASSUME NEW n \in Nat \ {0}, n = MSG_RING_SIZE, NEW r, r.head \in 0..n - 1, NEW i \in 0..n - 1
  PROVE  RingSlot(r, i) = IF r.head + n - 1 - i < n THEN r.head + n - 1 - i ELSE r.head - 1 - i
<1>1. PICK x \in Nat : x = r.head + n - 1 - i
  OBVIOUS
<1>2. x < 2 * n
  BY <1>1
<1>3. x % n = IF x < n THEN x ELSE x - n
  BY <1>2, Around
<1>4. RingSlot(r, i) = x % n
  BY <1>1 DEF RingSlot
<1>5. x - n = r.head - 1 - i
  BY <1>1
<1>6. QED
  BY <1>1, <1>3, <1>4, <1>5

\* The k-th newest of the messages that the ring still has is where ring_slot looks.
Newest(r) == \A i \in 0..r.count - 1 : r.slot[RingSlot(r, i)] = r.total - i

SelectionOK ==
  msg_sel \in Nat /\ msg_sel <= ring.count /\ (msg_sel > 0 => page = PAGE_MESSAGES)

DetailInv == RingOK /\ Newest(ring) /\ SelectionOK

\* One message more moves every other one step back.
LEMMA PushKeepsNewest ==
  ASSUME RingOK, Newest(ring)
  PROVE  Newest(RingPush(ring))
<1>1. PICK n \in Nat \ {0} : n = MSG_RING_SIZE
  OBVIOUS
<1>2. PICK new : new = RingPush(ring)
  OBVIOUS
<1>3. /\ ring.head \in 0..n - 1 /\ ring.count \in 0..n /\ ring.total \in Nat
      /\ ring.slot \in [0..n - 1 -> Nat]
  BY <1>1 DEF RingOK
<1>4. /\ new.head = (ring.head + 1) % n /\ new.count = Up(ring.count, n)
      /\ new.total = ring.total + 1 /\ new.slot = [ring.slot EXCEPT ![ring.head] = ring.total + 1]
  BY <1>1, <1>2 DEF RingPush
<1>5. new.head = IF ring.head + 1 < n THEN ring.head + 1 ELSE 0
  <2>1. PICK x \in Nat : x = ring.head + 1
    BY <1>3
  <2>2. x < 2 * n /\ x <= n
    BY <1>3, <2>1
  <2>3. x % n = IF x < n THEN x ELSE x - n
    BY <2>2, Around
  <2>4. new.head = x % n
    BY <1>4, <2>1
  <2>5. CASE x < n
    BY <2>1, <2>3, <2>4, <2>5
  <2>6. CASE ~(x < n)
    <3>1. x - n = 0
      BY <1>3, <2>2, <2>6
    <3>2. new.head = 0
      BY <2>3, <2>4, <2>6, <3>1
    <3>3. QED
      BY <2>1, <2>6, <3>2
  <2>7. QED
    BY <2>5, <2>6
<1>6. new.count \in 0..n /\ new.count <= ring.count + 1
  <2>1. PICK c \in 0..n : c = ring.count
    BY <1>3
  <2>2. new.count = IF c < n THEN c + 1 ELSE n
    BY <1>4, <2>1 DEF Up
  <2>3. QED
    BY <2>1, <2>2
<1>7. SUFFICES ASSUME NEW i \in 0..new.count - 1
               PROVE  new.slot[RingSlot(new, i)] = new.total - i
  BY <1>2 DEF Newest
<1>8. i \in 0..n - 1 /\ (i > 0 => i - 1 \in 0..ring.count - 1) /\ new.head \in 0..n - 1
  <2>1. new.head \in 0..n - 1
    BY <1>3, <1>5
  <2>2. \A c \in 0..n, d \in 0..n : (d <= c + 1 /\ i \in 0..d - 1)
          => i \in 0..n - 1 /\ (i > 0 => i - 1 \in 0..c - 1)
    OBVIOUS
  <2>3. QED
    BY <1>3, <1>6, <2>1, <2>2
<1>9. RingSlot(new, i) = IF new.head + n - 1 - i < n THEN new.head + n - 1 - i ELSE new.head - 1 - i
  BY <1>1, <1>8, SlotOf
<1>10. CASE i = 0
  <2>1. RingSlot(new, i) = ring.head
    BY <1>3, <1>5, <1>9, <1>10
  <2>2. QED
    BY <1>3, <1>4, <1>10, <2>1
<1>11. CASE i > 0
  <2>1. RingSlot(ring, i - 1)
          = IF ring.head + n - 1 - (i - 1) < n THEN ring.head + n - 1 - (i - 1)
            ELSE ring.head - 1 - (i - 1)
    <3>1. i - 1 \in 0..n - 1
      BY <1>8, <1>11
    <3>2. QED
      BY <1>1, <1>3, <3>1, SlotOf
  <2>2. RingSlot(new, i) = RingSlot(ring, i - 1) /\ RingSlot(new, i) # ring.head
        /\ RingSlot(new, i) \in 0..n - 1
    <3>1. PICK h \in 0..n - 1, g \in 0..n - 1 : h = ring.head /\ g = new.head
      BY <1>3, <1>8
    <3>2. g = IF h + 1 < n THEN h + 1 ELSE 0
      BY <1>5, <3>1
    <3>3. PICK x, y : x = RingSlot(new, i) /\ y = RingSlot(ring, i - 1)
      OBVIOUS
    <3>4. x = IF g + n - 1 - i < n THEN g + n - 1 - i ELSE g - 1 - i
      BY <1>9, <3>1, <3>3
    <3>5. y = IF h + n - 1 - (i - 1) < n THEN h + n - 1 - (i - 1) ELSE h - 1 - (i - 1)
      BY <2>1, <3>1, <3>3
    <3>6. i \in 1..n - 1
      BY <1>8, <1>11
    <3>7. x = y /\ x # h /\ x \in 0..n - 1
      BY <3>2, <3>4, <3>5, <3>6
    <3>8. QED
      BY <3>1, <3>3, <3>7
  <2>3. ring.slot[RingSlot(ring, i - 1)] = ring.total - (i - 1)
    BY <1>8, <1>11 DEF Newest
  <2>4. new.slot[RingSlot(new, i)] = ring.slot[RingSlot(ring, i - 1)]
    BY <1>3, <1>4, <2>2
  <2>5. ring.total - (i - 1) = (ring.total + 1) - i /\ new.total = ring.total + 1
    <3>1. i \in 0..n - 1
      BY <1>8
    <3>2. \A t, j \in Nat : t - (j - 1) = (t + 1) - j
      OBVIOUS
    <3>3. ring.total \in Nat /\ i \in Nat
      BY <1>3, <3>1
    <3>4. QED
      BY <1>4, <3>2, <3>3
  <2>6. QED
    BY <2>4, <2>3, <2>5
<1>12. QED
  BY <1>8, <1>10, <1>11

LEMMA DetailStarts == Init => DetailInv
<1>1. Init => RingOK
  BY PanelStarts DEF PanelTyped
<1>2. Init => Newest(ring) /\ SelectionOK
  BY DEF Init, Newest, SelectionOK
<1>3. QED
  BY <1>1, <1>2 DEF DetailInv

LEMMA DetailStep == DetailInv /\ [Next]_vars => DetailInv'
<1> SUFFICES ASSUME DetailInv, [Next]_vars PROVE DetailInv'
  OBVIOUS
<1>1. RingOK /\ Newest(ring) /\ SelectionOK /\ RingOK' /\ ring.count \in Nat
  BY RingStaysTyped DEF DetailInv, RingOK
<1>2. CASE ApplyMessage
  <2>1. Newest(ring') /\ ring'.count = Up(ring.count, MSG_RING_SIZE)
    <3>1. ring' = RingPush(ring)
      BY <1>2 DEF ApplyMessage
    <3>2. Newest(RingPush(ring))
      BY <1>1, PushKeepsNewest
    <3>3. RingPush(ring).count = Up(ring.count, MSG_RING_SIZE)
      BY DEF RingPush
    <3>4. QED
      BY <3>1, <3>2, <3>3
  <2>2. ring'.count >= 1
    BY <1>1, <2>1 DEF Up
  <2>3. SelectionOK'
    BY <1>1, <1>2, <2>2 DEF ApplyMessage, SelectionOK, RingOK
  <2>4. QED
    BY <1>1, <2>1, <2>3 DEF DetailInv
<1>3. CASE UNCHANGED ring /\ LandOnMessages
  BY <1>1, <1>3 DEF LandOnMessages, DetailInv, SelectionOK
<1>4. CASE UNCHANGED <<ring, page, msg_sel>>
  BY <1>1, <1>4 DEF DetailInv, SelectionOK
<1>5. ASSUME NEW b, NEW long, ApplyButton(b, long) PROVE DetailInv'
  <2>1. ring' = ring
    BY <1>5 DEF ApplyButton
  <2>2. \/ LandOnMessages \/ UNCHANGED <<page, msg_sel>> \/ msg_sel' = 0
        \/ page' = page /\ page = PAGE_MESSAGES /\ msg_sel' = MsgSelectNext
    BY <1>5 DEF ApplyButton
  <2>3. MsgSelectNext \in Nat /\ MsgSelectNext <= ring.count
    BY <1>1 DEF MsgSelectNext, SelectionOK
  <2>4. QED
    BY <1>1, <1>3, <1>4, <2>1, <2>2, <2>3 DEF DetailInv, SelectionOK
<1>6. QED
  BY <1>2, <1>3, <1>4, <1>5
  DEF Next, vars, uiVars, SetLevel, PollButtons, OthersPost, DisplayTask, Service, Pump, BootEnds,
      Tick, Apply, ApplyProgress, ApplyHide, ApplyInfo, ApplyAlert

\* For a ring of any size: whatever order messages, presses, page changes and the
\* overlay's end come in, the detail view is one of the messages page and shows the
\* message the user stepped to (ring_push, ring_slot, msg_select_next).
THEOREM DetailIsRight == Spec => []DetailShowsTheKthNewest
<1>1. DetailInv /\ [Next]_vars => DetailInv'
  BY DetailStep
<1>2. DetailInv => DetailShowsTheKthNewest
  <2> SUFFICES ASSUME DetailInv, msg_sel > 0 PROVE DetailShowsTheKthNewest
    BY DEF DetailShowsTheKthNewest
  <2>1. msg_sel \in Nat /\ msg_sel <= ring.count /\ page = PAGE_MESSAGES /\ ring.count \in Nat
    BY DEF DetailInv, SelectionOK, RingOK
  <2>2. msg_sel - 1 \in 0..ring.count - 1
    BY <2>1
  <2>3. ring.slot[RingSlot(ring, msg_sel - 1)] = ring.total - (msg_sel - 1)
    BY <2>2 DEF DetailInv, Newest
  <2>4. QED
    BY <2>1, <2>3 DEF DetailShowsTheKthNewest
<1>3. QED
  BY <1>1, <1>2, DetailStarts, PTL DEF Spec

-----------------------------------------------------------------------------
(* 4. The panel shows what the state says.                                 *)

LEMMA ShownStep ==
  ASSUME PanelTyped, ShownIsCurrent, [Next]_vars
  PROVE  ShownIsCurrent'
<1> SUFFICES ASSUME booting' = FALSE, panel_on' = TRUE, dirty' = FALSE PROVE shown' = View'
  <2>1. booting' \in BOOLEAN /\ panel_on' \in BOOLEAN /\ dirty' \in BOOLEAN
    BY FlagsStayTyped DEF PanelTyped, FlagsOK
  <2>2. QED
    BY <2>1 DEF ShownIsCurrent
<1>1. msgov \in Nat
  BY DEF PanelTyped, UiOK
<1>2. CASE Apply
  <2>1. UNCHANGED <<booting, panel_on, shown>>
    BY <1>2 DEF Apply
  <2>2. \/ ApplyHide \/ \E v : ApplyInfo(v)
    BY <1>2 DEF Apply, ApplyProgress, ApplyAlert, ApplyMessage, ApplyButton
  <2>3. CASE ApplyHide
    <3>1. ~dirty /\ ~prog.on /\ UNCHANGED <<info, ring, page, msg_sel, alert, msgov>>
          /\ prog' = NoBar
      BY <2>3, ZenonT(30) DEF ApplyHide
    <3>2. View' = View
      BY <3>1 DEF View, NoBar
    <3>3. QED
      BY <2>1, <3>1, <3>2 DEF ShownIsCurrent
  <2>4. ASSUME NEW v, ApplyInfo(v) PROVE shown' = View'
    <3>1. ~dirty /\ v = info /\ info' = v
          /\ UNCHANGED <<ring, page, msg_sel, alert, prog, msgov>>
      BY <2>4, ZenonT(30) DEF ApplyInfo
    <3>2. View' = View
      BY <3>1 DEF View
    <3>3. QED
      BY <2>1, <3>1, <3>2 DEF ShownIsCurrent
  <2>5. QED
    BY <2>2, <2>3, <2>4
<1>3. CASE Service
  <2>1. CASE shown' = View'
    BY <2>1
  <2>2. CASE shown' # View'
    <3>1. /\ ~dirty /\ ~Expired(alert) /\ ~Stale /\ msgov # 1 /\ panel_on
          /\ shown' = shown /\ UNCHANGED <<booting, info, ring>>
      BY <1>3, <2>2, ZenonT(30) DEF Service
    <3>2. UNCHANGED <<alert, prog, msgov, page, msg_sel>>
      BY <1>3, <3>1 DEF Service
    <3>3. View' = View
      BY <3>1, <3>2 DEF View
    <3>4. QED
      BY <3>1, <3>3 DEF ShownIsCurrent
  <2>3. QED
    BY <2>1, <2>2
<1>4. CASE Tick
  <2>1. /\ alert'.kind = alert.kind /\ prog'.on = prog.on
    BY <1>4 DEF Tick, PanelTyped, UiOK
  <2>2. (msgov' > 0) <=> (msgov > 0)
    BY <1>1, <1>4 DEF Tick
  <2>3. UNCHANGED <<info, ring, page, msg_sel, panel_on, dirty, shown, booting>>
    BY <1>4 DEF Tick
  <2>4. View' = View
    BY <2>1, <2>2, <2>3 DEF View
  <2>5. QED
    BY <2>3, <2>4 DEF ShownIsCurrent
<1>5. CASE UNCHANGED <<uiVars, panel_on, dirty, shown, booting>>
  BY <1>5 DEF View, uiVars, ShownIsCurrent
<1>6. ~BootEnds
  BY DEF BootEnds
<1>7. QED
  BY <1>2, <1>3, <1>4, <1>5, <1>6 DEF Next, vars, SetLevel, PollButtons, OthersPost, DisplayTask, Pump

\* For any delays and queue: every update, expired timer and wake is redrawn (the dirty
\* flag of apply() and service()), so a lit panel with nothing left to draw is current.
THEOREM PanelIsCurrent == Spec => []ShownIsCurrent
<1>1. Init => ShownIsCurrent
  BY DEF Init, ShownIsCurrent
<1>2. PanelTyped /\ ShownIsCurrent /\ [Next]_vars => ShownIsCurrent'
  BY ShownStep
<1>3. QED
  BY <1>1, <1>2, PanelInvariant, PTL DEF Spec

-----------------------------------------------------------------------------
(* 5. The hold of BTN1.                                                    *)

LongDown == SOS_HOLD + 2 * DEBOUNCE + 1

\* How long the button has been down bounds what the code has counted: a press takes
\* the debounce time to be seen, and only then does the hold begin.  An SOS is sent at
\* most once before fired is taken back.
HoldCounted(c, p) ==
  /\ p.down \in 0..LongDown
  /\ c.raw = TRUE => p.down >= c.since + 1
  /\ c.stable = TRUE => p.down >= c.held + DEBOUNCE + 1
  /\ p.sos = TRUE => c.stable = TRUE /\ c.fired = TRUE

PressOK == press \in [down : Nat, sos : BOOLEAN, woke : BOOLEAN]

HoldInv == ButtonsOK /\ PressOK /\ HoldCounted(btn[1], press)

\* What one sample does to a button c that holds for h, written out: d is c after it.
SampleFacts(c, pressed, h, d) ==
  /\ d.raw = pressed
  /\ d.since = IF pressed # c.raw THEN 0 ELSE Up(c.since, DEBOUNCE)
  /\ (d.stable = TRUE /\ c.stable = TRUE)
       => d.held = Up(c.held, h) /\ (pressed = TRUE \/ d.since < DEBOUNCE)
  /\ (d.stable = TRUE /\ c.stable = FALSE)
       => pressed = TRUE /\ d.since >= DEBOUNCE /\ d.held = 0 /\ d.ev = "Pressed"
  /\ (d.stable = FALSE /\ c.stable = TRUE) => pressed = FALSE /\ d.since >= DEBOUNCE
  /\ d.ev = "HoldFired"
       => /\ c.stable = TRUE /\ c.fired = FALSE /\ c.held + 1 >= h
          /\ d.stable = TRUE /\ d.fired = TRUE
  /\ (c.fired = TRUE /\ d.stable = c.stable) => d.fired = TRUE
  /\ d.ev \in {"Pressed", "Progress"} => d.stable = TRUE /\ d.fired = FALSE
  /\ d.ev = "ShortRelease" => c.stable = TRUE /\ c.fired = FALSE /\ d.stable = FALSE
  /\ (c.stable = TRUE /\ c.fired = FALSE /\ d.stable = TRUE /\ d.ev # "HoldFired")
       => d.fired = FALSE /\ c.held + 1 < h

LEMMA Sampled ==
  ASSUME NEW c \in CoreButton, NEW pressed \in BOOLEAN, NEW h \in Nat \ {0}
  PROVE  SampleFacts(c, pressed, h, Update(c, pressed, h))
<1> DEFINE since == IF pressed # c.raw THEN 0 ELSE Up(c.since, DEBOUNCE)
           flips == pressed # c.stable /\ since >= DEBOUNCE
           fires == c.stable /\ ~c.fired /\ c.held + 1 >= h
           d == Update(c, pressed, h)
<1>1. /\ c.raw \in BOOLEAN /\ c.stable \in BOOLEAN /\ c.fired \in BOOLEAN
      /\ c.since \in Nat /\ c.held \in Nat
  BY DEF CoreButton
<1>2. /\ d.raw = pressed /\ d.since = since /\ d.stable = (c.stable # flips)
      /\ d.held = HeldNext(c, flips, h) /\ d.fired = (~flips /\ (c.fired \/ fires))
      /\ d.ev = IF flips /\ pressed THEN "Pressed"
                ELSE IF flips THEN (IF c.fired THEN "LongRelease" ELSE "ShortRelease")
                ELSE IF fires THEN "HoldFired"
                ELSE IF c.stable /\ ~c.fired THEN "Progress" ELSE None
  BY DEF Update
<1>3. since \in Nat
  BY <1>1 DEF Up
<1>4. CASE flips
  BY <1>1, <1>2, <1>3, <1>4 DEF SampleFacts, HeldNext, None
<1>5. CASE ~flips
  BY <1>1, <1>2, <1>3, <1>5 DEF SampleFacts, HeldNext, None
<1>6. QED
  BY <1>4, <1>5

\* One poll keeps what the counts say, and an SOS is sent only after the whole hold
\* and when this hold has not sent one.
LEMMA PollCounts ==
  ASSUME HoldInv, PollButtons
  PROVE  /\ PressOK' /\ HoldCounted(btn[1], press)'
         /\ btn'[1].ev = "HoldFired" => press'.down > SOS_HOLD + DEBOUNCE /\ ~press.sos
<1>1. PICK c \in CoreButton, p \in BOOLEAN : c = btn[1] /\ p = level[1]
  BY DEF HoldInv, ButtonsOK, Button
<1>2. PICK d : d = Update(c, p, SOS_HOLD)
  OBVIOUS
<1>3. btn'[1] = d /\ press' = Watch(c, p)
  BY <1>1, <1>2 DEF PollButtons, Button, Hold
<1>0. SampleFacts(c, p, SOS_HOLD, d)
  <2>1. SOS_HOLD \in Nat \ {0}
    OBVIOUS
  <2>2. QED
    BY <1>2, <2>1, Sampled
<1>4. PICK w, k :
        /\ k = press.down /\ k \in Nat /\ k <= LongDown
        /\ w = IF p \/ d.since < DEBOUNCE THEN Up(k, LongDown) ELSE 0
        /\ press' = [press EXCEPT !.down = w,
                                  !.sos = w > 0 /\ (press.sos \/ d.ev = "HoldFired"),
                                  !.woke = IF d.ev \in {"Pressed", "HoldFired"} THEN FALSE ELSE @]
  <2>1. press.down \in Nat /\ press.down <= LongDown
    BY DEF HoldInv, PressOK, HoldCounted, LongDown
  <2>2. PICK w : w = IF p \/ d.since < DEBOUNCE THEN Up(press.down, LongDown) ELSE 0
    OBVIOUS
  <2>3. press' = [press EXCEPT !.down = w,
                               !.sos = w > 0 /\ (press.sos \/ d.ev = "HoldFired"),
                               !.woke = IF d.ev \in {"Pressed", "HoldFired"} THEN FALSE ELSE @]
    BY <1>2, <1>3, <2>2, Zenon DEF Watch, LongDown
  <2>4. QED
    BY <2>1, <2>2, <2>3
<1>5. press \in [down : Nat, sos : BOOLEAN, woke : BOOLEAN]
  BY DEF HoldInv, PressOK
<1>6. /\ press'.down = w
      /\ press'.sos = (w > 0 /\ (press.sos \/ d.ev = "HoldFired"))
      /\ press'.woke = IF d.ev \in {"Pressed", "HoldFired"} THEN FALSE ELSE press.woke
  BY <1>4, <1>5
<1>7. /\ c.since \in 0..DEBOUNCE /\ c.held \in Nat /\ c.held <= SOS_HOLD
      /\ c.raw \in BOOLEAN /\ c.stable \in BOOLEAN /\ c.fired \in BOOLEAN
  BY <1>1 DEF CoreButton, HoldInv, ButtonsOK, Button, Hold
<1>8. /\ c.raw = TRUE => k >= c.since + 1
      /\ c.stable = TRUE => k >= c.held + DEBOUNCE + 1
      /\ press.sos = TRUE => c.stable = TRUE /\ c.fired = TRUE
  BY <1>1, <1>4 DEF HoldInv, HoldCounted
<1>9. d \in CoreButton
  BY <1>2, <1>7, SampleTyped
<1>10. w \in 0..LongDown /\ LongDown = SOS_HOLD + 2 * DEBOUNCE + 1
  BY <1>4 DEF Up, LongDown
<1>11. d.raw = TRUE => w >= d.since + 1
  <2>1. d.raw = p /\ d.since = IF p # c.raw THEN 0 ELSE Up(c.since, DEBOUNCE)
    BY <1>0 DEF SampleFacts
  <2>2. CASE p = TRUE /\ c.raw = TRUE
    <3>1. w = Up(k, LongDown) /\ d.since = Up(c.since, DEBOUNCE)
      BY <1>4, <2>1, <2>2
    <3>2. QED
      BY <1>4, <1>7, <1>8, <1>10, <2>2, <3>1 DEF Up
  <2>3. CASE p = TRUE /\ c.raw = FALSE
    <3>1. w = Up(k, LongDown) /\ d.since = 0
      BY <1>4, <2>1, <2>3
    <3>2. QED
      BY <1>4, <1>10, <3>1 DEF Up
  <2>4. QED
    BY <1>7, <2>1, <2>2, <2>3
<1>12. d.stable = TRUE => w >= d.held + DEBOUNCE + 1
  <2>1. CASE d.stable = TRUE /\ c.stable = TRUE
    <3>1. d.held = Up(c.held, SOS_HOLD) /\ (p = TRUE \/ d.since < DEBOUNCE)
      BY <1>0, <2>1 DEF SampleFacts
    <3>2. w = Up(k, LongDown)
      BY <1>4, <3>1
    <3>3. QED
      BY <1>4, <1>7, <1>8, <1>10, <2>1, <3>1, <3>2 DEF Up
  <2>2. CASE d.stable = TRUE /\ c.stable = FALSE
    <3>1. p = TRUE /\ d.since >= DEBOUNCE /\ d.held = 0 /\ d.raw = TRUE
      BY <1>0, <2>2 DEF SampleFacts
    <3>2. d.since \in Nat
      BY <1>9 DEF CoreButton
    <3>3. QED
      BY <1>10, <1>11, <3>1, <3>2
  <2>3. QED
    BY <1>7, <2>1, <2>2
<1>13. d.ev = "HoldFired" => /\ c.stable = TRUE /\ c.fired = FALSE /\ c.held + 1 >= SOS_HOLD
                             /\ d.stable = TRUE /\ d.fired = TRUE
  BY <1>0 DEF SampleFacts
<1>14. press'.sos = TRUE => d.stable = TRUE /\ d.fired = TRUE
  <2>1. CASE d.ev = "HoldFired"
    BY <1>13, <2>1
  <2>2. CASE press'.sos = TRUE /\ d.ev # "HoldFired"
    <3>1. w > 0 /\ press.sos = TRUE
      BY <1>5, <1>6, <2>2
    <3>2. c.stable = TRUE /\ c.fired = TRUE
      BY <1>8, <3>1
    <3>3. d.stable = TRUE
      <4>1. d.stable = FALSE => p = FALSE /\ d.since >= DEBOUNCE
        BY <1>0, <3>2 DEF SampleFacts
      <4>2. d.since \in Nat
        BY <1>9 DEF CoreButton
      <4>3. d.stable = FALSE => w = 0
        BY <1>4, <4>1, <4>2
      <4>4. QED
        BY <1>9, <1>10, <3>1, <4>3 DEF CoreButton
    <3>4. QED
      BY <1>0, <3>2, <3>3 DEF SampleFacts
  <2>3. QED
    BY <2>1, <2>2
<1>15. ASSUME d.ev = "HoldFired" PROVE w > SOS_HOLD + DEBOUNCE /\ ~press.sos
  <2>1. c.stable = TRUE /\ c.fired = FALSE /\ c.held + 1 >= SOS_HOLD /\ d.stable = TRUE
    BY <1>13, <1>15
  <2>2. p = TRUE \/ d.since < DEBOUNCE
    BY <1>0, <2>1 DEF SampleFacts
  <2>3. w = Up(k, LongDown)
    BY <1>4, <2>2
  <2>4. w > SOS_HOLD + DEBOUNCE
    BY <1>4, <1>7, <1>8, <1>10, <2>1, <2>3 DEF Up
  <2>5. press.sos # TRUE
    BY <1>8, <2>1
  <2>6. QED
    BY <1>5, <2>4, <2>5
<1>16. PressOK'
  <2>1. press'.sos \in BOOLEAN /\ press'.woke \in BOOLEAN
    BY <1>5, <1>6, ZenonT(30)
  <2>2. DOMAIN press' = {"down", "sos", "woke"} /\ press' = [down |-> w, sos |-> press'.sos, woke |-> press'.woke]
    BY <1>4, <1>5
  <2>3. QED
    BY <1>10, <2>1, <2>2 DEF PressOK
<1>17. HoldCounted(btn[1], press)'
  BY <1>3, <1>6, <1>10, <1>11, <1>12, <1>14 DEF HoldCounted
<1>18. QED
  BY <1>3, <1>6, <1>15, <1>16, <1>17

\* Between polls the count of the samples stands; only the display changes woke.
LEMMA HoldStep == HoldInv /\ [Next]_vars => HoldInv'
<1> SUFFICES ASSUME HoldInv, [Next]_vars PROVE HoldInv'
  OBVIOUS
<1>1. ButtonsOK'
  BY ButtonsStayTyped DEF HoldInv
<1>2. CASE PollButtons
  BY <1>1, <1>2, PollCounts DEF HoldInv
<1>3. CASE btn' = btn /\ \E wakes \in BOOLEAN : press' = [press EXCEPT !.woke = wakes]
  BY <1>1, <1>3 DEF HoldInv, PressOK, HoldCounted
<1>4. CASE btn' = btn /\ press' = press
  BY <1>1, <1>4 DEF HoldInv, PressOK, HoldCounted
<1>5. CASE Apply
  <2>1. btn' = btn
    BY <1>5 DEF Apply, buttonVars
  <2>2. press' = press \/ \E wakes \in BOOLEAN : press' = [press EXCEPT !.woke = wakes]
    <3>1. CASE ApplyProgress
      <4>1. (press.woke \/ (~sleep.on /\ ~booting)) \in BOOLEAN
        BY ZenonT(30)
      <4>2. press' = [press EXCEPT !.woke = press.woke \/ (~sleep.on /\ ~booting)]
        BY <3>1 DEF ApplyProgress
      <4>3. QED
        BY <4>1, <4>2, ZenonT(30)
    <3>2. CASE ~ApplyProgress
      BY <1>5, <3>2 DEF Apply, ApplyHide, ApplyInfo, ApplyAlert, ApplyMessage, ApplyButton
    <3>3. QED
      BY <3>1, <3>2
  <2>3. QED
    BY <1>3, <1>4, <2>1, <2>2
<1>6. ASSUME NEW b \in Button, SetLevel(b) PROVE btn' = btn /\ press' = press
  BY <1>6 DEF SetLevel
<1>7. QED
  BY <1>2, <1>4, <1>5, <1>6
  DEF Next, vars, buttonVars, OthersPost, DisplayTask, Service, Pump, BootEnds, Tick

LEMMA HoldStarts == Init => HoldInv
<1>1. Init => ButtonsOK
  BY PanelStarts DEF PanelTyped
<1>2. Init => PressOK
  BY DEF Init, PressOK
<1>3. Init => HoldCounted(btn[1], press)
  BY DEF Init, HoldCounted, Released, Button, LongDown
<1>4. QED
  BY <1>1, <1>2, <1>3 DEF HoldInv

\* What CoreButton keeps of BTN1 never says more than the time it has really been down.
THEOREM HoldInvariant == Spec => []HoldInv
<1>1. QED
  BY HoldStarts, HoldStep, PTL DEF Spec

\* For any debounce time and any hold: CoreButton::update reports HoldFired only when
\* BTN1 has been down for the whole hold, releases too short to count included, and
\* once a hold: no bounce makes one SOS two.
THEOREM OneSosAHold == Spec => SosIsHeldAndOnce
<1>1. HoldInv /\ [Next]_vars
        => [(PollButtons /\ btn'[1].ev = "HoldFired")
              => press'.down > SOS_HOLD + DEBOUNCE /\ ~press.sos]_vars
  BY PollCounts
<1>2. QED
  BY <1>1, HoldInvariant, PTL DEF Spec, SosIsHeldAndOnce

-----------------------------------------------------------------------------
(* The press that woke the screen.                                         *)
(*                                                                         *)
(* The queue is empty when a tick ends, so BTN1's updates in it are those  *)
(* of the last poll: a bar and a press never stand in it together.  From   *)
(* the bar that wakes the screen to the release, the time since the wake   *)
(* and the time held grow together, and a hold that long fires instead.    *)

Bar == Progress \in Queued(queue)
LetGo == Press(1, FALSE) \in Queued(queue)

QueueInv ==
  /\ turn = "tick" => queue = <<>>
  /\ (Bar \/ LetGo) => turn = "show"
  /\ Bar => btn[1].ev \in {"Pressed", "Progress"}
  /\ LetGo => btn[1].ev = "ShortRelease"

EventsInv ==
  /\ btn[1].ev \in {"Pressed", "Progress"} => btn[1].stable = TRUE /\ btn[1].fired = FALSE
  /\ btn[1].ev = "ShortRelease" => btn[1].stable = FALSE

WokeInv ==
  press.woke = TRUE =>
    /\ sleep.hold_wake = TRUE /\ booting = FALSE
    /\ btn[1].stable = TRUE =>
         /\ btn[1].fired = FALSE
         /\ sleep.since <= btn[1].held + (IF turn = "poll" THEN 1 ELSE 0)
    /\ (turn = "show" /\ btn[1].ev = "ShortRelease") => sleep.since <= HOLD_WAKE_WINDOW

WakeInv == PanelTyped /\ HoldInv /\ QueueInv /\ EventsInv /\ WokeInv

LEMMA TailKeeps ==
  ASSUME NEW q \in Seq(Updates), q # <<>>
  PROVE  Queued(Tail(q)) \subseteq Queued(q)
<1>1. Len(Tail(q)) = Len(q) - 1 /\ Len(q) \in Nat /\ \A i \in 1..Len(q) - 1 : Tail(q)[i] = q[i + 1]
  OBVIOUS
<1>2. QED
  BY <1>1 DEF Queued

LEMMA EventsStep ==
  ASSUME PanelTyped, EventsInv, [Next]_vars
  PROVE  EventsInv'
<1>1. CASE PollButtons
  <2>1. btn'[1] = Update(btn[1], level[1], SOS_HOLD)
    BY <1>1 DEF PollButtons, Button, Hold
  <2>2. btn[1] \in CoreButton /\ level[1] \in BOOLEAN /\ SOS_HOLD \in Nat \ {0}
    BY DEF PanelTyped, ButtonsOK, Button
  <2>3. SampleFacts(btn[1], level[1], SOS_HOLD, btn'[1])
    BY <2>1, <2>2, Sampled
  <2>4. QED
    BY <2>3 DEF SampleFacts, EventsInv
<1>2. CASE btn' = btn
  BY <1>2 DEF EventsInv
<1>3. QED
  BY <1>1, <1>2 DEF Next, vars, buttonVars, SetLevel, OthersPost, DisplayTask, Apply, Service, Pump,
                    BootEnds, Tick

LEMMA QueueStep ==
  ASSUME PanelTyped, PanelTyped', QueueInv, [Next]_vars
  PROVE  QueueInv'
<1>1. QueueOK /\ queue \in Seq(Updates) /\ Len(queue) <= QUEUE_DEPTH
  BY DEF PanelTyped, QueueOK
<1>2. Queued(<<>>) = {}
  BY QueuedOf
<1>3. CASE PollButtons
  <2>1. ~Bar /\ ~LetGo /\ turn' = "show"
    BY <1>3 DEF QueueInv, PollButtons
  <2>2. PICK shows \in Throttle(btn'[1].ev) :
          queue' = PostAll(queue, shows \o Posts2(btn'[2].ev))
    BY <1>3 DEF PollButtons, Button
  <2>3. btn'[1].ev \in Event /\ btn'[2].ev \in Event
    BY DEF PanelTyped, ButtonsOK, CoreButton, Button
  <2>4. PICK ms : ms = shows \o Posts2(btn'[2].ev)
    OBVIOUS
  <2>5. /\ ms \in Seq(Updates)
        /\ Progress \in Queued(ms) => btn'[1].ev \in {"Pressed", "Progress"}
        /\ Press(1, FALSE) \in Queued(ms) => btn'[1].ev = "ShortRelease"
    BY <2>2, <2>3, <2>4, PollPosts
  <2>6. Queued(queue') \subseteq Queued(queue) \cup Queued(ms)
    <3>1. queue' = PostAll(queue, ms)
      BY <2>2, <2>4
    <3>2. Queued(PostAll(queue, ms)) \subseteq Queued(queue) \cup Queued(ms)
      BY <1>1, <2>5, PostAllKeeps
    <3>3. QED
      BY <3>1, <3>2
  <2>7. /\ Bar' => Progress \in Queued(ms)
        /\ LetGo' => Press(1, FALSE) \in Queued(ms)
    BY <2>1, <2>6 DEF Bar, LetGo
  <2>8. QED
    BY <2>1, <2>5, <2>7 DEF QueueInv
<1>4. CASE OthersPost
  <2>1. PICK m \in Notes \cup {Message} : queue' = Post(queue, m)
    BY <1>4 DEF OthersPost, Notes
  <2>2. m \in Updates /\ m # Progress /\ m # Press(1, FALSE)
    BY <2>1 DEF Updates, Notes, Progress, Press, Alert, Info, Message
  <2>3. Queued(queue') \subseteq Queued(queue) \cup {m}
    BY <1>1, <2>1, <2>2, PostKeeps
  <2>4. (Bar' => Bar) /\ (LetGo' => LetGo) /\ turn' = turn /\ turn # "tick" /\ btn' = btn
    BY <1>4, <2>2, <2>3 DEF Bar, LetGo, OthersPost, buttonVars
  <2>5. QED
    BY <2>4 DEF QueueInv
<1>5. CASE Apply
  <2>1. Queued(queue') \subseteq Queued(queue) /\ turn' = turn /\ btn' = btn /\ turn = "show"
    BY <1>1, <1>5, TailKeeps DEF Apply, buttonVars
  <2>2. QED
    BY <2>1 DEF QueueInv, Bar, LetGo
<1>6. CASE queue' = <<>> /\ btn' = btn
  BY <1>2, <1>6 DEF QueueInv, Bar, LetGo
<1>7. CASE UNCHANGED <<queue, btn, turn>>
  BY <1>7 DEF QueueInv, Bar, LetGo
<1>8. CASE Tick
  BY <1>6, <1>8 DEF Tick, QueueInv, buttonVars
<1>9. QED
  BY <1>3, <1>4, <1>5, <1>6, <1>7, <1>8
  DEF Next, vars, buttonVars, SetLevel, DisplayTask, Service, Pump, BootEnds

\* One poll on the way from the wake to the release.
LEMMA WokePoll ==
  ASSUME WakeInv, HoldInv', PollButtons
  PROVE  WokeInv'
<1> SUFFICES ASSUME press'.woke = TRUE PROVE WokeInv'
  BY DEF WokeInv
<1>1. PICK c \in CoreButton, p \in BOOLEAN : c = btn[1] /\ p = level[1]
  BY DEF WakeInv, PanelTyped, ButtonsOK, Button
<1>2. PICK d : d = Update(c, p, SOS_HOLD)
  OBVIOUS
<1>3. btn'[1] = d /\ press' = Watch(c, p) /\ turn = "poll" /\ turn' = "show"
      /\ sleep' = sleep /\ booting' = booting
  BY <1>1, <1>2 DEF PollButtons, Button, Hold, uiVars
<1>4. press'.woke = IF d.ev \in {"Pressed", "HoldFired"} THEN FALSE ELSE press.woke
  BY <1>2, <1>3 DEF Watch, WakeInv, HoldInv, PressOK
<1>5. press.woke = TRUE /\ d.ev # "Pressed" /\ d.ev # "HoldFired"
  BY <1>4
<1>6. SampleFacts(c, p, SOS_HOLD, d)
  <2>1. SOS_HOLD \in Nat \ {0}
    OBVIOUS
  <2>2. QED
    BY <1>2, <2>1, Sampled
<1>7. /\ c.held \in Nat /\ c.held <= SOS_HOLD /\ c.stable \in BOOLEAN /\ sleep.since \in Nat
  BY <1>1 DEF CoreButton, WakeInv, PanelTyped, ButtonsOK, Button, Hold, SleepOK, SleepState
<1>8. /\ sleep.hold_wake = TRUE /\ booting = FALSE
      /\ c.stable = TRUE => c.fired = FALSE /\ sleep.since <= c.held + 1
  BY <1>1, <1>3, <1>5 DEF WakeInv, WokeInv
<1>9. ASSUME d.stable = TRUE PROVE d.fired = FALSE /\ sleep.since <= d.held
  <2>1. c.stable = TRUE
    BY <1>5, <1>6, <1>7, <1>9 DEF SampleFacts
  <2>2. d.fired = FALSE /\ c.held + 1 < SOS_HOLD /\ d.held = Up(c.held, SOS_HOLD)
    BY <1>5, <1>6, <1>8, <1>9, <2>1 DEF SampleFacts
  <2>3. QED
    BY <1>7, <1>8, <2>1, <2>2 DEF Up
<1>10. ASSUME d.ev = "ShortRelease" PROVE sleep.since <= HOLD_WAKE_WINDOW
  <2>1. c.stable = TRUE
    BY <1>6, <1>10 DEF SampleFacts
  <2>2. QED
    BY <1>7, <1>8, <2>1
<1>11. d.held \in Nat
  BY <1>3 DEF HoldInv, ButtonsOK, CoreButton, Button
<1>12. sleep.since <= d.held + 0 <=> sleep.since <= d.held
  BY <1>7, <1>11
<1>13. (turn' = "poll") = FALSE
  BY <1>3
<1>14. QED
  BY <1>3, <1>8, <1>9, <1>10, <1>12, <1>13 DEF WokeInv

LEMMA WokeApply ==
  ASSUME WakeInv, Apply
  PROVE  WokeInv'
<1>1. /\ turn = "show" /\ turn' = turn /\ btn' = btn /\ booting' = booting
  BY DEF Apply, buttonVars
<1>2. press \in [down : Nat, sos : BOOLEAN, woke : BOOLEAN] /\ sleep \in SleepState
  BY DEF WakeInv, HoldInv, PressOK, PanelTyped, SleepOK
<1>3. CASE press' = press /\ (sleep' = sleep \/ sleep' = Awake(sleep))
  <2>1. sleep'.hold_wake = sleep.hold_wake /\ sleep'.since = sleep.since
    BY <1>2, <1>3 DEF Awake, SleepState
  <2>2. QED
    BY <1>1, <1>3, <2>1 DEF WakeInv, WokeInv
<1>4. CASE ApplyProgress /\ Head(queue) = Progress
  <2>1. Bar
    BY <1>4, HeadIsUpdate DEF Bar, WakeInv, PanelTyped
  <2>2. btn[1].ev \in {"Pressed", "Progress"} /\ btn[1].stable = TRUE /\ btn[1].fired = FALSE
    BY <2>1 DEF WakeInv, QueueInv, EventsInv
  <2>3. btn[1].held \in Nat
    BY DEF WakeInv, PanelTyped, ButtonsOK, CoreButton, Button
  <2>4. CASE sleep.on = FALSE
    <3>1. sleep'.hold_wake = TRUE /\ sleep'.since = 0
      BY <1>4, <2>4 DEF ApplyProgress
    <3>2. press'.woke = TRUE => booting = FALSE
      <4>1. press'.woke = (press.woke \/ (~sleep.on /\ ~booting))
        BY <1>2, <1>4 DEF ApplyProgress
      <4>2. booting \in BOOLEAN /\ (press.woke = TRUE => booting = FALSE)
        BY DEF WakeInv, WokeInv, PanelTyped, FlagsOK
      <4>3. QED
        BY <1>2, <4>1, <4>2
    <3>3. QED
      BY <1>1, <2>2, <2>3, <3>1, <3>2 DEF WokeInv
  <2>5. CASE sleep.on = TRUE
    <3>1. sleep' = Awake(sleep)
      BY <1>4, <2>5 DEF ApplyProgress
    <3>2. press'.woke = press.woke
      BY <1>2, <1>4, <2>5 DEF ApplyProgress
    <3>3. sleep'.hold_wake = sleep.hold_wake /\ sleep'.since = sleep.since
      BY <1>2, <3>1 DEF Awake, SleepState
    <3>4. QED
      BY <1>1, <3>2, <3>3 DEF WakeInv, WokeInv
  <2>6. QED
    BY <1>2, <2>4, <2>5 DEF SleepState
<1>5. ASSUME NEW b, NEW long, ApplyButton(b, long) PROVE WokeInv'
  <2>1. press'.woke = FALSE
    BY <1>2, <1>5 DEF ApplyButton
  <2>2. QED
    BY <2>1 DEF WokeInv
<1>6. Head(queue) \in Updates
  BY HeadIsUpdate DEF WakeInv, PanelTyped
<1>7. Head(queue).cmd = "progress" => Head(queue) = Progress
  BY <1>6, UpdateFields
<1>8. QED
  BY <1>3, <1>4, <1>5, <1>7 DEF Apply, ApplyHide, ApplyInfo, ApplyAlert, ApplyMessage

LEMMA WokeStep ==
  ASSUME WakeInv, HoldInv', [Next]_vars
  PROVE  WokeInv'
<1>1. sleep \in SleepState
  BY DEF WakeInv, PanelTyped, SleepOK
<1>2. CASE Service
  <2>1. turn = "show" /\ turn' = "tick" /\ UNCHANGED <<btn, booting, press>>
    BY <1>2 DEF Service, buttonVars
  <2>2. sleep'.hold_wake = sleep.hold_wake /\ sleep'.since = sleep.since
    BY <1>1, <1>2 DEF Service, SleepState
  <2>3. QED
    BY <2>1, <2>2 DEF WakeInv, WokeInv
<1>3. CASE Tick
  <2>1. turn = "tick" /\ turn' = "poll" /\ UNCHANGED <<btn, booting, press>>
    BY <1>3 DEF Tick, buttonVars
  <2>2. sleep'.hold_wake = sleep.hold_wake
        /\ sleep'.since = IF sleep.hold_wake THEN Up(sleep.since, HOLD_WAKE_WINDOW + 1) ELSE 0
    BY <1>1, <1>3 DEF Tick, SleepState
  <2>3. sleep.since \in Nat /\ btn[1].held \in Nat
    BY <1>1 DEF SleepState, WakeInv, PanelTyped, ButtonsOK, CoreButton, Button
  <2>4. sleep'.since \in Nat /\ sleep'.since <= sleep.since + 1
    BY <2>2, <2>3 DEF Up
  <2>5. QED
    BY <2>1, <2>2, <2>3, <2>4 DEF WakeInv, WokeInv
<1>4. CASE BootEnds
  <2>1. booting /\ press' = press /\ press.woke \in BOOLEAN
    BY <1>4 DEF BootEnds, WakeInv, HoldInv, PressOK
  <2>2. QED
    BY <2>1 DEF WakeInv, WokeInv
<1>5. CASE Pump
  BY <1>5 DEF Pump, buttonVars, uiVars, WakeInv, WokeInv
<1>6. CASE UNCHANGED <<btn, sleep, turn, booting, press>>
  BY <1>6 DEF WakeInv, WokeInv
<1>7. QED
  BY <1>2, <1>3, <1>4, <1>5, <1>6, WokePoll, WokeApply
  DEF Next, vars, buttonVars, uiVars, SetLevel, OthersPost, DisplayTask

\* From the hold bar that wakes the screen to the release that sleep_button spends, the
\* queue, the timers and hold_wake say which press woke it.
THEOREM WakeInvariant == Spec => []WakeInv
<1>1. Init => QueueInv
  BY QueuedOf DEF Init, QueueInv, Bar, LetGo
<1>2. Init => EventsInv /\ WokeInv
  BY DEF Init, EventsInv, WokeInv, Released, Button, None
<1>3. Init => WakeInv
  BY <1>1, <1>2, PanelStarts, HoldStarts DEF WakeInv
<1>4. WakeInv /\ [Next]_vars => WakeInv'
  <2> SUFFICES ASSUME WakeInv, [Next]_vars PROVE WakeInv'
    OBVIOUS
  <2>1. PanelTyped'
    BY ButtonsStayTyped, QueueStaysTyped, RingStaysTyped, SleepStaysTyped, FlagsStayTyped,
       UiStaysTyped DEF WakeInv, PanelTyped
  <2>2. HoldInv'
    BY HoldStep DEF WakeInv
  <2>3. QED
    BY <2>1, <2>2, EventsStep, QueueStep, WokeStep DEF WakeInv
<1>5. QED
  BY <1>3, <1>4, PTL DEF Spec

\* For any delays that keep HOLD_WAKE_WINDOW at the hold and the debounce time: the
\* short press of the hold that woke the screen, applied when it is let go, only wakes
\* it (sleep_button's hold_wake), whatever other tasks post and drop in between.
THEOREM WakingPressIsSpent == Spec => WakingPressOnlyWakes
<1>1. WakeInv /\ [Next]_vars
        => [(Apply /\ Head(queue) = Press(1, FALSE) /\ press.woke)
              => UNCHANGED <<page, msg_sel, alert, msgov>>]_vars
  <2> SUFFICES ASSUME WakeInv, Apply, Head(queue) = Press(1, FALSE), press.woke
               PROVE  UNCHANGED <<page, msg_sel, alert, msgov>>
    OBVIOUS
  <2>1. LetGo
    BY HeadIsUpdate DEF LetGo, WakeInv, PanelTyped
  <2>2. turn = "show" /\ btn[1].ev = "ShortRelease"
    BY <2>1 DEF WakeInv, QueueInv
  <2>3. press.woke = TRUE
    BY DEF WakeInv, HoldInv, PressOK
  <2>4. sleep.hold_wake = TRUE /\ sleep.since <= HOLD_WAKE_WINDOW
    BY <2>2, <2>3 DEF WakeInv, WokeInv
  <2>5. Wakes(1, FALSE)
    BY <2>4 DEF Wakes
  <2>6. ApplyButton(1, FALSE)
    <3>1. Head(queue).cmd = "button" /\ Head(queue).btn = 1 /\ Head(queue).long = FALSE
      BY DEF Press
    <3>2. QED
      BY <3>1 DEF Apply
  <2>7. QED
    BY <2>5, <2>6 DEF ApplyButton
<1>2. QED
  BY <1>1, WakeInvariant, PTL DEF Spec, WakingPressOnlyWakes
=============================================================================
