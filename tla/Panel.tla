------------------------------- MODULE Panel --------------------------------
(***************************************************************************)
(* The two buttons and the display: src/src/core/core_dispatch.h           *)
(* (CoreButton), src/src/core/tasks.cpp (btn_intrupt, send_sos) and        *)
(* src/src/display (oled_layout.h, oled_display.cpp).                      *)
(*                                                                         *)
(* The button task samples both levels and posts what they mean to the     *)
(* display's queue, where other tasks post messages and alerts; a full     *)
(* queue drops what is posted.  The display task applies the queued        *)
(* updates one by one and then runs service(): timers, sleep, redraw.      *)
(*                                                                         *)
(* Time.  Tick is one sample of the buttons.  In every tick the button     *)
(* task polls once and the display task gets to service() once: that no    *)
(* drawing keeps it from that for a whole sample is an assumption.  The    *)
(* constants keep the order of the real delays (30 ms < 1 s < 2 s < 2.5 s  *)
(* <= 2.5 s < 3 s < 60 s), scaled down.                                    *)
(***************************************************************************)
EXTENDS Naturals, Sequences

CONSTANTS
  DEBOUNCE, SOS_HOLD, BTN2_LONG,     \* core_dispatch.h: 30, 2000, 1000 ms
  HOLD_WAKE_WINDOW, SLEEP_TIMEOUT,   \* oled_layout.h: 2500, 60000 ms
  MSG_OVERLAY, ALERT_TIME,           \* 2500 ms; the timed alerts' 3000 ms
  PROGRESS_STALE,                    \* oled_display.cpp: 60000 ms
  QUEUE_DEPTH, MSG_RING_SIZE,        \* 12 and 5
  PAGES,                             \* PAGE_COUNT (5)
  MaxChanges,                        \* bound: changes of the buttons' levels
  MaxPosts, MaxNotes                 \* bounds: what other tasks post, the part that is
                                     \* not messages

ASSUME PanelAssumption ==
  /\ {DEBOUNCE, SOS_HOLD, BTN2_LONG, SLEEP_TIMEOUT, MSG_OVERLAY, ALERT_TIME, PROGRESS_STALE,
      QUEUE_DEPTH, MSG_RING_SIZE} \subseteq Nat \ {0}
  /\ HOLD_WAKE_WINDOW \in Nat /\ HOLD_WAKE_WINDOW >= SOS_HOLD + DEBOUNCE
  /\ PAGES \in Nat /\ PAGES > 1

Button == {1, 2}
Hold(b) == IF b = 1 THEN SOS_HOLD ELSE BTN2_LONG
PAGE_MESSAGES == 1
None == "none"

VARIABLES
  level,      \* what each button's pin reads
  btn,        \* the two CoreButtons
  queue,      \* the display's queue
  info,       \* what the pages show of the WiFi, the LoRa link and the status line
  ring,       \* the received messages: slots, head, count, total
  page,       \* the page under any overlay
  msg_sel,    \* 0: list view, k: detail view of the k-th newest message
  alert,      \* kind of alert shown, and how long it has left
  prog,       \* the hold bar: shown, and its age
  msgov,      \* what is left of the message overlay
  sleep,      \* SleepState, with ages for its two times
  panel_on,   \* the panel's power, as last commanded
  dirty,      \* something to draw
  shown,      \* ghost: what the panel was last told to show
  turn,       \* who has yet to run in this tick
  booting,    \* the display task is still in the boot animation
  press,      \* ghost: what is known of BTN1's press (see Watch)
  left        \* what the bounds leave

buttonVars == <<level, btn>>
uiVars == <<info, ring, page, msg_sel, alert, prog, msgov, sleep>>
vars == <<buttonVars, queue, uiVars, panel_on, dirty, shown, turn, booting, press, left>>

Up(n, limit) == IF n < limit THEN n + 1 ELSE limit
Down(n) == IF n > 0 THEN n - 1 ELSE 0

-----------------------------------------------------------------------------
(* CoreButton: debounce and hold, one sample per tick.                     *)

Released == [raw |-> FALSE, since |-> DEBOUNCE, stable |-> FALSE, held |-> 0, fired |-> FALSE,
             ev |-> None]

\* Mutant: the hold is not restarted by a new press.
HeldNextKept(c, flips, hold) == IF c.stable THEN Up(c.held, hold) ELSE c.held
HeldNext(c, flips, hold) ==
  IF flips THEN 0 ELSE IF c.stable THEN Up(c.held, hold) ELSE c.held

Update(c, pressed, hold) ==
  LET since == IF pressed # c.raw THEN 0 ELSE Up(c.since, DEBOUNCE)
      flips == pressed # c.stable /\ since >= DEBOUNCE
      fires == c.stable /\ ~c.fired /\ c.held + 1 >= hold
      ev    == IF flips /\ pressed THEN "Pressed"
               ELSE IF flips THEN (IF c.fired THEN "LongRelease" ELSE "ShortRelease")
               ELSE IF fires THEN "HoldFired"
               ELSE IF c.stable /\ ~c.fired THEN "Progress" ELSE None
  IN [raw |-> pressed, since |-> since, stable |-> (c.stable # flips),
      held |-> HeldNext(c, flips, hold),
      fired |-> ~flips /\ (c.fired \/ fires), ev |-> ev]

-----------------------------------------------------------------------------
(* Posting to the display's queue.                                         *)

Progress == [cmd |-> "progress"]
Hide == [cmd |-> "hide"]
Alert(kind) == [cmd |-> "alert", kind |-> kind]
Message == [cmd |-> "message"]
Info(v) == [cmd |-> "info", value |-> v]
Press(b, long) == [cmd |-> "button", btn |-> b, long |-> long]

\* Mutant: one update more than the queue holds.
PostOver(q, m) == IF Len(q) <= QUEUE_DEPTH THEN Append(q, m) ELSE q
Post(q, m) == IF Len(q) < QUEUE_DEPTH THEN Append(q, m) ELSE q

\* btn_intrupt: what each event of the two buttons posts, in this order.  send_sos
\* ends with an alert, whether send_packets took the packet or not.
Posts1(ev) ==
  IF ev \in {"Pressed", "Progress"} THEN <<Progress>>
  ELSE IF ev = "HoldFired" THEN <<Hide, Alert("timed")>>
  ELSE IF ev = "ShortRelease" THEN <<Hide, Press(1, FALSE)>> ELSE <<>>

Posts2(ev) ==
  IF ev = "ShortRelease" THEN <<Press(2, FALSE)>>
  ELSE IF ev = "HoldFired" THEN <<Press(2, TRUE)>> ELSE <<>>

\* The bar is only posted again when it has grown by a step (shown_step).
Throttle(ev) == IF ev = "Progress" THEN {Posts1(ev), <<>>} ELSE {Posts1(ev)}

\* One after the other, as far as there is room.
PostAll(q, ms) ==
  IF Len(q) + Len(ms) <= QUEUE_DEPTH THEN q \o ms
  ELSE q \o SubSeq(ms, 1, QUEUE_DEPTH - Len(q))

\* Ghost.  down: samples BTN1 has been down, releases too short to be debounced
\* included; sos: this hold has sent its SOS; woke: the screen was off when the press's bar came up, and
\* neither a later press nor BTN2 has come since.
Watch(c, pressed) ==
  LET next == Update(c, pressed, SOS_HOLD)
      down == IF pressed \/ next.since < DEBOUNCE
                THEN Up(press.down, SOS_HOLD + 2 * DEBOUNCE + 1) ELSE 0
  IN [press EXCEPT !.down = down,
                   !.sos = down > 0 /\ (@ \/ next.ev = "HoldFired"),
                   !.woke = IF next.ev \in {"Pressed", "HoldFired"} THEN FALSE ELSE @]

Init ==
  /\ level = [b \in Button |-> FALSE] /\ btn = [b \in Button |-> Released]
  /\ queue = <<>>
  /\ ring = [slot |-> [i \in 0..(MSG_RING_SIZE - 1) |-> 0], head |-> 0, count |-> 0, total |-> 0]
  /\ info = 0 /\ page = 0 /\ msg_sel = 0
  /\ alert = [kind |-> None, left |-> 0] /\ prog = [on |-> FALSE, age |-> 0] /\ msgov = 0
  /\ sleep = [on |-> FALSE, idle |-> 0, hold_wake |-> FALSE, since |-> 0]
  /\ panel_on = TRUE /\ dirty = FALSE /\ shown = <<"splash">>
  /\ turn = "poll" /\ booting = TRUE
  /\ press = [down |-> 0, sos |-> FALSE, woke |-> FALSE]
  /\ left = [changes |-> MaxChanges, posts |-> MaxPosts, notes |-> MaxNotes]

SetLevel(b) ==
  /\ turn = "poll" /\ left.changes > 0
  /\ level' = [level EXCEPT ![b] = ~@]
  /\ left' = [left EXCEPT !.changes = @ - 1]
  /\ UNCHANGED <<btn, queue, uiVars, panel_on, dirty, shown, turn, booting, press>>

PollButtons ==
  LET b1 == Update(btn[1], level[1], Hold(1))
      b2 == Update(btn[2], level[2], Hold(2))
  IN /\ turn = "poll" /\ turn' = "show"
     /\ btn' = [b \in Button |-> IF b = 1 THEN b1 ELSE b2]
     /\ \E shows \in Throttle(b1.ev) : queue' = PostAll(queue, shows \o Posts2(b2.ev))
     /\ press' = Watch(btn[1], level[1])
     /\ UNCHANGED <<level, uiVars, panel_on, dirty, shown, booting, left>>

\* A received message, an alert for some time or until a button press, a new value
\* of what the pages show (WiFi, LoRa and status updates): in any turn (one posted in
\* "tick" is one posted first thing in "poll").
OthersPost ==
  /\ turn # "tick" /\ left.posts > 0
  /\ \/ queue' = Post(queue, Message) /\ left' = [left EXCEPT !.posts = @ - 1]
     \/ /\ left.notes > 0
        /\ \E m \in {Alert("timed"), Alert("sticky"), Info(0), Info(1)} : queue' = Post(queue, m)
        /\ left' = [left EXCEPT !.posts = @ - 1, !.notes = @ - 1]
  /\ UNCHANGED <<buttonVars, uiVars, panel_on, dirty, shown, turn, booting, press>>

-----------------------------------------------------------------------------
(* apply(): one queued update.                                             *)

RingPush(r) ==
  [slot |-> [r.slot EXCEPT ![r.head] = r.total + 1], head |-> (r.head + 1) % MSG_RING_SIZE,
   count |-> Up(r.count, MSG_RING_SIZE), total |-> r.total + 1]

\* Mutant: counted from the slot the next push writes.
RingSlotOff(r, i) == (r.head + MSG_RING_SIZE - i) % MSG_RING_SIZE
RingSlot(r, i) == (r.head + MSG_RING_SIZE - 1 - i) % MSG_RING_SIZE

Awake(s) == [s EXCEPT !.on = TRUE, !.idle = 0]

NoBar == [on |-> FALSE, age |-> 0]
NoAlert == [kind |-> None, left |-> 0]

\* Mutant: a progress update wakes like any other.
ApplyProgressPlain ==
  /\ prog' = [on |-> TRUE, age |-> 0] /\ sleep' = Awake(sleep) /\ dirty' = TRUE
  /\ press' = [press EXCEPT !.woke = @ \/ (~sleep.on /\ ~booting)]
  /\ UNCHANGED <<info, ring, page, msg_sel, alert, msgov>>

ApplyProgress ==
  /\ prog' = [on |-> TRUE, age |-> 0]
  /\ sleep' = IF sleep.on THEN Awake(sleep)
              ELSE [on |-> TRUE, idle |-> 0, hold_wake |-> TRUE, since |-> 0]
  /\ press' = [press EXCEPT !.woke = @ \/ (~sleep.on /\ ~booting)]
  /\ dirty' = TRUE
  /\ UNCHANGED <<info, ring, page, msg_sel, alert, msgov>>

\* Mutant: the bar is hidden without a redraw.
ApplyHideQuiet ==
  /\ prog' = NoBar /\ dirty' = dirty
  /\ UNCHANGED <<info, ring, page, msg_sel, alert, msgov, sleep, press>>

ApplyHide ==
  /\ prog' = NoBar
  /\ dirty' = (dirty \/ prog.on)
  /\ UNCHANGED <<info, ring, page, msg_sel, alert, msgov, sleep, press>>

\* Feeds that repeat a value ask for no redraw.
ApplyInfo(v) ==
  /\ info' = v /\ dirty' = (dirty \/ v # info)
  /\ UNCHANGED <<ring, page, msg_sel, alert, prog, msgov, sleep, press>>

ApplyAlert(kind) ==
  /\ alert' = [kind |-> kind, left |-> IF kind = "timed" THEN ALERT_TIME ELSE 0]
  /\ sleep' = Awake(sleep) /\ dirty' = TRUE
  /\ UNCHANGED <<info, ring, page, msg_sel, prog, msgov, press>>

ApplyMessage ==
  /\ ring' = RingPush(ring)
  /\ msg_sel' = IF msg_sel > 0 THEN 1 ELSE 0
  /\ msgov' = MSG_OVERLAY
  /\ sleep' = Awake(sleep) /\ dirty' = TRUE
  /\ UNCHANGED <<info, page, alert, prog, press>>

LandOnMessages ==
  /\ msgov' = 0 /\ page' = PAGE_MESSAGES
  /\ msg_sel' = IF ring.count > 0 THEN 1 ELSE 0

MsgSelectNext == IF msg_sel + 1 > ring.count THEN 0 ELSE msg_sel + 1

\* What sleep_button makes of a press, before anything else looks at it.
Wakes(b, long) ==
  \/ sleep.hold_wake /\ b = 1 /\ ~long /\ sleep.since <= HOLD_WAKE_WINDOW
  \/ ~sleep.on
TurnsOff(b, long) == ~Wakes(b, long) /\ b = 2 /\ long

SleepButton(b, long) ==
  sleep' = [on |-> ~TurnsOff(b, long), idle |-> 0, hold_wake |-> FALSE, since |-> 0]

ApplyButton(b, long) ==
  /\ SleepButton(b, long)
  /\ dirty' = TRUE
  /\ press' = [press EXCEPT !.woke = FALSE]
  /\ IF Wakes(b, long) \/ TurnsOff(b, long) THEN UNCHANGED <<page, msg_sel, alert, msgov>>
     ELSE IF alert.kind # None
       THEN alert' = NoAlert /\ UNCHANGED <<page, msg_sel, msgov>>
     ELSE IF msgov > 0 THEN LandOnMessages /\ UNCHANGED alert
     ELSE /\ IF b = 2 THEN page' = (page + 1) % PAGES /\ msg_sel' = 0
             ELSE page' = page
                  /\ msg_sel' = IF page = PAGE_MESSAGES THEN MsgSelectNext ELSE msg_sel
          /\ UNCHANGED <<alert, msgov>>
  /\ UNCHANGED <<info, ring, prog>>

Apply ==
  /\ turn = "show" /\ queue # <<>> /\ queue' = Tail(queue)
  /\ LET m == Head(queue) IN
       \/ m.cmd = "progress" /\ ApplyProgress
       \/ m.cmd = "hide" /\ ApplyHide
       \/ m.cmd = "info" /\ ApplyInfo(m.value)
       \/ m.cmd = "alert" /\ ApplyAlert(m.kind)
       \/ m.cmd = "message" /\ ApplyMessage
       \/ m.cmd = "button" /\ ApplyButton(m.btn, m.long)
  /\ UNCHANGED <<buttonVars, panel_on, shown, turn, booting, left>>

-----------------------------------------------------------------------------
(* service(), the boot animation and the passing of time.                  *)

View ==
  IF alert.kind # None THEN <<"alert", alert.kind>>
  ELSE IF prog.on THEN <<"progress">>
  ELSE IF msgov > 0 THEN <<"message", ring.total>>
  ELSE <<"page", page, msg_sel, ring.total, info>>

\* Mutant: a timed alert is never taken down.
ExpiredNever(a) == a.kind = "timed" /\ a.left < 0
Expired(a) == a.kind = "timed" /\ a.left = 0

Stale == prog.on /\ prog.age >= PROGRESS_STALE

\* Timers first, then sleep, the panel's power and, once the last frame is old
\* enough, the redraw.  The overlay of a message has just expired when msgov is 1 (see
\* Tick).
Service ==
  LET over == msgov = 1
  IN /\ turn = "show" /\ ~booting /\ queue = <<>> /\ turn' = "tick"
     /\ UNCHANGED <<buttonVars, queue, info, ring, booting, press, left>>
     /\ alert' = IF Expired(alert) THEN NoAlert ELSE alert
     /\ prog' = IF Stale THEN NoBar ELSE prog
     /\ IF over THEN LandOnMessages ELSE UNCHANGED <<msgov, page, msg_sel>>
     /\ LET kept == alert'.kind # None \/ prog'.on
            idle == IF kept THEN 0 ELSE sleep.idle
            on   == sleep.on /\ idle < SLEEP_TIMEOUT
            draw == dirty \/ Expired(alert) \/ Stale \/ over \/ (on /\ ~panel_on)
        IN /\ sleep' = [sleep EXCEPT !.on = on, !.idle = IF on THEN idle ELSE 0]
           /\ panel_on' = on
           /\ \/ on /\ draw /\ shown' = View' /\ dirty' = FALSE
              \/ dirty' = draw /\ shown' = shown

\* The animation: queued updates are applied, with sleep still all zero (asleep),
\* and no timer is looked at; then sleep_init.
Pump ==
  /\ booting /\ turn = "show" /\ queue = <<>> /\ turn' = "tick"
  /\ UNCHANGED <<buttonVars, queue, uiVars, panel_on, dirty, shown, booting, press, left>>

BootEnds ==
  /\ booting /\ booting' = FALSE /\ turn = "show"
  /\ sleep' = [on |-> TRUE, idle |-> 0, hold_wake |-> FALSE, since |-> 0] /\ dirty' = TRUE
  /\ UNCHANGED <<buttonVars, queue, info, ring, page, msg_sel, alert, prog, msgov, panel_on, shown,
                 turn, press, left>>

\* msgov counts down to 1, the tick its time is up in.  An age that nothing looks at
\* is kept at 0, here and above.
Tick ==
  /\ turn = "tick" /\ turn' = "poll"
  /\ alert' = [alert EXCEPT !.left = Down(@)]
  /\ prog' = [prog EXCEPT !.age = IF prog.on THEN Up(@, PROGRESS_STALE) ELSE 0]
  /\ msgov' = IF msgov > 1 THEN msgov - 1 ELSE msgov
  /\ sleep' = [sleep EXCEPT
                 !.idle = IF sleep.on THEN Up(@, SLEEP_TIMEOUT) ELSE 0,
                 !.since = IF sleep.hold_wake THEN Up(@, HOLD_WAKE_WINDOW + 1) ELSE 0]
  /\ UNCHANGED <<buttonVars, queue, info, ring, page, msg_sel, panel_on, dirty, shown, booting,
                 press, left>>

DisplayTask == Apply \/ Service \/ Pump \/ BootEnds

Next ==
  \/ \E b \in Button : SetLevel(b)
  \/ PollButtons \/ OthersPost
  \/ DisplayTask \/ Tick

Spec == Init /\ [][Next]_vars

\* Both tasks run and time passes, the animation ends, and a frame that is due is
\* drawn once the last one is old enough.
FairSpec ==
  Spec /\ WF_vars(PollButtons) /\ WF_vars(DisplayTask) /\ WF_vars(Tick)
       /\ SF_vars(BootEnds) /\ SF_vars(Service /\ ~dirty')

-----------------------------------------------------------------------------
(* Properties.                                                             *)

\* Every variable keeps its type, the queue its depth and the ring its size.
TypeOK ==
  /\ level \in [Button -> BOOLEAN]
  /\ \A b \in Button :
       /\ btn[b].since \in 0..DEBOUNCE /\ btn[b].held \in 0..Hold(b)
       /\ \A f \in {"raw", "stable", "fired"} : btn[b][f] \in BOOLEAN
  /\ Len(queue) <= QUEUE_DEPTH
  /\ \A i \in 1..Len(queue) :
       queue[i].cmd \in {"progress", "hide", "alert", "message", "button", "info"}
  /\ ring.slot \in [0..(MSG_RING_SIZE - 1) -> Nat] /\ ring.head \in 0..(MSG_RING_SIZE - 1)
  /\ ring.count \in 0..MSG_RING_SIZE /\ ring.total \in Nat
  /\ info \in {0, 1} /\ page \in 0..(PAGES - 1)
  /\ alert \in [kind : {None, "timed", "sticky"}, left : 0..ALERT_TIME]
  /\ prog \in [on : BOOLEAN, age : 0..PROGRESS_STALE] /\ msgov \in 0..MSG_OVERLAY
  /\ sleep \in [on : BOOLEAN, idle : 0..SLEEP_TIMEOUT, hold_wake : BOOLEAN,
                since : 0..(HOLD_WAKE_WINDOW + 1)]
  /\ panel_on \in BOOLEAN /\ dirty \in BOOLEAN /\ booting \in BOOLEAN
  /\ turn \in {"poll", "show", "tick"}

\* The detail view is a view of the messages page, of a message that the ring still
\* has, and the k-th newest is what the k-th step shows: messages that arrive, the
\* ring's wrap, page changes and the overlay's end never leave it on another one.
DetailShowsTheKthNewest ==
  msg_sel > 0 =>
    /\ page = PAGE_MESSAGES /\ msg_sel <= ring.count
    /\ ring.slot[RingSlot(ring, msg_sel - 1)] = ring.total - (msg_sel - 1)

\* Once the panel is lit and nothing is left to draw, it shows what the state says:
\* no update, expired timer or wake is without its redraw.
ShownIsCurrent == (~booting /\ panel_on /\ ~dirty) => shown = View

\* The press that woke the screen only wakes it, however late in the hold it is let
\* go: it moves no page, opens no message and dismisses nothing.
WakingPressOnlyWakes ==
  [][(Apply /\ Head(queue) = Press(1, FALSE) /\ press.woke)
       => UNCHANGED <<page, msg_sel, alert, msgov>>]_vars

\* An SOS takes BTN1 down for the whole hold, and one hold sends one SOS: neither
\* bounces nor a BTN1 that stays down make it two.
SosIsHeldAndOnce ==
  [][(PollButtons /\ btn'[1].ev = "HoldFired")
       => press'.down > SOS_HOLD + DEBOUNCE /\ ~press.sos]_vars

\* Left alone, the panel goes dark for good, unless an alert waits for a press: also
\* when the queue had no room for the update that hides the hold bar, which would keep
\* it lit, and when a button stays down.
ScreenSleeps == <>[](alert.kind # "sticky") => <>[]~panel_on
=============================================================================
