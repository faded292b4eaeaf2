------------------------------- MODULE Login --------------------------------
(***************************************************************************)
(* The admin password and the session tokens: src/src/web/auth.cpp and the *)
(* /api/auth and /api/session routes of src/src/web/web_server.cpp.        *)
(*                                                                         *)
(* The request handlers run one after the other in the AsyncTCP task; a    *)
(* factory reset (support_method.cpp, reset_device) calls auth_clear in a  *)
(* task of its own, between any two of their steps, and restarts the       *)
(* board.  The password is written to flash before it is put in force, so  *)
(* a restart can fall between the two.  At boot auth_init may fail to read *)
(* it: the board then has no password until one is set, and Setup, which   *)
(* asks for none, overwrites the stored one.  A client that may do         *)
(* something is one whose credentials auth_check accepts at that moment:   *)
(* there is one exactly while a password is set.                           *)
(***************************************************************************)
EXTENDS Naturals, FiniteSets

CONSTANTS
  Passwords, NoPassword,
  AUTH_MAX_SESSIONS,       \* auth.cpp: 4
  MaxSets, MaxTokens, MaxRestarts   \* bounds: passwords set; tokens; restarts

ASSUME LoginAssumption ==
  /\ NoPassword \notin Passwords
  /\ AUTH_MAX_SESSIONS \in Nat \ {0}

VARIABLES
  nvs,        \* the password in flash
  ha1,        \* the password in force
  load,       \* ghost: "failed" while what is in force comes of a load that failed
  slots,      \* g_sessions
  next_slot,  \* g_next_slot
  async,      \* the login handler the AsyncTCP task is in, and how far
  wiping,     \* the next step of the factory reset
  era,        \* ghost: how often the password in force was set, cleared or loaded
  used        \* what the bounds have used: passwords set, tokens, restarts

loginVars == <<nvs, ha1, load, slots, next_slot, async, wiping, era, used>>

Slot == 0..(AUTH_MAX_SESSIONS - 1)
Stored == Passwords \cup {NoPassword}

\* A token: its number, and the era its request was let in under.
Empty == [n |-> 0, era |-> 0]
NoSessions == [i \in Slot |-> Empty]

Idle == [step |-> "idle", pw |-> NoPassword, era |-> 0]

\* auth_init: NVS may not open, or hold no hash of the right length; g_loaded is set
\* all the same, and nothing is tried again.
Load ==
  \/ ha1' = nvs /\ load' = "ok"
  \/ ha1' = NoPassword /\ load' = "failed"

LoginInit ==
  /\ nvs \in Stored
  /\ \/ ha1 = nvs /\ load = "ok"
     \/ ha1 = NoPassword /\ load = "failed"
  /\ slots = NoSessions /\ next_slot = 0
  /\ async = Idle /\ wiping = "no"
  /\ era = 0 /\ used = [sets |-> 0, tokens |-> 0, restarts |-> 0]

IsSet == ha1 # NoPassword

\* auth_check: with a token, or with the password itself.
Accepts(t) == IsSet /\ t # Empty /\ \E i \in Slot : slots[i] = t
LetsIn == IsSet

-----------------------------------------------------------------------------
(* Setting the password: into flash, then in force with every session gone. *)

BeginSet(pw) ==
  /\ async = Idle /\ used.sets < MaxSets
  /\ async' = [Idle EXCEPT !.step = "store", !.pw = pw]
  /\ used' = [used EXCEPT !.sets = @ + 1]
  /\ UNCHANGED <<nvs, ha1, load, slots, next_slot, wiping, era>>

Setup(pw) == ~IsSet /\ BeginSet(pw)
Change(pw) == LetsIn /\ BeginSet(pw)

\* Mutant: what flash answered is not looked at.
StorePasswordBlindly ==
  /\ async.step = "store" /\ nvs' \in {nvs, async.pw}
  /\ async' = [async EXCEPT !.step = "apply"]
  /\ UNCHANGED <<ha1, load, slots, next_slot, wiping, era, used>>

\* Flash refuses, and the request fails, or takes the new password.
StorePassword ==
  /\ async.step = "store"
  /\ \/ async' = Idle /\ nvs' = nvs
     \/ async' = [async EXCEPT !.step = "apply"] /\ nvs' = async.pw
  /\ UNCHANGED <<ha1, load, slots, next_slot, wiping, era, used>>

ClearSessions == slots' = NoSessions /\ next_slot' = 0

\* Mutant: the sessions stay.
ApplyPasswordOnly ==
  /\ async.step = "apply" /\ async' = Idle
  /\ ha1' = async.pw /\ load' = "ok" /\ era' = era + 1
  /\ UNCHANGED <<slots, next_slot, nvs, wiping, used>>

ApplyPassword ==
  /\ async.step = "apply" /\ async' = Idle
  /\ ha1' = async.pw /\ load' = "ok" /\ era' = era + 1
  /\ ClearSessions
  /\ UNCHANGED <<nvs, wiping, used>>

-----------------------------------------------------------------------------
(* Sessions.                                                               *)

OpenSession ==
  /\ async = Idle /\ LetsIn /\ used.tokens < MaxTokens
  /\ async' = [Idle EXCEPT !.step = "issue", !.era = era]
  /\ UNCHANGED <<nvs, ha1, load, slots, next_slot, wiping, era, used>>

\* auth_session_create looks once more; the token is then made and stored.
IssueToken ==
  /\ async.step = "issue"
  /\ async' = IF IsSet THEN [async EXCEPT !.step = "keep"] ELSE Idle
  /\ UNCHANGED <<nvs, ha1, load, slots, next_slot, wiping, era, used>>

KeepToken ==
  /\ async.step = "keep" /\ async' = Idle
  /\ slots' = [slots EXCEPT ![next_slot] = [n |-> used.tokens + 1, era |-> async.era]]
  /\ next_slot' = (next_slot + 1) % AUTH_MAX_SESSIONS
  /\ used' = [used EXCEPT !.tokens = @ + 1]
  /\ UNCHANGED <<nvs, ha1, load, wiping, era>>

Revoke(t) ==
  /\ async = Idle
  /\ slots' = [i \in Slot |-> IF slots[i] = t THEN Empty ELSE slots[i]]
  /\ UNCHANGED <<nvs, ha1, load, next_slot, async, wiping, era, used>>

-----------------------------------------------------------------------------
(* Factory reset and restart.                                              *)

\* Asked for over HTTP or a stream; the task restores files first.
BeginReset ==
  /\ wiping = "no" /\ used.restarts < MaxRestarts
  /\ wiping' = "flash"
  /\ UNCHANGED <<nvs, ha1, load, slots, next_slot, async, era, used>>

\* Flash may refuse here too; the reset goes on.
WipeFlash ==
  /\ wiping = "flash" /\ wiping' = "memory"
  /\ nvs' \in {nvs, NoPassword}
  /\ UNCHANGED <<ha1, load, slots, next_slot, async, era, used>>

WipeMemory ==
  /\ wiping = "memory" /\ wiping' = "restart"
  /\ ha1' = NoPassword /\ load' = "ok" /\ era' = era + 1
  /\ ClearSessions
  /\ UNCHANGED <<nvs, async, used>>

\* By the reset, by /restart, by a fault: memory goes and auth_init reads flash.
Restart ==
  /\ used.restarts < MaxRestarts /\ used' = [used EXCEPT !.restarts = @ + 1]
  /\ Load /\ ClearSessions
  /\ async' = Idle /\ wiping' = "no" /\ era' = era + 1
  /\ UNCHANGED nvs

LoginHandlers ==
  \/ \E pw \in Passwords : Setup(pw) \/ Change(pw)
  \/ StorePassword \/ ApplyPassword
  \/ OpenSession \/ IssueToken \/ KeepToken
  \/ \E i \in Slot : slots[i] # Empty /\ Revoke(slots[i])

FactoryReset == BeginReset \/ WipeFlash \/ WipeMemory

-----------------------------------------------------------------------------
(* Properties.                                                             *)

LoginTypeOK ==
  /\ nvs \in Stored /\ ha1 \in Stored /\ load \in {"ok", "failed"}
  /\ slots \in [Slot -> [n : Nat, era : Nat]] /\ next_slot \in Slot
  /\ async \in [step : {"idle", "store", "apply", "issue", "keep"}, pw : Stored, era : Nat]
  /\ wiping \in {"no", "flash", "memory", "restart"}
  /\ era \in Nat /\ used \in [sets : Nat, tokens : Nat, restarts : Nat]

\* While a password is in force, every token that opens the board was given to someone
\* let in under this very password, never under an earlier one: also when a factory
\* reset falls between the check of a request for a session and its token.
SessionsOfThisPassword ==
  \A i \in Slot : Accepts(slots[i]) => slots[i].era = era

\* The password in force is the one flash holds, but for the moment in which a new one
\* goes from flash into force and for a factory reset under way; after a boot that could
\* not read it, none is in force until one is set.
PasswordInForceIsStored ==
  (async.step # "apply" /\ wiping \in {"no", "flash"})
    => ha1 = IF load = "failed" THEN NoPassword ELSE nvs
=============================================================================
