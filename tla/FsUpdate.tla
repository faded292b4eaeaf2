------------------------------ MODULE FsUpdate ------------------------------
(***************************************************************************)
(* Over-the-air update and the file system it replaces.                    *)
(*                                                                         *)
(* An upload (ota_upload, on the AsyncTCP task) owns the update, holds the *)
(* radio mutex, and writes the firmware or the LittleFS partition.  For    *)
(* the latter it snapshots the settings first and takes the file system    *)
(* offline; a task (ota_finish_task) puts the settings back into the new   *)
(* image and reboots.  Other tasks save settings through fs_enter; page    *)
(* files are streamed from an open file.  Requests fail, clients vanish,   *)
(* the snapshot and the restoring fail, tasks cannot be created, and       *)
(* anything may reboot the board.                                          *)
(*                                                                         *)
(* The settings are one file, whichever of the four: its content is how    *)
(* often the user has saved it.  It may be wifi_config, which has a copy   *)
(* made at boot.  Paths and sizes, and the login, are left out.            *)
(***************************************************************************)
EXTENDS Naturals

CONSTANTS
  Request,                            \* upload requests (slots, reused)
  Chunks,                             \* pieces an image arrives in
  MaxUploads, MaxSaves, MaxReboots,   \* bounds of the exploration
  Nobody

ASSUME FsUpdateAssumption ==
  /\ Nobody \notin Request
  /\ Chunks \in Nat \ {0}
  /\ MaxUploads \in Nat /\ MaxSaves \in Nat /\ MaxReboots \in Nat

VARIABLES
  owner,      \* ota_owner
  status,     \* of each request: "none", "running", "over" (answered or to be)
  kind,       \* of each request: "flash" or "fs"
  got,        \* pieces written
  radio,      \* who holds lora_write_mutex: "free", "lora" or "ota"
  offline,    \* g_fs_offline
  dirty,      \* ota_fs_dirty
  held,       \* ota_keep_present: "no", "yes"; or not, as the snapshot "skipped"
              \* the file (its size, no memory)
  kept,       \* ota_keep_data
  backup,     \* the file as the last boot found it
  lock,       \* s_fs_mutex: "free", "saver" or "finish"
  saver,      \* a settings save: "idle", "checked" or "inside"
  finish,     \* ota_finish_task: "none", "delay", "unmounted", "restored"; or
              \* "stuck" without it and without the restart task
  image,      \* the partition: "good", "torn" (partly written) or "new"
  disk,       \* the settings in it; 0 is an image's default
  user,       \* the settings as the user last saved them
  lost,       \* ghost: what went wrong with an update's settings, if nothing
              \* was saved since: "none"; "cut" off between erasing and
              \* restoring; "skipped"; "unmountable"; "unwritten"
  streaming,  \* reads left in a file response under way
  uploads, reboots   \* bounded counters

snapshot == <<held, kept, backup>>
ota == <<owner, status, kind, got, uploads>>
file == <<offline, dirty, snapshot, lock, saver, image, disk, user, lost>>
vars == <<ota, file, radio, finish, streaming, reboots>>

Init ==
  /\ owner = Nobody
  /\ status = [r \in Request |-> "none"]
  /\ kind = [r \in Request |-> "flash"]
  /\ got = [r \in Request |-> 0]
  /\ radio = "free"
  /\ offline = FALSE /\ dirty = FALSE
  /\ held = "no" /\ kept = 0 /\ backup = 1
  /\ lock = "free" /\ saver = "idle"
  /\ finish = "none"
  /\ image = "good" /\ disk = 1 /\ user = 1 /\ lost = "none"
  /\ streaming = 0
  /\ uploads = 0 /\ reboots = 0

-----------------------------------------------------------------------------
\* The upload.

\* ota_keep_clear.
ClearSnapshot == held' = "no" /\ kept' = 0 /\ UNCHANGED backup

\* Mutant: the radio is given back in one of the two branches only.
AbortKeepsRadio ==
  /\ owner' = Nobody
  /\ IF dirty' THEN radio' = "free" /\ UNCHANGED <<snapshot, offline>>
     ELSE ClearSnapshot /\ offline' = FALSE /\ radio' = radio

\* Mutant: the file system comes back whatever was written to it.
AbortComesBack ==
  /\ owner' = Nobody
  /\ ClearSnapshot /\ offline' = FALSE
  /\ radio' = "free"

\* ota_abort_owner.  A half-written file system stays offline, and the snapshot
\* is kept for the retry.
Abort ==
  /\ owner' = Nobody
  /\ IF dirty' THEN UNCHANGED <<snapshot, offline>> ELSE ClearSnapshot /\ offline' = FALSE
  /\ radio' = "free"

\* ota_admit, and the first call of ota_upload.
Refused(r) ==
  /\ owner # Nobody \/ radio # "free"
  /\ status' = [status EXCEPT ![r] = "over"]
  /\ UNCHANGED <<owner, offline, snapshot, dirty, radio>>

\* Mutant: the radio taken by ota_admit is not given back.
BusyKeepsRadio(r) ==
  /\ owner = Nobody /\ radio = "free"
  /\ kind'[r] = "fs" /\ lock # "free"
  /\ status' = [status EXCEPT ![r] = "over"]
  /\ radio' = "ota"
  /\ UNCHANGED <<owner, offline, snapshot, dirty>>

\* Somebody is inside the file system: everything taken is given back.
FsBusy(r) ==
  /\ owner = Nobody /\ radio = "free"
  /\ kind'[r] = "fs" /\ lock # "free"
  /\ status' = [status EXCEPT ![r] = "over"]
  /\ UNCHANGED <<owner, offline, snapshot, dirty, radio>>

\* ota_keep_snapshot: a file of more than 2 KB, or one the heap cannot hold, is
\* left out.
Snapshot ==
  /\ \/ held' = "yes" /\ kept' = disk
     \/ held' = "skipped" /\ kept' = 0
  /\ UNCHANGED backup

\* Mutant: a retry takes a new snapshot, of the half-written file system.
SnapshotAgain(r) ==
  /\ owner = Nobody /\ radio = "free"
  /\ owner' = r /\ radio' = "ota"
  /\ status' = [status EXCEPT ![r] = "running"]
  /\ IF kind'[r] = "fs"
       THEN /\ lock = "free"
            /\ offline' = TRUE
            /\ IF image = "good" THEN Snapshot ELSE ClearSnapshot
       ELSE UNCHANGED <<offline, snapshot>>
  /\ UNCHANGED dirty

Admitted(r) ==
  /\ owner = Nobody /\ radio = "free"
  /\ owner' = r /\ radio' = "ota"
  /\ status' = [status EXCEPT ![r] = "running"]
  /\ IF kind'[r] = "fs"
       THEN /\ lock = "free"
            /\ offline' = TRUE
            /\ IF dirty THEN UNCHANGED snapshot ELSE Snapshot
       ELSE UNCHANGED <<offline, snapshot>>
  /\ UNCHANGED dirty

\* Update.begin fails.
BeginFails(r) ==
  /\ owner = Nobody /\ radio = "free"
  /\ kind'[r] = "fs" => lock = "free"
  /\ status' = [status EXCEPT ![r] = "over"]
  /\ UNCHANGED dirty
  /\ Abort

Upload(r) ==
  /\ status[r] = "none"
  /\ uploads < MaxUploads
  /\ uploads' = uploads + 1
  /\ \E k \in {"flash", "fs"} : kind' = [kind EXCEPT ![r] = k]
  /\ got' = [got EXCEPT ![r] = 0]
  /\ Refused(r) \/ FsBusy(r) \/ Admitted(r) \/ BeginFails(r)
  /\ UNCHANGED <<lock, saver, image, disk, user, lost, finish, streaming, reboots>>

Running(r) == status[r] = "running" /\ owner = r

\* The first piece erases.  A write can fail.
Chunk(r) ==
  /\ Running(r)
  /\ got[r] < Chunks
  /\ dirty' = (dirty \/ kind[r] = "fs")
  /\ image' = IF kind[r] = "fs" THEN "torn" ELSE image
  /\ \/ /\ got' = [got EXCEPT ![r] = @ + 1]
        /\ UNCHANGED <<owner, status, radio, snapshot, offline>>
     \/ /\ status' = [status EXCEPT ![r] = "over"]
        /\ UNCHANGED got
        /\ Abort
  /\ UNCHANGED <<kind, uploads, lock, saver, disk, user, lost, finish, streaming, reboots>>

\* Update.end.  The radio stays quiet until the reboot: ota_finish_task's, or
\* without memory for it that of a restart task, or none when that cannot be
\* created either, for nobody looks.
Final(r) ==
  /\ Running(r)
  /\ got[r] = Chunks
  /\ status' = [status EXCEPT ![r] = "over"]
  /\ UNCHANGED dirty
  /\ \/ /\ owner' = Nobody
        /\ image' = IF kind[r] = "fs" THEN "new" ELSE image
        /\ disk' = IF kind[r] = "fs" THEN 0 ELSE disk
        /\ \/ finish' = (IF kind[r] = "fs" THEN "delay" ELSE "restored") /\ UNCHANGED lost
           \/ finish' = "restored" /\ lost' = (IF kind[r] = "fs" THEN "cut" ELSE lost)
           \/ finish' = "stuck" /\ UNCHANGED lost
        /\ UNCHANGED <<radio, snapshot, offline>>
     \/ /\ Abort
        /\ UNCHANGED <<finish, image, disk, lost>>
  /\ UNCHANGED <<kind, got, uploads, lock, saver, user, streaming, reboots>>

\* The client is gone, or the request's body ended before the file did
\* (ota_request): an upload it still owned is undone.
RequestEnds(r) ==
  /\ status[r] # "none"
  /\ status' = [status EXCEPT ![r] = "none"]
  /\ UNCHANGED dirty
  /\ IF owner = r THEN Abort ELSE UNCHANGED <<owner, snapshot, offline, radio>>
  /\ UNCHANGED <<kind, got, uploads, lock, saver, image, disk, user, lost, finish, streaming, reboots>>

-----------------------------------------------------------------------------
\* ota_finish_task, after its delay: unmount, remount and put the settings back,
\* under the lock if it comes free in time; then reboot, whatever failed.
FinishUnmounts ==
  /\ finish = "delay"
  /\ lock' = IF lock = "free" THEN "finish" ELSE lock
  /\ finish' = "unmounted"
  /\ UNCHANGED <<ota, offline, dirty, snapshot, saver, image, disk, user, lost, radio, streaming, reboots>>

\* fs_enter lets only the lock's owner write while the file system is offline.
WriteBack(content) ==
  \/ lock = "finish" /\ disk' = content /\ UNCHANGED lost
  \/ UNCHANGED disk /\ lost' = "unwritten"

\* A file that is not in the snapshot comes from its copy at boot, if it has one.
FinishRestores ==
  /\ finish = "unmounted"
  /\ finish' = "restored"
  /\ lock' = IF lock = "finish" THEN "free" ELSE lock
  /\ ClearSnapshot
  /\ \/ held = "yes" /\ WriteBack(kept)
     \/ /\ held # "yes"
        /\ disk' \in {disk, backup}
        /\ lost' = IF held = "skipped" THEN "skipped" ELSE lost
     \/ \* the new image cannot be mounted
        lost' = "unmountable" /\ UNCHANGED disk
  /\ UNCHANGED <<ota, offline, dirty, saver, image, user, radio, streaming, reboots>>

\* A boot: a file system that is torn is formatted, what was in memory is gone.
Boot ==
  /\ owner' = Nobody
  /\ status' = [r \in Request |-> "none"]
  /\ radio' = "free"
  /\ offline' = FALSE /\ dirty' = FALSE
  /\ lock' = "free" /\ saver' = "idle" /\ finish' = "none" /\ streaming' = 0
  /\ image' = "good"
  /\ disk' = IF image = "torn" THEN 0 ELSE disk
  /\ held' = "no" /\ kept' = 0 /\ backup' = disk'
  /\ UNCHANGED <<kind, got, uploads, user>>

\* After a firmware update on top of a failed file system upload the file system
\* is still torn.
FinishReboots ==
  /\ finish = "restored"
  /\ Boot
  /\ lost' = IF image = "torn" THEN "cut" ELSE lost
  /\ UNCHANGED reboots

\* A restart command, a factory reset of something else, a brown-out.
Reboot ==
  /\ reboots < MaxReboots
  /\ reboots' = reboots + 1
  /\ Boot
  /\ lost' = IF image = "torn" \/ (image = "new" /\ finish # "restored")
               THEN "cut" ELSE lost

\* Both tasks that could end a finished update could not be created: nothing but a
\* reboot from outside ends it, and uploads are answered "busy".
Stuck == finish = "stuck"
StaysStuck == Stuck /\ UNCHANGED vars

-----------------------------------------------------------------------------
\* Everybody else.

\* fs_enter looks at the flag, then waits for the lock, then looks again.
SaverChecks ==
  /\ saver = "idle" /\ ~offline
  /\ user < MaxSaves + 1
  /\ saver' = "checked"
  /\ UNCHANGED <<ota, offline, dirty, snapshot, lock, image, disk, user, lost, radio, finish, streaming, reboots>>

\* Mutant: the flag is not looked at again.
SaverTrusts ==
  /\ saver = "checked" /\ lock = "free"
  /\ saver' = "inside" /\ lock' = "saver"
  /\ UNCHANGED <<ota, offline, dirty, snapshot, image, disk, user, lost, radio, finish, streaming, reboots>>

SaverEnters ==
  /\ saver = "checked" /\ lock = "free"
  /\ IF offline THEN saver' = "idle" /\ UNCHANGED lock
     ELSE saver' = "inside" /\ lock' = "saver"
  /\ UNCHANGED <<ota, offline, dirty, snapshot, image, disk, user, lost, radio, finish, streaming, reboots>>

\* FS_LOCK_WAIT is over.
SaverTimesOut ==
  /\ saver = "checked" /\ lock # "free"
  /\ saver' = "idle"
  /\ UNCHANGED <<ota, offline, dirty, snapshot, lock, image, disk, user, lost, radio, finish, streaming, reboots>>

\* write_file_atomic: the new file replaces the old one, or the write fails.
SaverWrites ==
  /\ saver = "inside"
  /\ saver' = "idle" /\ lock' = "free"
  /\ \/ disk' = user + 1 /\ user' = user + 1 /\ lost' = "none"
     \/ UNCHANGED <<disk, user, lost>>
  /\ UNCHANGED <<ota, offline, dirty, snapshot, image, radio, finish, streaming, reboots>>

\* A page file is served: checked when the request arrives, read in pieces.
StreamStarts ==
  /\ streaming = 0 /\ ~offline
  /\ streaming' = 2
  /\ UNCHANGED <<ota, file, radio, finish, reboots>>

StreamReads ==
  /\ streaming > 0
  /\ streaming' = streaming - 1
  /\ UNCHANGED <<ota, file, radio, finish, reboots>>

\* The LoRa tasks take the radio for a frame and give it back.
LoraTakes ==
  /\ radio = "free"
  /\ radio' = "lora"
  /\ UNCHANGED <<ota, file, finish, streaming, reboots>>

LoraGives ==
  /\ radio = "lora"
  /\ radio' = "free"
  /\ UNCHANGED <<ota, file, finish, streaming, reboots>>
-----------------------------------------------------------------------------
Finish == FinishUnmounts \/ FinishRestores \/ FinishReboots
Saver == SaverChecks \/ SaverEnters \/ SaverTimesOut \/ SaverWrites
Stream == StreamStarts \/ StreamReads
Lora == LoraTakes \/ LoraGives

Next ==
  \/ \E r \in Request : Upload(r) \/ Chunk(r) \/ Final(r) \/ RequestEnds(r)
  \/ Finish \/ Reboot \/ StaysStuck \/ Saver \/ Stream \/ Lora

Spec == Init /\ [][Next]_vars

\* A request ends some day, if only by the connection's timeout, and tasks run.
\* Nobody has to upload, and no upload has to get through.
FairSpec ==
  /\ Spec
  /\ \A r \in Request : WF_vars(RequestEnds(r))
  /\ WF_vars(Finish) /\ WF_vars(SaverEnters \/ SaverTimesOut \/ SaverWrites)
-----------------------------------------------------------------------------
TypeOK ==
  /\ owner \in Request \cup {Nobody}
  /\ status \in [Request -> {"none", "running", "over"}]
  /\ kind \in [Request -> {"flash", "fs"}]
  /\ got \in [Request -> 0..Chunks]
  /\ radio \in {"free", "lora", "ota"}
  /\ offline \in BOOLEAN /\ dirty \in BOOLEAN
  /\ held \in {"no", "yes", "skipped"}
  /\ lost \in {"none", "cut", "skipped", "unmountable", "unwritten"}
  /\ lock \in {"free", "saver", "finish"}
  /\ saver \in {"idle", "checked", "inside"}
  /\ finish \in {"none", "delay", "unmounted", "restored", "stuck"}
  /\ image \in {"good", "torn", "new"}
  /\ disk \in 0..MaxSaves + 1 /\ user \in 1..MaxSaves + 1
  /\ kept \in 0..MaxSaves + 1 /\ backup \in 0..MaxSaves + 1
  /\ streaming \in 0..2
  /\ uploads \in 0..MaxUploads /\ reboots \in 0..MaxReboots

\* Contract of support_method.cpp:31-35: no settings file is read or written
\* while an image is being written, not even by a task that had looked at the
\* flag before and waited for the lock since.
NoSaveDuringUpdate == saver = "inside" => ~offline

\* "User settings carried across a LittleFS OTA" (web_validate.h:265): whenever
\* the file system is in use the file holds what the user saved last, also after
\* updates, failed updates and retries, unless one of four things befell it since:
\* a reboot between erasing and restoring, a snapshot that had to leave it out, an
\* image that cannot be mounted, or a restore that could not be written.
SettingsCarried == ~offline /\ lost = "none" => disk = user

\* The file system is offline exactly as long as an update needs it: from before
\* the first byte is overwritten until the reboot, or until an upload that has
\* overwritten nothing ends.
OfflineExactly ==
  /\ image # "good" => offline
  /\ offline => dirty \/ (owner # Nobody /\ kind[owner] = "fs")

\* ota_radio_held: the radio is held for an upload under way, or for one that is
\* through and waits for its reboot, in vain when it is stuck; and for nothing else,
\* so it is given back on every path on which an upload fails.
RadioAccounted == radio = "ota" <=> (owner # Nobody \/ finish # "none")

\* An upload cannot silence the radio for ever, unless it is stuck.
RadioComesBack == radio = "ota" ~> radio # "ota" \/ Stuck
=============================================================================
