--------------------------- MODULE FsUpdate_proofs ---------------------------
(***************************************************************************)
(* The safety invariants of FsUpdate, for any number of requests, chunks   *)
(* and bounds.  One inductive invariant carries them all.                  *)
(***************************************************************************)
EXTENDS FsUpdate, TLAPS

\* The lock is held by the saver that is inside, or by the task between unmounting
\* and restoring, and by nobody else.
LockOwned ==
  /\ lock = "saver" <=> saver = "inside"
  /\ lock = "finish" <=> finish = "unmounted"

\* The owner is an upload under way, before any reboot is due; one for the file
\* system has taken it offline.
OwnerUploads ==
  owner # Nobody =>
    /\ status[owner] = "running"
    /\ finish = "none"
    /\ kind[owner] = "fs" => offline

\* The partition is overwritten exactly when ota_fs_dirty says so; that takes the
\* file system offline, and the first piece is enough.
DirtyIsOffline ==
  /\ dirty <=> image # "good"
  /\ dirty => offline
  /\ owner # Nobody /\ kind[owner] = "fs" /\ got[owner] > 0 => dirty
  /\ finish \in {"delay", "unmounted"} => image = "new"
  /\ image = "new" => finish # "none"

\* Where the file is: on the disk while that is whole, in the snapshot from the
\* moment an update may write until it is restored.  A snapshot that has it not has
\* left it out.
Held == (held = "yes" /\ kept = user) \/ held = "skipped"

SettingsAreSomewhere ==
  lost = "none" =>
    /\ image = "good" => disk = user
    /\ image = "torn" => Held
    /\ owner # Nobody /\ kind[owner] = "fs" => Held
    /\ finish \in {"delay", "unmounted"} => Held
    /\ image = "new" /\ finish = "restored" => disk = user

\* A save that has begun is within the bound of the exploration.
SaveWithinBound == saver # "idle" => user < MaxSaves + 1

\* TypeOK, in the parts the steps below are proved by.
RequestsTyped ==
  /\ status \in [Request -> {"none", "running", "over"}]
  /\ kind \in [Request -> {"flash", "fs"}]
  /\ got \in [Request -> 0..Chunks]

NumbersTyped ==
  /\ disk \in 0..MaxSaves + 1 /\ user \in 1..MaxSaves + 1
  /\ kept \in 0..MaxSaves + 1 /\ backup \in 0..MaxSaves + 1
  /\ streaming \in 0..2
  /\ uploads \in 0..MaxUploads /\ reboots \in 0..MaxReboots

StatesTyped ==
  /\ owner \in Request \cup {Nobody}
  /\ radio \in {"free", "lora", "ota"}
  /\ offline \in BOOLEAN /\ dirty \in BOOLEAN
  /\ held \in {"no", "yes", "skipped"}
  /\ lost \in {"none", "cut", "skipped", "unmountable", "unwritten"}
  /\ lock \in {"free", "saver", "finish"}
  /\ saver \in {"idle", "checked", "inside"}
  /\ finish \in {"none", "delay", "unmounted", "restored", "stuck"}
  /\ image \in {"good", "torn", "new"}

UpdateInv ==
  /\ TypeOK
  /\ SaveWithinBound
  /\ LockOwned
  /\ OwnerUploads
  /\ DirtyIsOffline
  /\ NoSaveDuringUpdate
  /\ OfflineExactly
  /\ RadioAccounted
  /\ SettingsAreSomewhere
-----------------------------------------------------------------------------
\* An upload that is refused, admitted, or fails at once (ota_admit, Update.begin).
LEMMA UploadKeeps ==
  ASSUME UpdateInv, NEW r \in Request, Upload(r)
  PROVE  UpdateInv'
<1> USE FsUpdateAssumption DEF UpdateInv, Upload, Refused, FsBusy, Admitted, Snapshot, BeginFails, Abort, ClearSnapshot, snapshot, ota, file
<1>1. TypeOK'
  <2>1. RequestsTyped'
    BY DEF TypeOK, RequestsTyped
  <2>2. NumbersTyped'
    BY DEF TypeOK, NumbersTyped, SaveWithinBound
  <2>3. StatesTyped'
    <3>1. /\ owner' \in Request \cup {Nobody} /\ radio' \in {"free", "lora", "ota"}
          /\ lock' \in {"free", "saver", "finish"} /\ saver' \in {"idle", "checked", "inside"}
      BY SMTT(30) DEF TypeOK, StatesTyped
    <3>2. offline' \in BOOLEAN /\ dirty' \in BOOLEAN
      BY ZenonT(30) DEF TypeOK, StatesTyped
    <3>3. /\ finish' \in {"none", "delay", "unmounted", "restored", "stuck"}
          /\ image' \in {"good", "torn", "new"}
          /\ held' \in {"no", "yes", "skipped"}
          /\ lost' \in {"none", "cut", "skipped", "unmountable", "unwritten"}
      BY SMTT(30) DEF TypeOK, StatesTyped
    <3>4. QED
      BY <3>1, <3>2, <3>3 DEF StatesTyped
  <2> QED  BY <2>1, <2>2, <2>3 DEF TypeOK, RequestsTyped, NumbersTyped, StatesTyped
<1>2. SaveWithinBound'
  BY DEF SaveWithinBound
<1>3. LockOwned'
  BY DEF LockOwned
<1>4. OwnerUploads'
  BY DEF OwnerUploads, TypeOK, RadioAccounted
<1>5. DirtyIsOffline'
  BY DEF DirtyIsOffline, TypeOK, OwnerUploads, OfflineExactly, RadioAccounted
<1>6. NoSaveDuringUpdate'
  BY DEF NoSaveDuringUpdate, LockOwned, OwnerUploads, DirtyIsOffline
<1>7. OfflineExactly'
  BY DEF OfflineExactly, TypeOK, OwnerUploads, DirtyIsOffline
<1>8. RadioAccounted'
  BY DEF RadioAccounted, TypeOK, OwnerUploads
<1>9. SettingsAreSomewhere'
  BY DEF SettingsAreSomewhere, Held, TypeOK, LockOwned, OwnerUploads, DirtyIsOffline,
     NoSaveDuringUpdate, OfflineExactly, RadioAccounted
<1> QED  BY <1>1, <1>2, <1>3, <1>4, <1>5, <1>6, <1>7, <1>8, <1>9

\* A piece is written or fails.
LEMMA ChunkKeeps ==
  ASSUME UpdateInv, NEW r \in Request, Chunk(r)
  PROVE  UpdateInv'
<1> USE FsUpdateAssumption DEF UpdateInv, Chunk, Running, Abort, ClearSnapshot, snapshot, ota, file
<1>1. TypeOK'
  <2>1. RequestsTyped'
    BY DEF TypeOK, RequestsTyped
  <2>2. NumbersTyped'
    BY DEF TypeOK, NumbersTyped, SaveWithinBound
  <2>3. StatesTyped'
    <3>1. /\ owner' \in Request \cup {Nobody} /\ radio' \in {"free", "lora", "ota"}
          /\ lock' \in {"free", "saver", "finish"} /\ saver' \in {"idle", "checked", "inside"}
      BY SMTT(30) DEF TypeOK, StatesTyped
    <3>2. offline' \in BOOLEAN /\ dirty' \in BOOLEAN
      BY ZenonT(30) DEF TypeOK, StatesTyped
    <3>3. /\ finish' \in {"none", "delay", "unmounted", "restored", "stuck"}
          /\ image' \in {"good", "torn", "new"}
          /\ held' \in {"no", "yes", "skipped"}
          /\ lost' \in {"none", "cut", "skipped", "unmountable", "unwritten"}
      BY SMTT(30) DEF TypeOK, StatesTyped
    <3>4. QED
      BY <3>1, <3>2, <3>3 DEF StatesTyped
  <2> QED  BY <2>1, <2>2, <2>3 DEF TypeOK, RequestsTyped, NumbersTyped, StatesTyped
<1>2. SaveWithinBound'
  BY DEF SaveWithinBound
<1>3. LockOwned'
  BY DEF LockOwned
<1>4. OwnerUploads'
  BY DEF OwnerUploads, TypeOK, RadioAccounted
<1>5. DirtyIsOffline'
  BY DEF DirtyIsOffline, TypeOK, OwnerUploads, OfflineExactly, RadioAccounted
<1>6. NoSaveDuringUpdate'
  BY DEF NoSaveDuringUpdate, LockOwned, OwnerUploads, DirtyIsOffline
<1>7. OfflineExactly'
  BY DEF OfflineExactly, TypeOK, OwnerUploads, DirtyIsOffline
<1>8. RadioAccounted'
  BY DEF RadioAccounted, TypeOK, OwnerUploads
<1>9. SettingsAreSomewhere'
  BY DEF SettingsAreSomewhere, Held, TypeOK, LockOwned, OwnerUploads, DirtyIsOffline,
     NoSaveDuringUpdate, OfflineExactly, RadioAccounted
<1> QED  BY <1>1, <1>2, <1>3, <1>4, <1>5, <1>6, <1>7, <1>8, <1>9

\* The last piece: the reboot is scheduled, or the upload undone.
LEMMA FinalKeeps ==
  ASSUME UpdateInv, NEW r \in Request, Final(r)
  PROVE  UpdateInv'
<1> USE FsUpdateAssumption DEF UpdateInv, Final, Running, Abort, ClearSnapshot, snapshot, ota, file
<1>1. TypeOK'
  <2>1. RequestsTyped'
    BY DEF TypeOK, RequestsTyped
  <2>2. NumbersTyped'
    BY DEF TypeOK, NumbersTyped, SaveWithinBound
  <2>3. StatesTyped'
    <3>1. /\ owner' \in Request \cup {Nobody} /\ radio' \in {"free", "lora", "ota"}
          /\ lock' \in {"free", "saver", "finish"} /\ saver' \in {"idle", "checked", "inside"}
      BY SMTT(30) DEF TypeOK, StatesTyped
    <3>2. offline' \in BOOLEAN /\ dirty' \in BOOLEAN
      BY ZenonT(30) DEF TypeOK, StatesTyped
    <3>3. /\ finish' \in {"none", "delay", "unmounted", "restored", "stuck"}
          /\ image' \in {"good", "torn", "new"}
          /\ held' \in {"no", "yes", "skipped"}
          /\ lost' \in {"none", "cut", "skipped", "unmountable", "unwritten"}
      BY SMTT(30) DEF TypeOK, StatesTyped
    <3>4. QED
      BY <3>1, <3>2, <3>3 DEF StatesTyped
  <2> QED  BY <2>1, <2>2, <2>3 DEF TypeOK, RequestsTyped, NumbersTyped, StatesTyped
<1>2. SaveWithinBound'
  BY DEF SaveWithinBound
<1>3. LockOwned'
  BY DEF LockOwned, OwnerUploads, TypeOK
<1>4. OwnerUploads'
  BY DEF OwnerUploads, TypeOK, RadioAccounted
<1>5. DirtyIsOffline'
  BY DEF DirtyIsOffline, TypeOK, OwnerUploads, OfflineExactly, RadioAccounted
<1>6. NoSaveDuringUpdate'
  BY DEF NoSaveDuringUpdate, LockOwned, OwnerUploads, DirtyIsOffline
<1>7. OfflineExactly'
  BY DEF OfflineExactly, TypeOK, OwnerUploads, DirtyIsOffline
<1>8. RadioAccounted'
  BY DEF RadioAccounted, TypeOK, OwnerUploads
<1>9. SettingsAreSomewhere'
  BY DEF SettingsAreSomewhere, Held, TypeOK, LockOwned, OwnerUploads, DirtyIsOffline,
     NoSaveDuringUpdate, OfflineExactly, RadioAccounted
<1> QED  BY <1>1, <1>2, <1>3, <1>4, <1>5, <1>6, <1>7, <1>8, <1>9

\* The request goes away.
LEMMA RequestEndsKeeps ==
  ASSUME UpdateInv, NEW r \in Request, RequestEnds(r)
  PROVE  UpdateInv'
<1> USE FsUpdateAssumption DEF UpdateInv, RequestEnds, Abort, ClearSnapshot, snapshot, ota, file
<1>1. TypeOK'
  <2>1. RequestsTyped'
    BY DEF TypeOK, RequestsTyped
  <2>2. NumbersTyped'
    BY DEF TypeOK, NumbersTyped, SaveWithinBound
  <2>3. StatesTyped'
    <3>1. /\ owner' \in Request \cup {Nobody} /\ radio' \in {"free", "lora", "ota"}
          /\ lock' \in {"free", "saver", "finish"} /\ saver' \in {"idle", "checked", "inside"}
      BY SMTT(30) DEF TypeOK, StatesTyped
    <3>2. offline' \in BOOLEAN /\ dirty' \in BOOLEAN
      BY ZenonT(30) DEF TypeOK, StatesTyped
    <3>3. /\ finish' \in {"none", "delay", "unmounted", "restored", "stuck"}
          /\ image' \in {"good", "torn", "new"}
          /\ held' \in {"no", "yes", "skipped"}
          /\ lost' \in {"none", "cut", "skipped", "unmountable", "unwritten"}
      BY SMTT(30) DEF TypeOK, StatesTyped
    <3>4. QED
      BY <3>1, <3>2, <3>3 DEF StatesTyped
  <2> QED  BY <2>1, <2>2, <2>3 DEF TypeOK, RequestsTyped, NumbersTyped, StatesTyped
<1>2. SaveWithinBound'
  BY DEF SaveWithinBound
<1>3. LockOwned'
  BY DEF LockOwned
<1>4. OwnerUploads'
  BY DEF OwnerUploads, TypeOK, RadioAccounted
<1>5. DirtyIsOffline'
  BY DEF DirtyIsOffline, TypeOK, OwnerUploads, OfflineExactly, RadioAccounted
<1>6. NoSaveDuringUpdate'
  BY DEF NoSaveDuringUpdate, LockOwned, OwnerUploads, DirtyIsOffline
<1>7. OfflineExactly'
  BY DEF OfflineExactly, TypeOK, OwnerUploads, DirtyIsOffline
<1>8. RadioAccounted'
  BY DEF RadioAccounted, TypeOK, OwnerUploads
<1>9. SettingsAreSomewhere'
  BY DEF SettingsAreSomewhere, Held, TypeOK, LockOwned, OwnerUploads, DirtyIsOffline,
     NoSaveDuringUpdate, OfflineExactly, RadioAccounted
<1> QED  BY <1>1, <1>2, <1>3, <1>4, <1>5, <1>6, <1>7, <1>8, <1>9

\* ota_finish_task.
LEMMA FinishKeeps ==
  ASSUME UpdateInv, Finish
  PROVE  UpdateInv'
<1> USE FsUpdateAssumption DEF UpdateInv, Finish, FinishUnmounts, FinishRestores, FinishReboots, Boot, ClearSnapshot, WriteBack, snapshot, ota, file
<1>1. TypeOK'
  <2>1. RequestsTyped'
    BY DEF TypeOK, RequestsTyped
  <2>2. NumbersTyped'
    BY DEF TypeOK, NumbersTyped, SaveWithinBound
  <2>3. StatesTyped'
    <3>1. /\ owner' \in Request \cup {Nobody} /\ radio' \in {"free", "lora", "ota"}
          /\ lock' \in {"free", "saver", "finish"} /\ saver' \in {"idle", "checked", "inside"}
      BY SMTT(30) DEF TypeOK, StatesTyped
    <3>2. offline' \in BOOLEAN /\ dirty' \in BOOLEAN
      BY ZenonT(30) DEF TypeOK, StatesTyped
    <3>3. /\ finish' \in {"none", "delay", "unmounted", "restored", "stuck"}
          /\ image' \in {"good", "torn", "new"}
          /\ held' \in {"no", "yes", "skipped"}
          /\ lost' \in {"none", "cut", "skipped", "unmountable", "unwritten"}
      BY SMTT(30) DEF TypeOK, StatesTyped
    <3>4. QED
      BY <3>1, <3>2, <3>3 DEF StatesTyped
  <2> QED  BY <2>1, <2>2, <2>3 DEF TypeOK, RequestsTyped, NumbersTyped, StatesTyped
<1>2. SaveWithinBound'
  BY DEF SaveWithinBound
<1>3. LockOwned'
  BY DEF LockOwned, NoSaveDuringUpdate, DirtyIsOffline, TypeOK
<1>4. OwnerUploads'
  BY DEF OwnerUploads, TypeOK, RadioAccounted
<1>5. DirtyIsOffline'
  BY DEF DirtyIsOffline, TypeOK, OwnerUploads, OfflineExactly, RadioAccounted
<1>6. NoSaveDuringUpdate'
  BY DEF NoSaveDuringUpdate, LockOwned, OwnerUploads, DirtyIsOffline
<1>7. OfflineExactly'
  BY DEF OfflineExactly, TypeOK, OwnerUploads, DirtyIsOffline
<1>8. RadioAccounted'
  BY DEF RadioAccounted, TypeOK, OwnerUploads
<1>9. SettingsAreSomewhere'
  BY DEF SettingsAreSomewhere, Held, TypeOK, LockOwned, OwnerUploads, DirtyIsOffline,
     NoSaveDuringUpdate, OfflineExactly, RadioAccounted
<1> QED  BY <1>1, <1>2, <1>3, <1>4, <1>5, <1>6, <1>7, <1>8, <1>9

\* A reboot from outside.
LEMMA RebootKeeps ==
  ASSUME UpdateInv, Reboot
  PROVE  UpdateInv'
<1> USE FsUpdateAssumption DEF UpdateInv, Reboot, Boot, ClearSnapshot, WriteBack, snapshot, ota, file
<1>1. TypeOK'
  <2>1. RequestsTyped'
    BY DEF TypeOK, RequestsTyped
  <2>2. NumbersTyped'
    BY DEF TypeOK, NumbersTyped, SaveWithinBound
  <2>3. StatesTyped'
    <3>1. /\ owner' \in Request \cup {Nobody} /\ radio' \in {"free", "lora", "ota"}
          /\ lock' \in {"free", "saver", "finish"} /\ saver' \in {"idle", "checked", "inside"}
      BY SMTT(30) DEF TypeOK, StatesTyped
    <3>2. offline' \in BOOLEAN /\ dirty' \in BOOLEAN
      BY ZenonT(30) DEF TypeOK, StatesTyped
    <3>3. /\ finish' \in {"none", "delay", "unmounted", "restored", "stuck"}
          /\ image' \in {"good", "torn", "new"}
          /\ held' \in {"no", "yes", "skipped"}
          /\ lost' \in {"none", "cut", "skipped", "unmountable", "unwritten"}
      BY SMTT(30) DEF TypeOK, StatesTyped
    <3>4. QED
      BY <3>1, <3>2, <3>3 DEF StatesTyped
  <2> QED  BY <2>1, <2>2, <2>3 DEF TypeOK, RequestsTyped, NumbersTyped, StatesTyped
<1>2. SaveWithinBound'
  BY DEF SaveWithinBound
<1>3. LockOwned'
  BY DEF LockOwned
<1>4. OwnerUploads'
  BY DEF OwnerUploads, TypeOK, RadioAccounted
<1>5. DirtyIsOffline'
  BY DEF DirtyIsOffline, TypeOK, OwnerUploads, OfflineExactly, RadioAccounted
<1>6. NoSaveDuringUpdate'
  BY DEF NoSaveDuringUpdate, LockOwned, OwnerUploads, DirtyIsOffline
<1>7. OfflineExactly'
  BY DEF OfflineExactly, TypeOK, OwnerUploads, DirtyIsOffline
<1>8. RadioAccounted'
  BY DEF RadioAccounted, TypeOK, OwnerUploads
<1>9. SettingsAreSomewhere'
  BY DEF SettingsAreSomewhere, Held, TypeOK, LockOwned, OwnerUploads, DirtyIsOffline,
     NoSaveDuringUpdate, OfflineExactly, RadioAccounted
<1> QED  BY <1>1, <1>2, <1>3, <1>4, <1>5, <1>6, <1>7, <1>8, <1>9

\* A settings save.
LEMMA SaverKeeps ==
  ASSUME UpdateInv, Saver
  PROVE  UpdateInv'
<1> USE FsUpdateAssumption DEF UpdateInv, Saver, SaverChecks, SaverEnters, SaverTimesOut, SaverWrites, snapshot, ota, file
<1>1. TypeOK'
  <2>1. RequestsTyped'
    BY DEF TypeOK, RequestsTyped
  <2>2. NumbersTyped'
    BY DEF TypeOK, NumbersTyped, SaveWithinBound
  <2>3. StatesTyped'
    <3>1. /\ owner' \in Request \cup {Nobody} /\ radio' \in {"free", "lora", "ota"}
          /\ lock' \in {"free", "saver", "finish"} /\ saver' \in {"idle", "checked", "inside"}
      BY SMTT(30) DEF TypeOK, StatesTyped
    <3>2. offline' \in BOOLEAN /\ dirty' \in BOOLEAN
      BY ZenonT(30) DEF TypeOK, StatesTyped
    <3>3. /\ finish' \in {"none", "delay", "unmounted", "restored", "stuck"}
          /\ image' \in {"good", "torn", "new"}
          /\ held' \in {"no", "yes", "skipped"}
          /\ lost' \in {"none", "cut", "skipped", "unmountable", "unwritten"}
      BY SMTT(30) DEF TypeOK, StatesTyped
    <3>4. QED
      BY <3>1, <3>2, <3>3 DEF StatesTyped
  <2> QED  BY <2>1, <2>2, <2>3 DEF TypeOK, RequestsTyped, NumbersTyped, StatesTyped
<1>2. SaveWithinBound'
  BY DEF SaveWithinBound
<1>3. LockOwned'
  BY DEF LockOwned
<1>4. OwnerUploads'
  BY DEF OwnerUploads, TypeOK, RadioAccounted
<1>5. DirtyIsOffline'
  BY DEF DirtyIsOffline, TypeOK, OwnerUploads, OfflineExactly, RadioAccounted
<1>6. NoSaveDuringUpdate'
  BY DEF NoSaveDuringUpdate, LockOwned, OwnerUploads, DirtyIsOffline
<1>7. OfflineExactly'
  BY DEF OfflineExactly, TypeOK, OwnerUploads, DirtyIsOffline
<1>8. RadioAccounted'
  BY DEF RadioAccounted, TypeOK, OwnerUploads
<1>9. SettingsAreSomewhere'
  BY DEF SettingsAreSomewhere, Held, TypeOK, LockOwned, OwnerUploads, DirtyIsOffline,
     NoSaveDuringUpdate, OfflineExactly, RadioAccounted
<1> QED  BY <1>1, <1>2, <1>3, <1>4, <1>5, <1>6, <1>7, <1>8, <1>9

\* File responses, the LoRa tasks, and the uploads a stuck board refuses.
LEMMA OthersKeeps ==
  ASSUME UpdateInv, Stream \/ Lora \/ StaysStuck
  PROVE  UpdateInv'
<1> USE FsUpdateAssumption DEF UpdateInv, Stream, Lora, StreamStarts, StreamReads, LoraTakes, LoraGives, StaysStuck, vars, snapshot, ota, file
<1>1. TypeOK'
  <2>1. RequestsTyped'
    BY DEF TypeOK, RequestsTyped
  <2>2. NumbersTyped'
    BY DEF TypeOK, NumbersTyped, SaveWithinBound
  <2>3. StatesTyped'
    <3>1. /\ owner' \in Request \cup {Nobody} /\ radio' \in {"free", "lora", "ota"}
          /\ lock' \in {"free", "saver", "finish"} /\ saver' \in {"idle", "checked", "inside"}
      BY SMTT(30) DEF TypeOK, StatesTyped
    <3>2. offline' \in BOOLEAN /\ dirty' \in BOOLEAN
      BY ZenonT(30) DEF TypeOK, StatesTyped
    <3>3. /\ finish' \in {"none", "delay", "unmounted", "restored", "stuck"}
          /\ image' \in {"good", "torn", "new"}
          /\ held' \in {"no", "yes", "skipped"}
          /\ lost' \in {"none", "cut", "skipped", "unmountable", "unwritten"}
      BY SMTT(30) DEF TypeOK, StatesTyped
    <3>4. QED
      BY <3>1, <3>2, <3>3 DEF StatesTyped
  <2> QED  BY <2>1, <2>2, <2>3 DEF TypeOK, RequestsTyped, NumbersTyped, StatesTyped
<1>2. SaveWithinBound'
  BY DEF SaveWithinBound
<1>3. LockOwned'
  BY DEF LockOwned
<1>4. OwnerUploads'
  BY DEF OwnerUploads, TypeOK, RadioAccounted
<1>5. DirtyIsOffline'
  BY DEF DirtyIsOffline, TypeOK, OwnerUploads, OfflineExactly, RadioAccounted
<1>6. NoSaveDuringUpdate'
  BY DEF NoSaveDuringUpdate, LockOwned, OwnerUploads, DirtyIsOffline
<1>7. OfflineExactly'
  BY DEF OfflineExactly, TypeOK, OwnerUploads, DirtyIsOffline
<1>8. RadioAccounted'
  BY DEF RadioAccounted, TypeOK, OwnerUploads
<1>9. SettingsAreSomewhere'
  BY DEF SettingsAreSomewhere, Held, TypeOK, LockOwned, OwnerUploads, DirtyIsOffline,
     NoSaveDuringUpdate, OfflineExactly, RadioAccounted
<1> QED  BY <1>1, <1>2, <1>3, <1>4, <1>5, <1>6, <1>7, <1>8, <1>9

\* The initial states satisfy the invariant.
LEMMA InitHolds == Init => UpdateInv
<1> SUFFICES ASSUME Init PROVE UpdateInv
  OBVIOUS
<1> USE FsUpdateAssumption DEF Init
<1>1. RequestsTyped
  BY DEF RequestsTyped
<1>2. StatesTyped
  BY DEF StatesTyped
<1>3. NumbersTyped /\ SaveWithinBound
  BY DEF NumbersTyped, SaveWithinBound
<1>4. TypeOK
  BY <1>1, <1>2, <1>3 DEF TypeOK, RequestsTyped, NumbersTyped, StatesTyped
<1>5. LockOwned /\ OwnerUploads /\ DirtyIsOffline
  BY DEF LockOwned, OwnerUploads, DirtyIsOffline
<1>6. NoSaveDuringUpdate /\ OfflineExactly /\ RadioAccounted /\ SettingsAreSomewhere
  BY DEF NoSaveDuringUpdate, OfflineExactly, RadioAccounted, SettingsAreSomewhere, Held
<1> QED  BY <1>3, <1>4, <1>5, <1>6 DEF UpdateInv

\* Every step keeps the invariant.
LEMMA NextKeeps == UpdateInv /\ [Next]_vars => UpdateInv'
<1> SUFFICES ASSUME UpdateInv, [Next]_vars PROVE UpdateInv'
  OBVIOUS
<1>1. CASE UNCHANGED vars
  BY <1>1 DEF vars, snapshot, ota, file, UpdateInv, TypeOK, SaveWithinBound, LockOwned, OwnerUploads,
     DirtyIsOffline, NoSaveDuringUpdate, OfflineExactly, RadioAccounted, SettingsAreSomewhere, Held
<1>2. ASSUME NEW r \in Request, Upload(r) \/ Chunk(r) \/ Final(r) \/ RequestEnds(r)
      PROVE  UpdateInv'
  BY <1>2, UploadKeeps, ChunkKeeps, FinalKeeps, RequestEndsKeeps
<1>3. CASE Finish \/ Reboot \/ StaysStuck \/ Saver \/ Stream \/ Lora
  BY <1>3, FinishKeeps, RebootKeeps, SaverKeeps, OthersKeeps
<1> QED  BY <1>1, <1>2, <1>3 DEF Next

\* The invariant of the update, the settings and the radio.
THEOREM UpdateInvariant == Spec => []UpdateInv
<1> QED  BY InitHolds, NextKeeps, PTL DEF Spec

\* Every variable keeps its type.
THEOREM TypeCorrect == Spec => []TypeOK
<1>1. UpdateInv => TypeOK
  BY DEF UpdateInv
<1> QED  BY <1>1, UpdateInvariant, PTL

\* No task is inside the file system while an upload may write it (fs_enter,
\* fs_offline): looking at the flag again under the lock is enough.
THEOREM NobodySavesDuringUpdate == Spec => []NoSaveDuringUpdate
<1>1. UpdateInv => NoSaveDuringUpdate
  BY DEF UpdateInv
<1> QED  BY <1>1, UpdateInvariant, PTL

\* What the user saved is on the disk whenever the file system is in use, unless a
\* reboot cut an update short, the snapshot left the file out, or the new image could
\* not be mounted or written (ota_keep_snapshot, ota_finish_task).
THEOREM SettingsAreCarried == Spec => []SettingsCarried
<1>1. UpdateInv => SettingsCarried
  BY DEF UpdateInv, TypeOK, OfflineExactly, SettingsAreSomewhere, Held, SettingsCarried
<1> QED  BY <1>1, UpdateInvariant, PTL

\* The file system is offline exactly while an update needs it (ota_abort_owner).
THEOREM OfflineOnlyForUpdate == Spec => []OfflineExactly
<1>1. UpdateInv => OfflineExactly
  BY DEF UpdateInv
<1> QED  BY <1>1, UpdateInvariant, PTL

\* The radio mutex is held for an upload, or for one that is through until a reboot,
\* which may never come when no task can be created for it; it is given back on every
\* path on which an upload fails (ota_radio_held).
THEOREM RadioIsAccounted == Spec => []RadioAccounted
<1>1. UpdateInv => RadioAccounted
  BY DEF UpdateInv
<1> QED  BY <1>1, UpdateInvariant, PTL
=============================================================================
