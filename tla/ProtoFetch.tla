----------------------------- MODULE ProtoFetch -----------------------------
(* protofetch/fetch.go: contracts are staged beside the output directory    *)
(* and swapped in by renames, under a file lock, so that an interrupted run *)
(* can be recovered.  A directory is known by the fetch that filled it.  A  *)
(* process may die between any two system calls; power may fail as well,    *)
(* and the file system then shows the two names and their files as they     *)
(* were at some moment since the parent's last fsync (a journal that keeps  *)
(* the order of changes).  File system, git and generator are external.     *)
EXTENDS Integers

CONSTANTS
    Fetchers,       \* processes that fetch into the same directory
    MaxFetches,     \* bound: fetches started
    MaxCrashes      \* bound: processes killed and power failures

VARIABLES
    disk,           \* the directories called output and backup, and those
                    \* whose files are all there
    past,           \* every disk since the last fsync of the parent
    fetch,          \* per fetcher: pc, own directory, stage, hadOutput, ok
    lock,           \* holder of the flock, Nobody otherwise
    fetches, crashes

protoVars == <<disk, past, fetch, lock, fetches, crashes>>
counters == <<lock, fetches, crashes>>

Absent == 0         \* directories are numbered from 1; 1 may be there at first
Nobody == "nobody"
Idle == [pc |-> "idle", own |-> Absent, stage |-> Absent, hadOutput |-> FALSE, ok |-> FALSE]

Init ==
    /\ \E d \in {Absent, 1} : disk = [output |-> d, backup |-> Absent, whole |-> {1}]
    /\ past = {disk} /\ fetch = [f \in Fetchers |-> Idle] /\ lock = Nobody
    /\ fetches = 1 /\ crashes = 0

At(f, pc) == fetch[f].pc = pc
Go(f, pc) == fetch' = [fetch EXCEPT ![f].pc = pc]
Fail(f) == Go(f, "cleanup")         \* return err: the deferred calls run
Succeed(f) == fetch' = [fetch EXCEPT ![f] = [@ EXCEPT !.pc = "cleanup", !.ok = TRUE]]

Becomes(d) == disk' = d /\ past' = past \cup {d}
Untouched == UNCHANGED <<disk, past>>
SyncOk == past' = {disk} /\ UNCHANGED disk      \* syncDirectory(parent)
SyncFails == Untouched
BackupRenamed == [disk EXCEPT !.output = disk.backup, !.backup = Absent]

(* Fetch up to the lock: options are validated, the lock is waited for.     *)
Lock(f) ==
    /\ At(f, "idle") /\ lock = Nobody /\ fetches < MaxFetches
    /\ lock' = f /\ fetches' = fetches + 1
    /\ fetch' = [fetch EXCEPT ![f] = [Idle EXCEPT !.pc = "recover", !.own = fetches']]
    /\ Untouched /\ UNCHANGED crashes

(* recoverOutput: without a backup nothing was interrupted; without an      *)
(* output the backup is renamed back; with both the swap had happened and   *)
(* the backup is removed, its files before its name.                        *)
Recover(f) ==
    /\ At(f, "recover")
    /\ \/ disk.backup = Absent /\ Go(f, "acquire") /\ Untouched
       \/ /\ disk.backup # Absent /\ disk.output = Absent
          /\ \/ Becomes(BackupRenamed) /\ Go(f, "syncRecovered")
             \/ Untouched /\ Fail(f)
       \/ /\ disk.backup # Absent /\ disk.output # Absent
          /\ Becomes([disk EXCEPT !.whole = @ \ {disk.backup}])
          /\ Go(f, "removeRecovered")
    /\ UNCHANGED counters

(* The end of a RemoveAll; it may fail with files left.                     *)
RemoveBackup(f, at, next) ==
    /\ At(f, at)
    /\ \/ Becomes([disk EXCEPT !.backup = Absent]) /\ Go(f, next)
       \/ Untouched /\ Fail(f)
    /\ UNCHANGED counters
RemoveRecovered(f) == RemoveBackup(f, "removeRecovered", "syncRecovered")

SyncRecovered(f) ==
    /\ At(f, "syncRecovered")
    /\ \/ SyncOk /\ Go(f, "acquire")
       \/ SyncFails /\ Fail(f)
    /\ UNCHANGED counters

(* acquireSource: a clone that fails, grows too large or is cancelled is an *)
(* error; nothing of it reaches the output.                                 *)
AcquireSource(f) ==
    /\ At(f, "acquire")
    /\ \/ fetch' = [fetch EXCEPT ![f] = [@ EXCEPT !.pc = "select", !.stage = fetch[f].own]]
       \/ Fail(f)
    /\ Untouched /\ UNCHANGED counters

(* copyNamedProto or copyFolders into the stage, then the generator.        *)
Select(f) ==
    /\ At(f, "select") /\ (Go(f, "generate") \/ Fail(f))
    /\ Untouched /\ UNCHANGED counters
Generate(f) ==
    /\ At(f, "generate") /\ (Go(f, "syncTree") \/ Fail(f))
    /\ Untouched /\ UNCHANGED counters

(* syncTree: from here the staged files survive a power failure.            *)
SyncTree(f) ==
    /\ At(f, "syncTree")
    /\ \/ Go(f, "moveOld") /\ Becomes([disk EXCEPT !.whole = @ \cup {fetch[f].own}])
       \/ Fail(f) /\ Untouched
    /\ UNCHANGED counters

\* Mutant: the old output is removed before the new one takes its name.
RemoveFirst(f) ==
    /\ At(f, "moveOld") /\ disk.backup = Absent
    /\ Becomes([disk EXCEPT !.output = Absent]) /\ Go(f, "install")
    /\ UNCHANGED counters

(* replaceDirectory: a stale backup is refused, the old output moved aside. *)
MoveOld(f) ==
    /\ At(f, "moveOld")
    /\ \/ disk.backup = Absent /\ disk.output = Absent /\ Go(f, "install") /\ Untouched
       \/ /\ disk.backup = Absent /\ disk.output # Absent
          /\ Becomes([disk EXCEPT !.backup = disk.output, !.output = Absent])
          /\ fetch' = [fetch EXCEPT ![f] = [@ EXCEPT !.pc = "syncOld", !.hadOutput = TRUE]]
       \/ (disk.backup # Absent \/ disk.output # Absent) /\ Fail(f) /\ Untouched
    /\ UNCHANGED counters

SyncOld(f) ==
    /\ At(f, "syncOld")
    /\ \/ SyncOk /\ Go(f, "install")
       \/ SyncFails /\ Go(f, "restore")
    /\ UNCHANGED counters

(* The rename back; its own failure leaves the backup to the next recovery. *)
Restore(f) ==
    /\ At(f, "restore")
    /\ \/ Becomes(BackupRenamed) /\ Go(f, "syncRestored")
       \/ Untouched /\ Fail(f)
    /\ UNCHANGED counters
SyncRestored(f) ==
    /\ At(f, "syncRestored") /\ (SyncOk \/ SyncFails) /\ Fail(f)
    /\ UNCHANGED counters

(* The stage takes the output's name.                                       *)
Install(f) ==
    /\ At(f, "install")
    /\ \/ /\ Becomes([disk EXCEPT !.output = fetch[f].stage])
          /\ fetch' = [fetch EXCEPT ![f] = [@ EXCEPT !.pc = "syncInstalled", !.stage = Absent]]
       \/ Untouched /\ Go(f, IF fetch[f].hadOutput THEN "restore" ELSE "cleanup")
    /\ UNCHANGED counters

\* Mutant: the swap is reported, or the old output removed, before it is synced.
InstallUnsynced(f) ==
    /\ At(f, "syncInstalled") /\ Untouched
    /\ IF fetch[f].hadOutput THEN Go(f, "emptyBackup") ELSE Succeed(f)
    /\ UNCHANGED counters

SyncInstalled(f) ==
    /\ At(f, "syncInstalled")
    /\ \/ SyncOk /\ (IF fetch[f].hadOutput THEN Go(f, "emptyBackup") ELSE Succeed(f))
       \/ SyncFails /\ Go(f, "uninstall")
    /\ UNCHANGED counters

(* rollbackInstalledDirectory: output back to stage, backup back to output; *)
(* when that fails the new output is put in place again.                    *)
Uninstall(f) ==
    /\ At(f, "uninstall")
    /\ \/ /\ Becomes([disk EXCEPT !.output = Absent])
          /\ fetch' = [fetch EXCEPT ![f] = [@ EXCEPT !.stage = disk.output,
                          !.pc = IF fetch[f].hadOutput THEN "putBack" ELSE "syncRestored"]]
       \/ Untouched /\ Fail(f)
    /\ UNCHANGED counters
PutBack(f) ==
    /\ At(f, "putBack")
    /\ \/ Becomes(BackupRenamed) /\ Go(f, "syncRestored")
       \/ /\ Becomes([disk EXCEPT !.output = fetch[f].stage])
          /\ fetch' = [fetch EXCEPT ![f] = [@ EXCEPT !.pc = "cleanup", !.stage = Absent]]
       \/ Untouched /\ Fail(f)
    /\ UNCHANGED counters

(* The old output is removed; the files go first, the name after them.      *)
EmptyBackup(f) ==
    /\ At(f, "emptyBackup") /\ Go(f, "removeBackup")
    /\ Becomes([disk EXCEPT !.whole = @ \ {disk.backup}])
    /\ UNCHANGED counters
RemoveOld(f) == RemoveBackup(f, "removeBackup", "syncRemoved")
SyncRemoved(f) ==
    /\ At(f, "syncRemoved")
    /\ \/ SyncOk /\ Succeed(f)
       \/ SyncFails /\ Fail(f)
    /\ UNCHANGED counters

(* The deferred calls: the stage, if it still has that name, is removed and *)
(* the lock released.                                                       *)
Cleanup(f) ==
    /\ At(f, "cleanup") /\ lock' = Nobody
    /\ Becomes([disk EXCEPT !.whole = @ \ {fetch[f].stage}])
    /\ fetch' = [fetch EXCEPT ![f] = Idle]
    /\ UNCHANGED <<fetches, crashes>>

(* A killed process runs no deferred call; the system drops its flock.      *)
Kill(f) ==
    /\ crashes < MaxCrashes /\ crashes' = crashes + 1 /\ ~At(f, "idle")
    /\ fetch' = [fetch EXCEPT ![f] = Idle] /\ lock' = Nobody
    /\ Untouched /\ UNCHANGED fetches

(* Power fails: everyone is gone, and what the disk shows is in its past.   *)
PowerFails ==
    /\ crashes < MaxCrashes /\ crashes' = crashes + 1
    /\ fetch' = [f \in Fetchers |-> Idle] /\ lock' = Nobody
    /\ disk' \in past /\ past' = {disk'}
    /\ UNCHANGED fetches

Step(f) ==
    \/ Lock(f) \/ Recover(f) \/ RemoveRecovered(f) \/ SyncRecovered(f)
    \/ AcquireSource(f) \/ Select(f) \/ Generate(f) \/ SyncTree(f)
    \/ MoveOld(f) \/ SyncOld(f) \/ Restore(f) \/ SyncRestored(f)
    \/ Install(f) \/ SyncInstalled(f) \/ Uninstall(f) \/ PutBack(f)
    \/ EmptyBackup(f) \/ RemoveOld(f) \/ SyncRemoved(f) \/ Cleanup(f)
Next == (\E f \in Fetchers : Step(f) \/ Kill(f)) \/ PowerFails

Spec == Init /\ [][Next]_protoVars

(* Wherever a fetch stops, the contracts are there: the output is a complete*)
(* set, or it has no name and the backup, which the next fetch puts back, is*)
(* complete.  A fetch that reports success has its own set installed,       *)
(* durably, and no backup left.                                             *)
ContractsNeverLost ==
    /\ disk.output # Absent => disk.output \in disk.whole
    /\ disk.output = Absent /\ disk.backup # Absent => disk.backup \in disk.whole
    /\ \A f \in Fetchers : At(f, "cleanup") /\ fetch[f].ok =>
           \A d \in past : d.output = fetch[f].own /\ d.backup = Absent

(* Contracts that are durably there never go away: once no failure can       *)
(* bring back an empty directory, every step leaves the output or a backup,  *)
(* so a fetch replaces the set it found and is never the loss of it.         *)
There(d) == d.output # Absent \/ d.backup # Absent
HasContracts == \A d \in past : There(d)
KeepsContracts == HasContracts => HasContracts'
=============================================================================
