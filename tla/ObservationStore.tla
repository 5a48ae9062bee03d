-------------------------- MODULE ObservationStore --------------------------
(***************************************************************************)
(* The on-disk lifecycle of observation records: start_observation,        *)
(* finish_observation and invalidate_observation of wiki_observations.py,  *)
(* each call a CLI process of its own, interleaved at the granularity of   *)
(* the file-system calls that other processes, a kill or a power loss can  *)
(* come between.                                                           *)
(*                                                                         *)
(* A directory entry is modelled by the inode it names.  The content of an *)
(* inode never changes once it is linked under a public name, so an inode  *)
(* is identified with the version of the record it holds: the start that   *)
(* wrote the draft and, once it is final, the finish that completed it.    *)
(***************************************************************************)
EXTENDS Naturals

CONSTANTS
  Starters,      (* the calls of `observe start`                            *)
  Finishers,     (* the calls of `observe finish`                           *)
  Invalidators,  (* the calls of `observe invalidate`                       *)
  Runs,          (* the run ids the random generator may draw               *)
  None,          (* "no entry"                                              *)
  StartTries,    (* attempts of start at a unique id (32 in the code)       *)
  ReadTries,     (* attempts at opening a stable record (4 in the code)     *)
  EarlyCallers,  (* may a run be finished while its start is in flight?     *)
  MaxFaults,     (* bound: failing system calls in one behaviour            *)
  MaxSwaps,      (* bound: replacements of a lock file by an outsider       *)
  MaxKills,      (* bound: processes killed                                 *)
  MaxOutages     (* bound: power losses                                     *)

Calls == Starters \cup Finishers \cup Invalidators
Transitions == Finishers \cup Invalidators

ASSUME CallsDisjoint ==
  /\ Starters \cap Finishers = {}
  /\ Starters \cap Invalidators = {}
  /\ Finishers \cap Invalidators = {}
ASSUME BoundsAreNat ==
  /\ StartTries \in Nat \ {0}
  /\ ReadTries \in Nat \ {0}
  /\ MaxFaults \in Nat
  /\ MaxSwaps \in Nat
  /\ MaxKills \in Nat
  /\ MaxOutages \in Nat
  /\ EarlyCallers \in BOOLEAN

Version == [origin : Starters, finish : Finishers \cup {None}]
Draft(c) == [origin |-> c, finish |-> None]
IsDraft(v) == v.finish = None
(* The completed record repeats the metadata and the scope of the draft.   *)
(* Mutant: the draft's own author is overwritten.                          *)
CompletedLosesOrigin(v, c) == [v EXCEPT !.origin = c, !.finish = c]
Completed(v, c) == [v EXCEPT !.finish = c]

ASSUME NoneIsNoVersion == None \notin Version /\ None \notin Calls

VARIABLES
  rec,       (* rec[r]: the inode that <r>.md names, or None               *)
  disk,      (* disk[r]: the entries <r>.md may have after a power loss    *)
  tomb,      (* tomb[r]: the call whose tombstone invalidations/<r>.md is  *)
  tombDisk,  (* tombDisk[r]: the same after a power loss                   *)
  invDir,    (* the invalidations directory: absent, volatile or durable   *)
  lockFile,  (* lockFile[r]: generation of .locks/<r>.lock, 0 if absent    *)
  temps,     (* the calls whose .observation-*.tmp exists                  *)
  tempDisk,  (* the calls whose .observation-*.tmp a power loss may leave  *)
  backup,    (* backup[c]: the inode of c's .observation-backup-*.tmp      *)
  backupDisk,  (* backupDisk[c]: what that entry may be after a power loss *)
  pc,        (* where each call is                                         *)
  run,       (* the run id a call works on                                 *)
  lockFd,    (* the lock-file generation a call has open                   *)
  recFd,     (* the record inode a call has open                           *)
  tries,     (* attempts made in the current retry loop                    *)
  out,       (* what the call reported to its caller                       *)
  budget     (* faults, swaps, kills and outages so far                    *)

dirVars == <<rec, disk, tomb, tombDisk, invDir, tempDisk, backupDisk>>
vars == <<rec, disk, tomb, tombDisk, invDir, tempDisk, backupDisk, lockFile,
          temps, backup, pc, run, lockFd, recFd, tries, out, budget>>

(* The stages of a call in which it holds the run lock, and those in which *)
(* it also holds flock(LOCK_EX) on the record inode it has open.           *)
FinishWriting == {"f.temp", "f.backup", "f.replace", "f.sync", "f.undo",
                  "f.undosync", "f.clean"}
InvalidateWriting == {"i.temp", "i.link", "i.sync", "i.undo", "i.undosync",
                      "i.clean"}
HoldsRecord(c) == pc[c] \in FinishWriting \cup InvalidateWriting
(* Mutants: the lock is dropped once the record is replaced; a rejected    *)
(* call keeps the lock.                                                    *)
HoldsRunLockUntilReplace(c) ==
  pc[c] \in {"open", "read", "f.temp", "f.backup", "f.replace"}
            \cup InvalidateWriting
HoldsRunLockForEver(c) ==
  HoldsRecord(c) \/ pc[c] \in {"open", "read"} \/ out[c] = "rejected"
HoldsRunLock(c) == HoldsRecord(c) \/ pc[c] \in {"open", "read"}
StartStages == {"s.temp", "s.link", "s.sync", "s.undo", "s.undosync",
                "s.clean"}
Stages == {"idle", "done", "lock.open", "lock.wait", "open", "read"}
            \cup StartStages \cup FinishWriting \cup InvalidateWriting
Live(c) == pc[c] \notin {"idle", "done"}

TypeOK ==
  /\ rec \in [Runs -> Version \cup {None}]
  /\ disk \in [Runs -> SUBSET (Version \cup {None})]
  /\ tomb \in [Runs -> Invalidators \cup {None}]
  /\ tombDisk \in [Runs -> SUBSET (Invalidators \cup {None})]
  /\ invDir \in {"absent", "volatile", "durable"}
  /\ lockFile \in [Runs -> Nat]
  /\ temps \in SUBSET Calls
  /\ tempDisk \in SUBSET Calls
  /\ backup \in [Calls -> Version \cup {None}]
  /\ backupDisk \in [Calls -> Version \cup {None}]
  /\ pc \in [Calls -> Stages]
  /\ run \in [Calls -> Runs \cup {None}]
  /\ lockFd \in [Calls -> Nat]
  /\ recFd \in [Calls -> Version \cup {None}]
  /\ tries \in [Calls -> Nat]
  /\ out \in [Calls -> {"none", "ok", "rejected", "uncertain", "killed"}]
  /\ budget \in [faults : Nat, swaps : Nat, kills : Nat, outages : Nat]

Init ==
  /\ rec = [r \in Runs |-> None]
  /\ disk = [r \in Runs |-> {None}]
  /\ tomb = [r \in Runs |-> None]
  /\ tombDisk = [r \in Runs |-> {None}]
  /\ invDir \in {"absent", "durable"}
  /\ lockFile = [r \in Runs |-> 0]
  /\ temps = {}
  /\ tempDisk = {}
  /\ backup = [c \in Calls |-> None]
  /\ backupDisk = [c \in Calls |-> None]
  /\ pc = [c \in Calls |-> "idle"]
  /\ run = [c \in Calls |-> None]
  /\ lockFd = [c \in Calls |-> 0]
  /\ recFd = [c \in Calls |-> None]
  /\ tries = [c \in Calls |-> 0]
  /\ out = [c \in Calls |-> "none"]
  /\ budget = [faults |-> 0, swaps |-> 0, kills |-> 0, outages |-> 0]

-----------------------------------------------------------------------------
(* Building blocks.                                                        *)

Goto(c, stage) == pc' = [pc EXCEPT ![c] = stage]

(* The call closes its descriptors, which drops both its flocks, and       *)
(* reports.  "rejected" is an error that promises that nothing changed;    *)
(* "uncertain" is the error of a roll-back that failed itself.             *)
Return(c, outcome) ==
  /\ Goto(c, "done")
  /\ out' = [out EXCEPT ![c] = outcome]

Faults(n) ==
  /\ budget.faults + n <= MaxFaults
  /\ budget' = [budget EXCEPT !.faults = @ + n]
NoFault == UNCHANGED budget

(* _cleanup_temporary: the temporary name is unlinked, or, when the unlink *)
(* fails twice, stays behind.  n system calls of the same step failed.     *)
DropTemp(c, n) ==
  \/ temps' = temps \ {c} /\ Faults(n)
  \/ c \in temps /\ UNCHANGED temps /\ Faults(n + 1)

(* Mutant: nothing is synchronised.                                        *)
SyncNothing(left) == UNCHANGED <<disk, invDir, tempDisk, backupDisk>>
(* fsync on the observations directory, where the backups left are these,  *)
(* or on the invalidations directory.  A temporary or a backup that was    *)
(* unlinked since the last one may still be there after a power loss.      *)
SyncRecords(left) ==
  /\ disk' = [r \in Runs |-> {rec[r]}]
  /\ invDir' = IF invDir = "volatile" THEN "durable" ELSE invDir
  /\ tempDisk' = (tempDisk \cap Invalidators) \cup (temps \ Invalidators)
  /\ backupDisk' = left
SyncTombs ==
  /\ tombDisk' = [r \in Runs |-> {tomb[r]}]
  /\ tempDisk' = (tempDisk \ Invalidators) \cup (temps \cap Invalidators)

(* A rename, link or unlink of <r>.md takes effect at once for the other   *)
(* processes and reaches the disk at some later time.                      *)
SetRecord(r, v) ==
  /\ rec' = [rec EXCEPT ![r] = v]
  /\ disk' = [disk EXCEPT ![r] = @ \cup {v}]
SetTomb(r, v) ==
  /\ tomb' = [tomb EXCEPT ![r] = v]
  /\ tombDisk' = [tombDisk EXCEPT ![r] = @ \cup {v}]

(* _HeldRunLock.verify: the lock entry still names the inode held.         *)
LockIntact(c) == lockFd[c] = lockFile[run[c]]

(* _create_temporary_file, the write and the fsync of its content.         *)
WriteTemp(c, next) ==
  /\ temps' = temps \cup {c}
  /\ tempDisk' = tempDisk \cup {c}
  /\ Goto(c, next)
  /\ NoFault
  /\ UNCHANGED out
WriteTempFails(c) ==
  /\ Return(c, "rejected")
  /\ \/ UNCHANGED temps /\ Faults(1)
     \/ temps' = temps \cup {c} /\ Faults(2)
  /\ tempDisk' = tempDisk \cup {c}

-----------------------------------------------------------------------------
(* start_observation.                                                      *)

(* The request is validated before anything is touched.                    *)
BeginStart(c) ==
  /\ pc[c] = "idle"
  /\ \/ Goto(c, "s.temp") /\ UNCHANGED out
     \/ Return(c, "rejected")
  /\ UNCHANGED <<dirVars, lockFile, temps, backup, run, lockFd, recFd, tries,
                 budget>>

(* One attempt: a random id, and a temporary file with the whole draft.    *)
StartTemp(c) ==
  /\ pc[c] = "s.temp"
  /\ \E r \in Runs : run' = [run EXCEPT ![c] = r]
  /\ WriteTemp(c, "s.link") \/ WriteTempFails(c)
  /\ UNCHANGED <<rec, disk, tomb, tombDisk, invDir, backupDisk, lockFile,
                 backup, lockFd, recFd, tries>>

(* os.link claims the public name exclusively.                             *)
StartClaim(c) ==
  /\ pc[c] = "s.link"
  /\ rec[run[c]] = None
  /\ SetRecord(run[c], Draft(c))
  /\ Goto(c, "s.sync")
  /\ UNCHANGED <<tomb, tombDisk, invDir, tempDisk, backupDisk, lockFile,
                 temps, backup, run, lockFd, recFd, tries, out, budget>>

(* FileExistsError: drop the temporary and try another id.                 *)
StartCollision(c) ==
  /\ pc[c] = "s.link"
  /\ rec[run[c]] # None
  /\ tries' = [tries EXCEPT ![c] = @ + 1]
  /\ \/ /\ temps' = temps \ {c}
        /\ NoFault
        /\ IF tries[c] + 1 = StartTries
           THEN Return(c, "rejected")
           ELSE Goto(c, "s.temp") /\ UNCHANGED out
     \/ UNCHANGED temps /\ Faults(1) /\ Return(c, "rejected")
  /\ UNCHANGED <<dirVars, lockFile, backup, run, lockFd, recFd>>

StartClaimFails(c) ==
  /\ pc[c] = "s.link"
  /\ DropTemp(c, 1)
  /\ Return(c, "rejected")
  /\ UNCHANGED <<dirVars, lockFile, backup, run, lockFd, recFd, tries>>

(* The directory is synchronised: the commit point.  The fsync may fail,   *)
(* or the check after it find the directory moved.                         *)
StartSync(c) ==
  /\ pc[c] = "s.sync"
  /\ \/ SyncRecords(backup) /\ Goto(c, "s.clean") /\ NoFault
     \/ /\ Goto(c, "s.undo") /\ Faults(1)
        /\ \/ SyncRecords(backup)
           \/ UNCHANGED <<disk, invDir, tempDisk, backupDisk>>
  /\ UNCHANGED <<rec, tomb, tombDisk, lockFile, temps, backup, run, lockFd,
                 recFd, tries, out>>

(* Mutant: the claim stays.                                                *)
StartUndoForgets(c) ==
  /\ pc[c] = "s.undo"
  /\ Goto(c, "s.undosync")
  /\ UNCHANGED <<dirVars, lockFile, temps, backup, run, lockFd, recFd, tries,
                 out, budget>>
(* _rollback_claim unlinks the name, whatever inode it names by now.       *)
StartUndo(c) ==
  /\ pc[c] = "s.undo"
  /\ rec[run[c]] # None
  /\ SetRecord(run[c], None)
  /\ Goto(c, "s.undosync")
  /\ UNCHANGED <<tomb, tombDisk, invDir, tempDisk, backupDisk, lockFile,
                 temps, backup, run, lockFd, recFd, tries, out, budget>>

StartUndoFails(c) ==
  /\ pc[c] = "s.undo"
  /\ IF rec[run[c]] = None THEN DropTemp(c, 0) ELSE DropTemp(c, 1)
  /\ Return(c, "uncertain")
  /\ UNCHANGED <<dirVars, lockFile, backup, run, lockFd, recFd, tries>>

StartUndoSync(c) ==
  /\ pc[c] = "s.undosync"
  /\ \/ SyncRecords(backup) /\ DropTemp(c, 0) /\ Return(c, "rejected")
     \/ /\ DropTemp(c, 1) /\ Return(c, "uncertain")
        /\ UNCHANGED <<disk, invDir, tempDisk, backupDisk>>
  /\ UNCHANGED <<rec, tomb, tombDisk, lockFile, backup, run, lockFd, recFd,
                 tries>>

(* After the commit a failing clean-up is swallowed.                       *)
StartClean(c) ==
  /\ pc[c] = "s.clean"
  /\ DropTemp(c, 0)
  /\ Return(c, "ok")
  /\ UNCHANGED <<dirVars, lockFile, backup, run, lockFd, recFd, tries>>

-----------------------------------------------------------------------------
(* The head that finish and invalidate share: _open_run_lock and           *)
(* _read_record_from_directory.                                            *)

(* A start is in flight on r while it may still roll its claim back.       *)
StartPending(r) ==
  \E s \in Starters : run[s] = r /\ pc[s] \in {"s.sync", "s.undo"}

(* A caller learns an id from the start that returned it, or, once the     *)
(* start is over, from a report.  With EarlyCallers it may name any id,    *)
(* one that no start drew yet or that a start in flight just claimed.      *)
BeginTransition(c) ==
  /\ pc[c] = "idle"
  /\ \/ /\ \E r \in Runs :
             /\ EarlyCallers \/ (rec[r] # None /\ ~StartPending(r))
             /\ run' = [run EXCEPT ![c] = r]
        /\ Goto(c, "lock.open")
        /\ UNCHANGED out
     \/ Return(c, "rejected") /\ UNCHANGED run
  /\ UNCHANGED <<dirVars, lockFile, temps, backup, lockFd, recFd, tries,
                 budget>>

(* os.open with O_CREAT on .locks/<run>.lock.                              *)
OpenLock(c) ==
  /\ pc[c] = "lock.open"
  /\ LET r == run[c]
         g == IF lockFile[r] = 0 THEN 1 ELSE lockFile[r]
     IN  /\ lockFile' = [lockFile EXCEPT ![r] = g]
         /\ lockFd' = [lockFd EXCEPT ![c] = g]
  /\ Goto(c, "lock.wait")
  /\ UNCHANGED <<dirVars, temps, backup, run, recFd, tries, out, budget>>

(* flock(LOCK_EX) waits for the holder of the same inode, then verify().   *)
AcquireLock(c) ==
  /\ pc[c] = "lock.wait"
  /\ \A d \in Calls :
       HoldsRunLock(d) => run[d] # run[c] \/ lockFd[d] # lockFd[c]
  /\ IF LockIntact(c)
     THEN Goto(c, "open") /\ UNCHANGED out
     ELSE Return(c, "rejected")
  /\ UNCHANGED <<dirVars, lockFile, temps, backup, run, lockFd, recFd, tries,
                 budget>>

(* verify() again, then the open of <run>.md.                              *)
OpenRecord(c) ==
  /\ pc[c] = "open"
  /\ recFd' = [recFd EXCEPT ![c] = rec[run[c]]]
  /\ IF LockIntact(c) /\ rec[run[c]] # None
     THEN Goto(c, "read") /\ UNCHANGED out
     ELSE Return(c, "rejected")
  /\ UNCHANGED <<dirVars, lockFile, temps, backup, run, lockFd, tries,
                 budget>>

(* Mutant: the open record is not locked.                                  *)
RecordUnlocked(c) == TRUE
RecordFree(c) ==
  \A d \in Calls : HoldsRecord(d) => recFd[d] # recFd[c]

(* flock on the open inode; the name must still lead to it, or the open is *)
(* tried again.  The content must be a draft to be finished and a final    *)
(* record to be invalidated.                                               *)
ReadRecord(c) ==
  /\ pc[c] = "read"
  /\ RecordFree(c)
  /\ rec[run[c]] = recFd[c]
  /\ \/ /\ c \in Finishers
        /\ IsDraft(recFd[c])
        /\ Goto(c, "f.temp")
        /\ UNCHANGED out
     \/ /\ c \in Invalidators
        /\ ~IsDraft(recFd[c])
        /\ Goto(c, "i.temp")
        /\ UNCHANGED out
     \/ /\ c \in Finishers <=> ~IsDraft(recFd[c])
        /\ Return(c, "rejected")
  /\ UNCHANGED <<dirVars, lockFile, temps, backup, run, lockFd, recFd, tries,
                 budget>>

RereadRecord(c) ==
  /\ pc[c] = "read"
  /\ RecordFree(c)
  /\ rec[run[c]] # recFd[c]
  /\ tries' = [tries EXCEPT ![c] = @ + 1]
  /\ IF rec[run[c]] = None \/ tries[c] + 1 = ReadTries
     THEN Return(c, "rejected")
     ELSE Goto(c, "open") /\ UNCHANGED out
  /\ UNCHANGED <<dirVars, lockFile, temps, backup, run, lockFd, recFd,
                 budget>>

(* A system call of the head fails: nothing was changed yet.               *)
HeadFails(c) ==
  /\ pc[c] \in {"lock.open", "lock.wait", "open", "read"}
  /\ Faults(1)
  /\ Return(c, "rejected")
  /\ UNCHANGED <<dirVars, lockFile, temps, backup, run, lockFd, recFd,
                 tries>>

-----------------------------------------------------------------------------
(* finish_observation after the draft was read.                            *)

(* _render_completed_record may refuse the payload; verify() may find the  *)
(* lock replaced; otherwise the completed record goes to a temporary file. *)
FinishTemp(c) ==
  /\ pc[c] = "f.temp"
  /\ \/ LockIntact(c) /\ (WriteTemp(c, "f.backup") \/ WriteTempFails(c))
     \/ Return(c, "rejected") /\ NoFault /\ UNCHANGED <<temps, tempDisk>>
  /\ UNCHANGED <<rec, disk, tomb, tombDisk, invDir, backupDisk, lockFile,
                 backup, run, lockFd, recFd, tries>>

(* verify_guard and _allocate_backup: a second link to the current inode.  *)
FinishBackup(c) ==
  /\ pc[c] = "f.backup"
  /\ \/ /\ LockIntact(c)
        /\ rec[run[c]] # None
        /\ backup' = [backup EXCEPT ![c] = rec[run[c]]]
        /\ backupDisk' = [backupDisk EXCEPT ![c] = rec[run[c]]]
        /\ Goto(c, "f.replace")
        /\ UNCHANGED <<temps, out, budget>>
     \/ /\ IF LockIntact(c) /\ rec[run[c]] # None
           THEN DropTemp(c, 1)
           ELSE DropTemp(c, 0)
        /\ Return(c, "rejected")
        /\ UNCHANGED <<backup, backupDisk>>
  /\ UNCHANGED <<rec, disk, tomb, tombDisk, invDir, tempDisk, lockFile, run,
                 lockFd, recFd, tries>>

(* os.replace moves the temporary over the record.                         *)
FinishReplace(c) ==
  /\ pc[c] = "f.replace"
  /\ SetRecord(run[c], Completed(recFd[c], c))
  /\ temps' = temps \ {c}
  /\ Goto(c, "f.sync")
  /\ UNCHANGED <<tomb, tombDisk, invDir, tempDisk, backupDisk, lockFile,
                 backup, run, lockFd, recFd, tries, out, budget>>

FinishReplaceFails(c) ==
  /\ pc[c] = "f.replace"
  /\ \/ backup' = [backup EXCEPT ![c] = None] /\ DropTemp(c, 1)
     \/ UNCHANGED backup /\ DropTemp(c, 2)
  /\ Return(c, "rejected")
  /\ UNCHANGED <<dirVars, lockFile, run, lockFd, recFd, tries>>

(* verify_guard once more and fsync of the directory: the commit point.    *)
FinishSync(c) ==
  /\ pc[c] = "f.sync"
  /\ \/ LockIntact(c) /\ SyncRecords(backup) /\ Goto(c, "f.clean") /\ NoFault
     \/ /\ ~LockIntact(c) /\ Goto(c, "f.undo") /\ NoFault
        /\ UNCHANGED <<disk, invDir, tempDisk, backupDisk>>
     \/ /\ LockIntact(c) /\ Goto(c, "f.undo") /\ Faults(1)
        /\ \/ SyncRecords(backup)
           \/ UNCHANGED <<disk, invDir, tempDisk, backupDisk>>
  /\ UNCHANGED <<rec, tomb, tombDisk, lockFile, temps, backup, run, lockFd,
                 recFd, tries, out>>

(* The backup is renamed over the record.  When that fails the clean-up    *)
(* removes the backup all the same.                                        *)
FinishUndo(c) ==
  /\ pc[c] = "f.undo"
  /\ SetRecord(run[c], backup[c])
  /\ backup' = [backup EXCEPT ![c] = None]
  /\ Goto(c, "f.undosync")
  /\ UNCHANGED <<tomb, tombDisk, invDir, tempDisk, backupDisk, lockFile,
                 temps, run, lockFd, recFd, tries, out, budget>>

FinishUndoFails(c) ==
  /\ pc[c] = "f.undo"
  /\ \/ backup' = [backup EXCEPT ![c] = None] /\ Faults(1)
     \/ UNCHANGED backup /\ Faults(2)
  /\ Return(c, "uncertain")
  /\ UNCHANGED <<dirVars, lockFile, temps, run, lockFd, recFd, tries>>

FinishUndoSync(c) ==
  /\ pc[c] = "f.undosync"
  /\ \/ SyncRecords(backup) /\ NoFault /\ Return(c, "rejected")
     \/ /\ Faults(1) /\ Return(c, "uncertain")
        /\ UNCHANGED <<disk, invDir, tempDisk, backupDisk>>
  /\ UNCHANGED <<rec, tomb, tombDisk, lockFile, temps, backup, run, lockFd,
                 recFd, tries>>

(* The backup goes; the last fsync and both failures are swallowed.        *)
FinishClean(c) ==
  /\ pc[c] = "f.clean"
  /\ \/ backup' = [backup EXCEPT ![c] = None] /\ NoFault
     \/ UNCHANGED backup /\ Faults(1)
  /\ \/ SyncRecords(backup')
     \/ UNCHANGED <<disk, invDir, tempDisk, backupDisk>>
  /\ Return(c, "ok")
  /\ UNCHANGED <<rec, tomb, tombDisk, lockFile, temps, run, lockFd, recFd,
                 tries>>

-----------------------------------------------------------------------------
(* invalidate_observation after the final record was read.                 *)

(* mkdir of invalidations when needed, and the tombstone's temporary.      *)
InvalidateTemp(c) ==
  /\ pc[c] = "i.temp"
  /\ \/ /\ invDir' = IF invDir = "absent" THEN "volatile" ELSE invDir
        /\ WriteTemp(c, "i.link") \/ WriteTempFails(c)
     \/ /\ invDir = "absent"
        /\ Faults(1)
        /\ Return(c, "rejected")
        /\ UNCHANGED <<invDir, temps, tempDisk>>
  /\ UNCHANGED <<rec, disk, tomb, tombDisk, backupDisk, lockFile, backup,
                 run, lockFd, recFd, tries>>

(* verify() and an exclusive os.link: the first tombstone wins.            *)
InvalidateClaim(c) ==
  /\ pc[c] = "i.link"
  /\ LockIntact(c)
  /\ tomb[run[c]] = None
  /\ SetTomb(run[c], c)
  /\ Goto(c, "i.sync")
  /\ UNCHANGED <<rec, disk, invDir, tempDisk, backupDisk, lockFile, temps,
                 backup, run, lockFd, recFd, tries, out, budget>>

InvalidateClaimFails(c) ==
  /\ pc[c] = "i.link"
  /\ IF LockIntact(c) /\ tomb[run[c]] = None
     THEN DropTemp(c, 1)
     ELSE DropTemp(c, 0)
  /\ Return(c, "rejected")
  /\ UNCHANGED <<dirVars, lockFile, backup, run, lockFd, recFd, tries>>

InvalidateSync(c) ==
  /\ pc[c] = "i.sync"
  /\ \/ LockIntact(c) /\ SyncTombs /\ Goto(c, "i.clean") /\ NoFault
     \/ /\ ~LockIntact(c) /\ Goto(c, "i.undo") /\ NoFault
        /\ UNCHANGED <<tombDisk, tempDisk>>
     \/ /\ LockIntact(c) /\ Goto(c, "i.undo") /\ Faults(1)
        /\ SyncTombs \/ UNCHANGED <<tombDisk, tempDisk>>
  /\ UNCHANGED <<rec, disk, tomb, invDir, backupDisk, lockFile, temps,
                 backup, run, lockFd, recFd, tries, out>>

(* Mutant: the tombstone stays.                                            *)
InvalidateUndoForgets(c) ==
  /\ pc[c] = "i.undo"
  /\ Goto(c, "i.undosync")
  /\ UNCHANGED <<dirVars, lockFile, temps, backup, run, lockFd, recFd, tries,
                 out, budget>>
InvalidateUndo(c) ==
  /\ pc[c] = "i.undo"
  /\ tomb[run[c]] # None
  /\ SetTomb(run[c], None)
  /\ Goto(c, "i.undosync")
  /\ UNCHANGED <<rec, disk, invDir, tempDisk, backupDisk, lockFile, temps,
                 backup, run, lockFd, recFd, tries, out, budget>>

InvalidateUndoFails(c) ==
  /\ pc[c] = "i.undo"
  /\ IF tomb[run[c]] = None THEN DropTemp(c, 0) ELSE DropTemp(c, 1)
  /\ Return(c, "uncertain")
  /\ UNCHANGED <<dirVars, lockFile, backup, run, lockFd, recFd, tries>>

InvalidateUndoSync(c) ==
  /\ pc[c] = "i.undosync"
  /\ \/ SyncTombs /\ DropTemp(c, 0) /\ Return(c, "rejected")
     \/ /\ DropTemp(c, 1) /\ Return(c, "uncertain")
        /\ UNCHANGED <<tombDisk, tempDisk>>
  /\ UNCHANGED <<rec, disk, tomb, invDir, backupDisk, lockFile, backup, run,
                 lockFd, recFd, tries>>

InvalidateClean(c) ==
  /\ pc[c] = "i.clean"
  /\ DropTemp(c, 0)
  /\ Return(c, "ok")
  /\ UNCHANGED <<dirVars, lockFile, backup, run, lockFd, recFd, tries>>

-----------------------------------------------------------------------------
(* The environment.                                                        *)

(* Someone removes or replaces a lock file that calls may hold.            *)
SwapLock(r) ==
  /\ budget.swaps < MaxSwaps
  /\ lockFile[r] # 0
  /\ lockFile' = [lockFile EXCEPT ![r] = @ + 1]
  /\ budget' = [budget EXCEPT !.swaps = @ + 1]
  /\ UNCHANGED <<dirVars, temps, backup, pc, run, lockFd, recFd, tries, out>>

(* The process dies: the kernel drops its flocks, its files stay.          *)
Kill(c) ==
  /\ Live(c)
  /\ budget.kills < MaxKills
  /\ budget' = [budget EXCEPT !.kills = @ + 1]
  /\ Return(c, "killed")
  /\ UNCHANGED <<dirVars, lockFile, temps, backup, run, lockFd, recFd,
                 tries>>

(* Power loss: every process dies and each entry is one the disk may hold. *)
(* A directory that was not synchronised yet goes with all that is in it.  *)
(* A temporary or a backup that was removed may be there again.            *)
Outage ==
  /\ budget.outages < MaxOutages
  /\ budget' = [budget EXCEPT !.outages = @ + 1]
  /\ rec' \in {f \in [Runs -> UNION {disk[r] : r \in Runs}] :
                 \A r \in Runs : f[r] \in disk[r]}
  /\ disk' = [r \in Runs |-> {rec'[r]}]
  /\ \/ /\ invDir = "volatile"
        /\ invDir' = "absent"
        /\ tomb' = [r \in Runs |-> None]
        /\ temps' \in SUBSET (tempDisk \ Invalidators)
     \/ /\ tomb' \in {f \in [Runs -> UNION {tombDisk[r] : r \in Runs}] :
                        \A r \in Runs : f[r] \in tombDisk[r]}
        /\ invDir' = IF invDir = "volatile" THEN "durable" ELSE invDir
        /\ temps' \in SUBSET tempDisk
  /\ tombDisk' = [r \in Runs |-> {tomb'[r]}]
  /\ tempDisk' = temps'
  /\ \E lost \in SUBSET {c \in Calls : backupDisk[c] # None} :
       backup' = [c \in Calls |-> IF c \in lost THEN None ELSE backupDisk[c]]
  /\ backupDisk' = backup'
  /\ pc' = [c \in Calls |-> IF Live(c) THEN "done" ELSE pc[c]]
  /\ out' = [c \in Calls |-> IF Live(c) THEN "killed" ELSE out[c]]
  /\ UNCHANGED <<lockFile, run, lockFd, recFd, tries>>

(* All calls have returned: nothing is left to do.                         *)
Terminated ==
  /\ \A c \in Calls : pc[c] = "done"
  /\ UNCHANGED vars

StartStep(c) ==
  \/ BeginStart(c) \/ StartTemp(c) \/ StartClaim(c) \/ StartCollision(c)
  \/ StartClaimFails(c) \/ StartSync(c) \/ StartUndo(c) \/ StartUndoFails(c)
  \/ StartUndoSync(c) \/ StartClean(c)
HeadStep(c) ==
  \/ BeginTransition(c) \/ OpenLock(c) \/ AcquireLock(c) \/ OpenRecord(c)
  \/ ReadRecord(c) \/ RereadRecord(c) \/ HeadFails(c)
FinishStep(c) ==
  \/ FinishTemp(c) \/ FinishBackup(c) \/ FinishReplace(c)
  \/ FinishReplaceFails(c) \/ FinishSync(c) \/ FinishUndo(c)
  \/ FinishUndoFails(c) \/ FinishUndoSync(c) \/ FinishClean(c)
InvalidateStep(c) ==
  \/ InvalidateTemp(c) \/ InvalidateClaim(c) \/ InvalidateClaimFails(c)
  \/ InvalidateSync(c) \/ InvalidateUndo(c) \/ InvalidateUndoFails(c)
  \/ InvalidateUndoSync(c) \/ InvalidateClean(c)

CallStep(c) ==
  \/ c \in Starters /\ StartStep(c)
  \/ c \in Transitions /\ HeadStep(c)
  \/ c \in Finishers /\ FinishStep(c)
  \/ c \in Invalidators /\ InvalidateStep(c)

Next ==
  \/ \E c \in Calls : CallStep(c) \/ Kill(c)
  \/ \E r \in Runs : SwapLock(r)
  \/ Outage
  \/ Terminated

Spec == Init /\ [][Next]_vars

(* Every process keeps running: the scheduler runs it and flock grants a   *)
(* free lock.  Nothing makes a call begin, fail or be killed.              *)
Fairness == \A c \in Calls : WF_vars(pc[c] # "idle" /\ CallStep(c))
FairSpec == Spec /\ Fairness

-----------------------------------------------------------------------------
(* Properties.                                                             *)

(* A draft whose start returned its id never vanishes, neither from sight  *)
(* nor from the disk: its run holds it, or a final record made from it.    *)
AckedStartStands ==
  \A c \in Starters : out[c] = "ok" =>
    \A v \in disk[run[c]] \cup {rec[run[c]]} : v # None /\ v.origin = c

(* The final record of a finish that returned is the one record of its run *)
(* for ever, in sight and on disk, so no two finishes of a run return and  *)
(* nothing reopens it.  The two locks and the fsync before the commit are  *)
(* there for this.                                                         *)
AckedFinishStands ==
  \A c \in Finishers :
    out[c] = "ok" => /\ rec[run[c]] # None
                     /\ rec[run[c]].finish = c
                     /\ disk[run[c]] = {rec[run[c]]}

(* A call that was rejected left nothing of its own behind, neither in     *)
(* sight nor on disk: "A rejected finish leaves the draft unchanged".  And *)
(* a call that met no failing system call and was not killed, rejected or  *)
(* not, leaves no temporary file for the strict readers to stumble over,   *)
(* until a power loss: the removal of a temporary is not made durable.     *)
NothingIsLeftBehind ==
  \A c \in Calls :
    /\ out[c] = "rejected" =>
         \A r \in Runs :
           /\ \A v \in disk[r] : v # None => c \notin {v.origin, v.finish}
           /\ c \notin tombDisk[r]
    /\ out[c] \in {"ok", "rejected"} /\ budget.faults = 0
         /\ budget.outages = 0 => c \notin temps /\ backup[c] = None

(* A tombstone never points at a draft or at nothing: the readers of the   *)
(* whole store refuse it when one does.                                    *)
TombstoneOnFinal ==
  \A r \in Runs :
    tomb[r] # None => rec[r] # None /\ ~IsDraft(rec[r])

(* A returned invalidation is in force: its tombstone is the run's, in     *)
(* sight and on disk.                                                      *)
AckedTombstoneStands ==
  \A c \in Invalidators :
    out[c] = "ok" => tomb[run[c]] = c /\ tombDisk[run[c]] = {c}

(* The store keeps the promises of RunLedger.  A change that its call may  *)
(* still take back has not happened yet; it happens when the call gets     *)
(* past its fsync, or when it dies or gives up in the middle.              *)
Tentative(c) ==
  pc[c] \in {"s.sync", "s.undo", "f.sync", "f.undo", "i.sync", "i.undo"}
Settled(c) == IF c = None THEN None ELSE IF Tentative(c) THEN None ELSE c

Ledger == INSTANCE RunLedger WITH
  started <- [r \in Runs |-> IF rec[r] = None THEN None
                             ELSE Settled(rec[r].origin)],
  finished <- [r \in Runs |-> IF rec[r] = None THEN None
                              ELSE Settled(rec[r].finish)],
  invalidated <- [r \in Runs |-> Settled(tomb[r])]

ImplementsRunLedger == Ledger!Spec

(* Every call that began returns or is killed: no call waits for a lock    *)
(* for ever.                                                               *)
EveryCallReturns == <>[](\A c \in Calls : ~Live(c))
=============================================================================
