---------------------- MODULE ObservationStoreProofs ----------------------
(***************************************************************************)
(* Theorems about ObservationStore, for any number of calls, runs, faults, *)
(* lock replacements, kills and power losses: what an acknowledged call    *)
(* did stands, what is taken back leaves nothing behind, and the store     *)
(* keeps the promises of RunLedger.  Theorems about StoreReaders follow,   *)
(* for any number of readers besides: a published snapshot shows the store *)
(* at one moment, and nothing of it is taken back.                         *)
(***************************************************************************)
EXTENDS StoreReaders, TLAPS

-----------------------------------------------------------------------------
(* Types.  TypeOK is not inductive: a step indexes the record maps by the  *)
(* run of its call, so the run must be known at every stage that uses it,  *)
(* and so must the version that is completed or restored.                  *)

OwnStages ==
  /\ \A c \in Starters : pc[c] \in StartStages \cup {"idle", "done"}
  /\ \A c \in Finishers :
       pc[c] \in FinishWriting
                 \cup {"idle", "done", "lock.open", "lock.wait", "open", "read"}
  /\ \A c \in Invalidators :
       pc[c] \in InvalidateWriting
                 \cup {"idle", "done", "lock.open", "lock.wait", "open", "read"}

RunKnown ==
  /\ \A c \in Calls : pc[c] \notin {"idle", "done", "s.temp"} => run[c] \in Runs
  /\ \A c \in Calls : out[c] = "ok" => pc[c] = "done" /\ run[c] \in Runs

VersionKnown ==
  /\ \A c \in Calls : HoldsRecord(c) \/ pc[c] = "read" => recFd[c] \in Version
  /\ \A c \in Calls : pc[c] \in {"f.replace", "f.sync", "f.undo"}
       => backup[c] \in Version

TypeInv == TypeOK /\ OwnStages /\ RunKnown /\ VersionKnown

USE DEF Calls, Transitions

(* The initial store, in which no call has begun, is well typed.           *)
LEMMA TypeInit == Init => TypeInv
  BY NoneIsNoVersion
  DEF Init, TypeInv, TypeOK, OwnStages, RunKnown, VersionKnown, HoldsRecord,
      FinishWriting, InvalidateWriting, Stages, StartStages

(* Every operation keeps the types, the stages that belong to each kind of *)
(* call, and the run and the version a call at that stage works on.        *)
LEMMA TypeStep == TypeInv /\ [Next]_vars => TypeInv'
<1> SUFFICES ASSUME TypeInv, [Next]_vars PROVE TypeInv'
  OBVIOUS
<1> USE CallsDisjoint, BoundsAreNat, NoneIsNoVersion
<1> USE DEF TypeInv, TypeOK, OwnStages, RunKnown, VersionKnown, HoldsRecord,
            FinishWriting, InvalidateWriting, Stages, StartStages, Version
<1>1. ASSUME NEW c \in Starters, BeginStart(c) PROVE TypeInv'
  BY <1>1, SMTT(60) DEF BeginStart, Goto, Return, dirVars
<1>2. ASSUME NEW c \in Starters, StartTemp(c) PROVE TypeInv'
  <2>1. PICK r \in Runs : run' = [run EXCEPT ![c] = r]
    BY <1>2 DEF StartTemp
  <2>2. CASE WriteTemp(c, "s.link")
    BY <1>2, <2>1, <2>2 DEF StartTemp, WriteTemp, Goto, NoFault, dirVars
  <2>3. CASE WriteTempFails(c)
    BY <1>2, <2>1, <2>3
    DEF StartTemp, WriteTempFails, Return, Goto, Faults, dirVars
  <2> QED
    BY <1>2, <2>2, <2>3 DEF StartTemp
<1>3. ASSUME NEW c \in Starters, StartClaim(c) PROVE TypeInv'
  BY <1>3, SMTT(60) DEF StartClaim, Goto, SetRecord, Draft
<1>4. ASSUME NEW c \in Starters, StartCollision(c) PROVE TypeInv'
  BY <1>4, SMTT(60) DEF StartCollision, Goto, Return, Faults, NoFault, dirVars
<1>5. ASSUME NEW c \in Starters, StartClaimFails(c) PROVE TypeInv'
  BY <1>5, SMTT(60) DEF StartClaimFails, Return, DropTemp, dirVars, Goto, Faults
<1>6. ASSUME NEW c \in Starters, StartSync(c) PROVE TypeInv'
  BY <1>6, SMTT(60) DEF StartSync, Goto, Faults, NoFault, SyncRecords
<1>7. ASSUME NEW c \in Starters, StartUndo(c) PROVE TypeInv'
  BY <1>7, SMTT(60) DEF StartUndo, Goto, SetRecord
<1>8. ASSUME NEW c \in Starters, StartUndoFails(c) PROVE TypeInv'
  BY <1>8, SMTT(60) DEF StartUndoFails, Return, DropTemp, dirVars, Goto, Faults
<1>9. ASSUME NEW c \in Starters, StartUndoSync(c) PROVE TypeInv'
  BY <1>9, SMTT(60) DEF StartUndoSync, Return, DropTemp, SyncRecords, Goto,
     Faults
<1>10. ASSUME NEW c \in Starters, StartClean(c) PROVE TypeInv'
  BY <1>10, SMTT(60) DEF StartClean, Return, DropTemp, dirVars, Goto, Faults
<1>11. ASSUME NEW c \in Transitions, BeginTransition(c) PROVE TypeInv'
  BY <1>11, SMTT(60) DEF BeginTransition, Goto, Return, dirVars, StartPending
<1>12. ASSUME NEW c \in Transitions, OpenLock(c) PROVE TypeInv'
  BY <1>12, SMTT(60) DEF OpenLock, Goto, dirVars
<1>13. ASSUME NEW c \in Transitions, AcquireLock(c) PROVE TypeInv'
  BY <1>13, SMTT(60) DEF AcquireLock, Goto, Return, dirVars, LockIntact
<1>14. ASSUME NEW c \in Transitions, OpenRecord(c) PROVE TypeInv'
  BY <1>14, SMTT(60) DEF OpenRecord, Goto, Return, dirVars, LockIntact
<1>15. ASSUME NEW c \in Transitions, ReadRecord(c) PROVE TypeInv'
  <2>1. /\ UNCHANGED <<dirVars, lockFile, temps, backup, run, lockFd, recFd, tries,
                       budget>>
        /\ pc[c] = "read"
    BY <1>15 DEF ReadRecord
  <2>2. \/ /\ UNCHANGED out
           /\ \/ c \in Finishers /\ pc' = [pc EXCEPT ![c] = "f.temp"]
              \/ c \in Invalidators /\ pc' = [pc EXCEPT ![c] = "i.temp"]
        \/ /\ pc' = [pc EXCEPT ![c] = "done"]
           /\ out' = [out EXCEPT ![c] = "rejected"]
    BY <1>15 DEF ReadRecord, Goto, Return
  <2> QED
    BY <2>1, <2>2, SMTT(60) DEF dirVars
<1>16. ASSUME NEW c \in Transitions, RereadRecord(c) PROVE TypeInv'
  BY <1>16, SMTT(60) DEF RereadRecord, Goto, Return, dirVars, RecordFree
<1>17. ASSUME NEW c \in Transitions, HeadFails(c) PROVE TypeInv'
  BY <1>17, SMTT(60) DEF HeadFails, Return, Faults, dirVars, Goto
<1>18. ASSUME NEW c \in Finishers, FinishTemp(c) PROVE TypeInv'
  <2>1. CASE WriteTemp(c, "f.backup")
    BY <1>18, <2>1 DEF FinishTemp, WriteTemp, NoFault, Goto, dirVars
  <2>2. CASE WriteTempFails(c)
    BY <1>18, <2>2
    DEF FinishTemp, WriteTempFails, Return, Goto, Faults, dirVars
  <2>3. CASE /\ Return(c, "rejected") /\ NoFault
             /\ UNCHANGED <<temps, tempDisk>>
    BY <1>18, <2>3 DEF FinishTemp, Return, NoFault, Goto, dirVars
  <2> QED
    BY <1>18, <2>1, <2>2, <2>3 DEF FinishTemp
<1>19. ASSUME NEW c \in Finishers, FinishBackup(c) PROVE TypeInv'
  <2>1. CASE /\ Goto(c, "f.replace") /\ rec[run[c]] # None
             /\ backup' = [backup EXCEPT ![c] = rec[run[c]]]
             /\ backupDisk' = [backupDisk EXCEPT ![c] = rec[run[c]]]
             /\ UNCHANGED <<temps, out, budget>>
    BY <1>19, <2>1 DEF FinishBackup, Goto, dirVars
  <2>2. CASE /\ Return(c, "rejected") /\ UNCHANGED <<backup, backupDisk>>
             /\ DropTemp(c, 0) \/ DropTemp(c, 1)
    BY <1>19, <2>2 DEF FinishBackup, Return, Goto, DropTemp, Faults, dirVars
  <2> QED
    BY <1>19, <2>1, <2>2 DEF FinishBackup
<1>20. ASSUME NEW c \in Finishers, FinishReplace(c) PROVE TypeInv'
  BY <1>20, SMTT(60) DEF FinishReplace, Goto, SetRecord, Completed
<1>21. ASSUME NEW c \in Finishers, FinishReplaceFails(c) PROVE TypeInv'
  BY <1>21, SMTT(60) DEF FinishReplaceFails, Return, DropTemp, dirVars, Goto,
     Faults
<1>22. ASSUME NEW c \in Finishers, FinishSync(c) PROVE TypeInv'
  BY <1>22, SMTT(60)
     DEF FinishSync, Goto, Faults, NoFault, SyncRecords, LockIntact
<1>23. ASSUME NEW c \in Finishers, FinishUndo(c) PROVE TypeInv'
  BY <1>23, SMTT(60) DEF FinishUndo, Goto, SetRecord
<1>24. ASSUME NEW c \in Finishers, FinishUndoFails(c) PROVE TypeInv'
  BY <1>24, SMTT(60) DEF FinishUndoFails, Return, Faults, dirVars, Goto
<1>25. ASSUME NEW c \in Finishers, FinishUndoSync(c) PROVE TypeInv'
  <2>1. CASE SyncRecords(backup) /\ NoFault /\ Return(c, "rejected")
    BY <1>25, <2>1
    DEF FinishUndoSync, SyncRecords, NoFault, Return, Goto, dirVars
  <2>2. CASE /\ Faults(1) /\ Return(c, "uncertain")
             /\ UNCHANGED <<disk, invDir, tempDisk, backupDisk>>
    BY <1>25, <2>2 DEF FinishUndoSync, Faults, Return, Goto, dirVars
  <2> QED
    BY <1>25, <2>1, <2>2 DEF FinishUndoSync
<1>26. ASSUME NEW c \in Finishers, FinishClean(c) PROVE TypeInv'
  BY <1>26, SMTT(60) DEF FinishClean, Return, Faults, NoFault, SyncRecords,
     Goto
<1>27. ASSUME NEW c \in Invalidators, InvalidateTemp(c) PROVE TypeInv'
  BY <1>27, SMTT(60)
     DEF InvalidateTemp, Return, Faults, WriteTemp, WriteTempFails,
     Goto, NoFault
<1>28. ASSUME NEW c \in Invalidators, InvalidateClaim(c) PROVE TypeInv'
  BY <1>28, SMTT(60) DEF InvalidateClaim, Goto, SetTomb, LockIntact
<1>29. ASSUME NEW c \in Invalidators, InvalidateClaimFails(c) PROVE TypeInv'
  BY <1>29, SMTT(60) DEF InvalidateClaimFails, Return, DropTemp, dirVars, LockIntact,
     Goto, Faults
<1>30. ASSUME NEW c \in Invalidators, InvalidateSync(c) PROVE TypeInv'
  BY <1>30, SMTT(60) DEF InvalidateSync, Goto, Faults, NoFault, SyncTombs,
     LockIntact
<1>31. ASSUME NEW c \in Invalidators, InvalidateUndo(c) PROVE TypeInv'
  BY <1>31, SMTT(60) DEF InvalidateUndo, Goto, SetTomb
<1>32. ASSUME NEW c \in Invalidators, InvalidateUndoFails(c) PROVE TypeInv'
  BY <1>32, SMTT(60) DEF InvalidateUndoFails, Return, DropTemp, dirVars, Goto, Faults
<1>33. ASSUME NEW c \in Invalidators, InvalidateUndoSync(c) PROVE TypeInv'
  <2>1. CASE SyncTombs /\ DropTemp(c, 0) /\ Return(c, "rejected")
    BY <1>33, <2>1
    DEF InvalidateUndoSync, SyncTombs, DropTemp, Return, Goto, Faults
  <2>2. CASE /\ DropTemp(c, 1) /\ Return(c, "uncertain")
             /\ UNCHANGED <<tombDisk, tempDisk>>
    BY <1>33, <2>2 DEF InvalidateUndoSync, DropTemp, Return, Goto, Faults
  <2> QED
    BY <1>33, <2>1, <2>2 DEF InvalidateUndoSync
<1>34. ASSUME NEW c \in Invalidators, InvalidateClean(c) PROVE TypeInv'
  BY <1>34, SMTT(60) DEF InvalidateClean, Return, DropTemp, dirVars, Goto, Faults
<1>35. ASSUME NEW c \in Calls, Kill(c) PROVE TypeInv'
  <2>1. pc' = [pc EXCEPT ![c] = "done"] /\ out' = [out EXCEPT ![c] = "killed"]
        /\ budget' = [budget EXCEPT !.kills = @ + 1]
        /\ UNCHANGED <<rec, disk, tomb, tombDisk, invDir, tempDisk, backupDisk,
                       lockFile, temps, backup, run, lockFd, recFd, tries>>
    BY <1>35 DEF Kill, Return, Goto, dirVars
  <2>2. TypeOK'
    BY <2>1
  <2>3. OwnStages'
    BY <2>1
  <2>4. RunKnown'
    BY <2>1
  <2>5. VersionKnown'
    BY <2>1
  <2> QED
    BY <2>2, <2>3, <2>4, <2>5
<1>36. ASSUME NEW r \in Runs, SwapLock(r) PROVE TypeInv'
  BY <1>36 DEF SwapLock, dirVars
<1>37. ASSUME Outage PROVE TypeInv'
  <2>1. /\ pc' = [c \in Calls |-> IF Live(c) THEN "done" ELSE pc[c]]
        /\ out' = [c \in Calls |-> IF Live(c) THEN "killed" ELSE out[c]]
        /\ UNCHANGED <<lockFile, run, lockFd, recFd, tries>>
        /\ temps' \in SUBSET Calls /\ tempDisk' = temps'
        /\ backup' \in [Calls -> Version \cup {None}]
        /\ backupDisk' = backup'
    BY <1>37 DEF Outage
  <2>2. /\ rec' \in [Runs -> Version \cup {None}]
        /\ disk' = [r \in Runs |-> {rec'[r]}]
    BY <1>37 DEF Outage
  <2>3. /\ tomb' \in [Runs -> Invalidators \cup {None}]
        /\ tombDisk' = [r \in Runs |-> {tomb'[r]}]
    BY <1>37 DEF Outage
  <2>4. invDir' \in {"absent", "volatile", "durable"}
    BY <1>37 DEF Outage
  <2>5. budget' = [budget EXCEPT !.outages = @ + 1]
    BY <1>37 DEF Outage
  <2>6. TypeOK'
    BY <2>1, <2>2, <2>3, <2>4, <2>5
  <2>7. OwnStages' /\ RunKnown' /\ VersionKnown'
    BY <2>1 DEF Live
  <2> QED
    BY <2>6, <2>7
<1>38. ASSUME UNCHANGED vars PROVE TypeInv'
  BY <1>38 DEF vars

<1> QED
  BY <1>1, <1>2, <1>3, <1>4, <1>5, <1>6, <1>7, <1>8, <1>9, <1>10, <1>11,
     <1>12, <1>13, <1>14, <1>15, <1>16, <1>17, <1>18, <1>19, <1>20, <1>21,
     <1>22, <1>23, <1>24, <1>25, <1>26, <1>27, <1>28, <1>29, <1>30, <1>31,
     <1>32, <1>33, <1>34, <1>35, <1>36, <1>37, <1>38
  DEF Next, CallStep, StartStep, HeadStep, FinishStep, InvalidateStep,
       Terminated


(* Every variable keeps its type, at every stage of every call.            *)
THEOREM TypeCorrect == Spec => []TypeOK
<1>1. TypeInv => TypeOK
  BY DEF TypeInv
<1> QED
  BY TypeInit, TypeStep, <1>1, PTL DEF Spec

-----------------------------------------------------------------------------
(* What the callers were told stands, for callers that know an id only     *)
(* from a start that is over (~EarlyCallers).  The invariant says what a   *)
(* call knows of its record at each stage and why no other call can take   *)
(* it away.                                                                *)

DiskHasRecord == \A r \in Runs : rec[r] \in disk[r]

(* A start that may still roll back is alone with its run.                 *)
Unsettled(s) == pc[s] \in {"s.sync", "s.undo"}
StartOwnsClaim == \A s \in Starters : Unsettled(s) => rec[run[s]] = Draft(s)
StartIsAlone ==
  \A s \in Starters, c \in Transitions :
    Unsettled(s) /\ Live(c) => run[c] # run[s]
TransitionHasRecord ==
  \A c \in Transitions : Live(c) => rec[run[c]] # None

(* flock on the record inode.                                              *)
OneHolderPerInode ==
  \A c, d \in Calls :
    c # d /\ HoldsRecord(c) /\ HoldsRecord(d) => recFd[c] # recFd[d]

(* Before its rename a finish has the draft in place and under its lock,   *)
(* after it, its own final record.                                         *)
FinishHasDraft ==
  \A f \in Finishers : pc[f] \in {"f.temp", "f.backup", "f.replace"} =>
    rec[run[f]] = recFd[f] /\ IsDraft(recFd[f])
BackupIsDraft ==
  \A f \in Finishers : pc[f] \in {"f.replace", "f.sync", "f.undo"} =>
    backup[f] = recFd[f] /\ IsDraft(recFd[f])
FinishHasReplaced ==
  \A f \in Finishers : pc[f] \in {"f.sync", "f.undo"} =>
    rec[run[f]] = Completed(recFd[f], f)

(* What was committed, before and after the call reports it.               *)
StartCommitted ==
  \A s \in Starters : pc[s] = "s.clean" \/ out[s] = "ok" =>
    \A v \in disk[run[s]] : v # None /\ v.origin = s
FinishCommitted ==
  \A f \in Finishers : pc[f] = "f.clean" \/ out[f] = "ok" =>
    /\ rec[run[f]] # None
    /\ rec[run[f]].finish = f
    /\ disk[run[f]] = {rec[run[f]]}

ClaimInv == StartOwnsClaim /\ StartIsAlone /\ TransitionHasRecord
FinishInv ==
  OneHolderPerInode /\ FinishHasDraft /\ BackupIsDraft /\ FinishHasReplaced
CommitInv == DiskHasRecord /\ StartCommitted /\ FinishCommitted
StandsInv == TypeInv /\ ClaimInv /\ FinishInv /\ CommitInv

(* Nothing is claimed, replaced or committed in the initial store.         *)
LEMMA StandsInit == Init => StandsInv
  BY TypeInit
  DEF Init, StandsInv, ClaimInv, FinishInv, CommitInv, DiskHasRecord,
      StartOwnsClaim, StartIsAlone, TransitionHasRecord, OneHolderPerInode,
      FinishHasDraft, BackupIsDraft, FinishHasReplaced, StartCommitted,
      FinishCommitted,
      Unsettled, Live, HoldsRecord, FinishWriting, InvalidateWriting

(* Every system call of every operation, every lock replacement, kill and  *)
(* power loss keeps the invariant, as long as nobody finishes or           *)
(* invalidates a run whose start may still roll back.                      *)
LEMMA StandsStep ==
  ASSUME ~EarlyCallers, StandsInv, [Next]_vars PROVE StandsInv'
<1> USE CallsDisjoint, BoundsAreNat, NoneIsNoVersion
<1>0. TypeInv'
  BY TypeStep DEF StandsInv
<1> USE DEF TypeInv, TypeOK, OwnStages, RunKnown, VersionKnown, HoldsRecord,
            FinishWriting, InvalidateWriting, Stages, StartStages, Version,
            StandsInv, ClaimInv, FinishInv, CommitInv,
            DiskHasRecord, StartOwnsClaim, StartIsAlone,
            TransitionHasRecord, OneHolderPerInode, FinishHasDraft,
            BackupIsDraft, FinishHasReplaced, StartCommitted, FinishCommitted,
            Unsettled, Live, IsDraft, Draft, Completed

<1>1. ASSUME NEW c \in Starters, BeginStart(c) PROVE StandsInv'
  <2>1. ClaimInv'
    BY <1>0, <1>1, SMTT(60) DEF BeginStart, Goto, Return, dirVars
  <2>2. FinishInv'
    BY <1>0, <1>1 DEF BeginStart, Goto, Return, dirVars
  <2>3. CommitInv'
    BY <1>0, <1>1 DEF BeginStart, Goto, Return, dirVars
  <2> QED
    BY <1>0, <2>1, <2>2, <2>3
<1>2. ASSUME NEW c \in Starters, StartTemp(c) PROVE StandsInv'
  BY <1>0, <1>2 DEF StartTemp, WriteTemp, WriteTempFails, dirVars, Goto,
     NoFault, Return, Faults
<1>3. ASSUME NEW c \in Starters, StartClaim(c) PROVE StandsInv'
  BY <1>0, <1>3 DEF StartClaim, Goto, SetRecord
<1>4. ASSUME NEW c \in Starters, StartCollision(c) PROVE StandsInv'
  <2>1. /\ UNCHANGED <<rec, disk, run, recFd, backup>>
        /\ \E st \in {"s.temp", "done"} : pc' = [pc EXCEPT ![c] = st]
        /\ out' = out \/ out' = [out EXCEPT ![c] = "rejected"]
    BY <1>4 DEF StartCollision, Goto, Return, dirVars
  <2>2. ClaimInv'
    BY <1>0, <2>1
  <2>3. FinishInv'
    BY <1>0, <2>1
  <2>4. CommitInv'
    BY <1>0, <2>1
  <2> QED
    BY <1>0, <2>2, <2>3, <2>4

<1>5. ASSUME NEW c \in Starters, StartClaimFails(c) PROVE StandsInv'
  BY <1>0, <1>5 DEF StartClaimFails, Return, DropTemp, dirVars, Goto, Faults
<1>6. ASSUME NEW c \in Starters, StartSync(c) PROVE StandsInv'
  <2>1. /\ pc[c] = "s.sync" /\ rec[run[c]] = Draft(c)
        /\ UNCHANGED <<rec, run, recFd, backup, out>>
    BY <1>6 DEF StartSync
  <2>2. \/ SyncRecords(backup) /\ pc' = [pc EXCEPT ![c] = "s.clean"]
        \/ /\ pc' = [pc EXCEPT ![c] = "s.undo"]
           /\ SyncRecords(backup) \/ UNCHANGED disk
    BY <1>6 DEF StartSync, Goto
  <2>3. ClaimInv'
    <3>1. CASE pc' = [pc EXCEPT ![c] = "s.clean"]
      BY <1>0, <2>1, <3>1
    <3>2. CASE pc' = [pc EXCEPT ![c] = "s.undo"]
      BY <1>0, <2>1, <3>2
    <3> QED
      BY <2>2, <3>1, <3>2
  <2>4. FinishInv'
    BY <1>0, <2>1, <2>2, SMTT(30)
  <2>5. DiskHasRecord'
    BY <2>1, <2>2 DEF SyncRecords
  <2>6. StartCommitted'
    <3>1. CASE SyncRecords(backup)
      BY <1>0, <2>1, <2>2, <3>1 DEF SyncRecords
    <3>2. CASE UNCHANGED disk /\ pc' = [pc EXCEPT ![c] = "s.undo"]
      BY <1>0, <2>1, <3>2
    <3> QED
      BY <2>2, <3>1, <3>2
  <2>7. FinishCommitted'
    BY <1>0, <2>1, <2>2 DEF SyncRecords
  <2> QED
    BY <1>0, <2>3, <2>4, <2>5, <2>6, <2>7

<1>7. ASSUME NEW c \in Starters, StartUndo(c) PROVE StandsInv'
  <2>1. /\ pc[c] = "s.undo" /\ run[c] \in Runs /\ rec[run[c]] = Draft(c)
        /\ rec' = [rec EXCEPT ![run[c]] = None]
        /\ disk' = [disk EXCEPT ![run[c]] = @ \cup {None}]
        /\ pc' = [pc EXCEPT ![c] = "s.undosync"]
        /\ UNCHANGED <<run, recFd, backup, out>>
    BY <1>7 DEF StartUndo, SetRecord, Goto
  <2>2. \A t \in Transitions : Live(t) => run[t] # run[c]
    BY <2>1
  <2>3. \A s \in Starters : s # c /\ Unsettled(s) => run[s] # run[c]
    <3> SUFFICES ASSUME NEW s \in Starters, s # c, Unsettled(s), run[s] = run[c]
                 PROVE FALSE
      OBVIOUS
    <3>1. rec[run[s]] = Draft(s)
      BY DEF StandsInv, ClaimInv, StartOwnsClaim
    <3>2. rec[run[c]].origin = c
      BY <2>1 DEF Draft
    <3>3. rec[run[s]].origin = s
      BY <3>1 DEF Draft
    <3> QED
      BY <3>2, <3>3
  <2>4. StartOwnsClaim'
    BY <1>0, <2>1, <2>3
  <2>5. StartIsAlone'
    BY <1>0, <2>1
  <2>6. TransitionHasRecord'
    BY <1>0, <2>1, <2>2
  <2>7. FinishInv'
    BY <1>0, <2>1, <2>2
  <2>8. \A s \in Starters :
          pc[s] = "s.clean" \/ out[s] = "ok" => run[s] \in Runs /\ run[s] # run[c]
    BY <2>1
  <2>9. \A f \in Finishers :
          pc[f] = "f.clean" \/ out[f] = "ok" => run[f] \in Runs /\ run[f] # run[c]
    BY <2>1
  <2>10. DiskHasRecord'
    BY <1>0, <2>1
  <2>11. StartCommitted'
    BY <1>0, <2>1, <2>8
  <2>12. FinishCommitted'
    BY <1>0, <2>1, <2>9
  <2> QED
    BY <1>0, <2>4, <2>5, <2>6, <2>7, <2>10, <2>11, <2>12

<1>8. ASSUME NEW c \in Starters, StartUndoFails(c) PROVE StandsInv'
  BY <1>0, <1>8 DEF StartUndoFails, Return, DropTemp, dirVars, Goto, Faults
<1>9. ASSUME NEW c \in Starters, StartUndoSync(c) PROVE StandsInv'
  <2>1. /\ UNCHANGED <<rec, run, recFd, backup>>
        /\ disk' = disk \/ disk' = [r \in Runs |-> {rec[r]}]
        /\ pc' = [pc EXCEPT ![c] = "done"]
        /\ \E o \in {"rejected", "uncertain"} : out' = [out EXCEPT ![c] = o]
    BY <1>9 DEF StartUndoSync, SyncRecords, Goto, Return
  <2>2. ClaimInv'
    BY <1>0, <2>1
  <2>3. FinishInv'
    BY <1>0, <2>1
  <2>4. DiskHasRecord'
    BY <1>0, <2>1
  <2>5. StartCommitted'
    BY <1>0, <2>1, SMTT(30)
  <2>6. FinishCommitted'
    BY <1>0, <2>1
  <2> QED
    BY <1>0, <2>2, <2>3, <2>4, <2>5, <2>6

<1>10. ASSUME NEW c \in Starters, StartClean(c) PROVE StandsInv'
  BY <1>0, <1>10 DEF StartClean, Return, DropTemp, dirVars, Goto, Faults
<1>11. ASSUME NEW c \in Transitions, BeginTransition(c) PROVE StandsInv'
  <2>1. CASE \E r \in Runs : /\ rec[r] # None /\ ~StartPending(r)
                             /\ run' = [run EXCEPT ![c] = r]
                             /\ pc' = [pc EXCEPT ![c] = "lock.open"]
                             /\ UNCHANGED <<rec, disk, recFd, backup, out>>
    <3>1. PICK r \in Runs : /\ rec[r] # None /\ ~StartPending(r)
                            /\ run' = [run EXCEPT ![c] = r]
      BY <2>1
    <3>2. ClaimInv'
      BY <1>0, <2>1, <3>1 DEF StartPending
    <3>3. FinishInv'
      BY <1>0, <1>11, <2>1, <3>1 DEF BeginTransition
    <3>4. CommitInv'
      BY <1>0, <1>11, <2>1, <3>1 DEF BeginTransition
    <3> QED
      BY <1>0, <3>2, <3>3, <3>4
  <2>2. CASE /\ UNCHANGED <<rec, disk, run, recFd, backup>>
             /\ pc' = [pc EXCEPT ![c] = "done"]
             /\ out' = [out EXCEPT ![c] = "rejected"]
    <3>1. ClaimInv'
      BY <1>0, <2>2
    <3>2. FinishInv'
      BY <1>0, <2>2
    <3>3. CommitInv'
      BY <1>0, <2>2
    <3> QED
      BY <1>0, <3>1, <3>2, <3>3
  <2> QED
    BY <1>11, <2>1, <2>2 DEF BeginTransition, Goto, Return, dirVars

<1>12. ASSUME NEW c \in Transitions, OpenLock(c) PROVE StandsInv'
  BY <1>0, <1>12, SMTT(60) DEF OpenLock, Goto, dirVars
<1>13. ASSUME NEW c \in Transitions, AcquireLock(c) PROVE StandsInv'
  <2>1. /\ UNCHANGED <<rec, disk, run, recFd, backup>>
        /\ \E st \in {"open", "done"} : pc' = [pc EXCEPT ![c] = st]
        /\ out' = out \/ out' = [out EXCEPT ![c] = "rejected"]
    BY <1>13 DEF AcquireLock, Goto, Return, dirVars
  <2>2. ClaimInv'
    BY <1>0, <1>13, <2>1 DEF AcquireLock
  <2>3. FinishInv'
    BY <1>0, <1>13, <2>1 DEF AcquireLock
  <2>4. CommitInv'
    BY <1>0, <1>13, <2>1 DEF AcquireLock
  <2> QED
    BY <1>0, <2>2, <2>3, <2>4

<1>14. ASSUME NEW c \in Transitions, OpenRecord(c) PROVE StandsInv'
  <2>1. ClaimInv'
    BY <1>0, <1>14, SMTT(60) DEF OpenRecord, Goto, Return, dirVars, LockIntact
  <2>2. FinishInv'
    BY <1>0, <1>14, SMTT(60) DEF OpenRecord, Goto, Return, dirVars, LockIntact
  <2>3. CommitInv'
    BY <1>0, <1>14, SMTT(60) DEF OpenRecord, Goto, Return, dirVars, LockIntact
  <2> QED
    BY <1>0, <2>1, <2>2, <2>3
<1>15. ASSUME NEW c \in Transitions, ReadRecord(c) PROVE StandsInv'
  <2>1. /\ UNCHANGED <<rec, disk, run, recFd, backup>>
        /\ pc[c] = "read" /\ RecordFree(c) /\ rec[run[c]] = recFd[c]
    BY <1>15 DEF ReadRecord, dirVars
  <2>2. \/ /\ c \in Finishers /\ IsDraft(recFd[c])
           /\ pc' = [pc EXCEPT ![c] = "f.temp"] /\ out' = out
        \/ c \in Invalidators /\ pc' = [pc EXCEPT ![c] = "i.temp"] /\ out' = out
        \/ pc' = [pc EXCEPT ![c] = "done"] /\ out' = [out EXCEPT ![c] = "rejected"]
    BY <1>15 DEF ReadRecord, Goto, Return
  <2>3. \A d \in Calls : Live(d)' => Live(d)
    BY <2>1, <2>2
  <2>4. \A s \in Starters : Unsettled(s)' => Unsettled(s)
    BY <2>1, <2>2
  <2>5. ClaimInv'
    BY <2>1, <2>3, <2>4
  <2>6. FinishInv'
    BY <1>0, <2>1, <2>2 DEF RecordFree
  <2>7. CommitInv'
    BY <1>0, <2>1, <2>2
  <2> QED
    BY <1>0, <2>5, <2>6, <2>7

<1>16. ASSUME NEW c \in Transitions, RereadRecord(c) PROVE StandsInv'
  <2>1. ClaimInv'
    BY <1>0, <1>16, SMTT(30) DEF RereadRecord, Goto, Return, dirVars,
       RecordFree
  <2>2. FinishInv'
    BY <1>0, <1>16, SMTT(60) DEF RereadRecord, Goto, Return, dirVars, RecordFree
  <2>3. CommitInv'
    BY <1>0, <1>16, SMTT(60) DEF RereadRecord, Goto, Return, dirVars, RecordFree
  <2> QED
    BY <1>0, <2>1, <2>2, <2>3
<1>17. ASSUME NEW c \in Transitions, HeadFails(c) PROVE StandsInv'
  BY <1>0, <1>17, SMTT(60) DEF HeadFails, Return, Faults, dirVars, Goto
<1>18. ASSUME NEW c \in Finishers, FinishTemp(c) PROVE StandsInv'
  <2>1. ClaimInv'
    BY <1>0, <1>18, SMTT(60) DEF FinishTemp, Return, NoFault, WriteTemp,
       WriteTempFails, dirVars, LockIntact, Goto, Faults
  <2>2. FinishInv'
    BY <1>0, <1>18, SMTT(30) DEF FinishTemp, Return, NoFault, WriteTemp,
       WriteTempFails, dirVars, LockIntact, Goto, Faults
  <2>3. CommitInv'
    BY <1>0, <1>18, SMTT(60) DEF FinishTemp, Return, NoFault, WriteTemp,
       WriteTempFails, dirVars, LockIntact, Goto, Faults
  <2> QED
    BY <1>0, <2>1, <2>2, <2>3
<1>19. ASSUME NEW c \in Finishers, FinishBackup(c) PROVE StandsInv'
  <2>1. ClaimInv'
    BY <1>0, <1>19, SMTT(30) DEF FinishBackup, Goto, Return, DropTemp, dirVars,
       LockIntact, Faults
  <2>2. FinishInv'
    BY <1>0, <1>19, SMTT(30) DEF FinishBackup, Goto, Return, DropTemp, dirVars,
       LockIntact, Faults
  <2>3. CommitInv'
    BY <1>0, <1>19, SMTT(60) DEF FinishBackup, Goto, Return, DropTemp, dirVars,
       LockIntact, Faults
  <2> QED
    BY <1>0, <2>1, <2>2, <2>3
<1>20. ASSUME NEW c \in Finishers, FinishReplace(c) PROVE StandsInv'
  BY <1>0, <1>20, SMTT(60) DEF FinishReplace, Goto, SetRecord
<1>21. ASSUME NEW c \in Finishers, FinishReplaceFails(c) PROVE StandsInv'
  BY <1>0, <1>21, SMTT(60) DEF FinishReplaceFails, Return, DropTemp, dirVars, Goto,
     Faults
<1>22. ASSUME NEW c \in Finishers, FinishSync(c) PROVE StandsInv'
  <2>1. /\ pc[c] = "f.sync" /\ rec[run[c]] = Completed(recFd[c], c)
        /\ run[c] \in Runs /\ recFd[c] \in Version
        /\ UNCHANGED <<rec, run, recFd, backup, out>>
    BY <1>22 DEF FinishSync
  <2>2. \/ SyncRecords(backup) /\ pc' = [pc EXCEPT ![c] = "f.clean"]
        \/ /\ pc' = [pc EXCEPT ![c] = "f.undo"]
           /\ SyncRecords(backup) \/ UNCHANGED disk
    BY <1>22 DEF FinishSync, Goto
  <2>3. ClaimInv'
    BY <1>0, <2>1, <2>2, SMTT(90)
  <2>4. FinishInv'
    BY <1>0, <2>1, <2>2, SMTT(60)
  <2>5. DiskHasRecord'
    <3>1. CASE UNCHANGED disk
      BY <2>1, <3>1
    <3>2. CASE SyncRecords(backup)
      BY <2>1, <3>2 DEF SyncRecords
    <3> QED
      BY <2>2, <3>1, <3>2
  <2>6. StartCommitted'
    BY <1>0, <2>1, <2>2 DEF SyncRecords
  <2>7. FinishCommitted'
    <3>1. rec[run[c]] # None /\ rec[run[c]].finish = c
      BY <2>1
    <3>2. CASE SyncRecords(backup)
      BY <1>0, <2>1, <2>2, <3>1, <3>2 DEF SyncRecords
    <3>3. CASE UNCHANGED disk /\ pc' = [pc EXCEPT ![c] = "f.undo"]
      BY <1>0, <2>1, <3>3
    <3> QED
      BY <2>2, <3>2, <3>3
  <2> QED
    BY <1>0, <2>3, <2>4, <2>5, <2>6, <2>7

<1>23. ASSUME NEW c \in Finishers, FinishUndo(c) PROVE StandsInv'
  <2>1. /\ pc[c] = "f.undo" /\ run[c] \in Runs /\ recFd[c] \in Version
        /\ rec[run[c]] = Completed(recFd[c], c)
        /\ backup[c] = recFd[c] /\ IsDraft(recFd[c])
    BY <1>23 DEF FinishUndo
  <2>2. /\ rec' = [rec EXCEPT ![run[c]] = recFd[c]]
        /\ disk' = [disk EXCEPT ![run[c]] = @ \cup {recFd[c]}]
        /\ backup' = [backup EXCEPT ![c] = None]
        /\ pc' = [pc EXCEPT ![c] = "f.undosync"]
        /\ UNCHANGED <<run, recFd, out>>
    BY <1>23, <2>1 DEF FinishUndo, SetRecord, Goto
  <2>3. /\ rec[run[c]] # None /\ rec[run[c]].finish = c
        /\ rec[run[c]].origin = recFd[c].origin /\ recFd[c] # None
    BY <2>1
  <2>4. ClaimInv'
    BY <1>0, <2>1, <2>2, <2>3
  <2>5. \A f \in Finishers \ {c} :
          pc[f] \in {"f.temp", "f.backup", "f.replace", "f.sync", "f.undo"}
            => run[f] # run[c]
    <3>1. \A f \in Finishers : pc[f] \in {"f.temp", "f.backup", "f.replace"}
            => rec[run[f]].finish = None
      OBVIOUS
    <3>2. ASSUME NEW f \in Finishers, pc[f] \in {"f.sync", "f.undo"}
          PROVE rec[run[f]].finish = f
      <4>1. rec[run[f]] = Completed(recFd[f], f) /\ recFd[f] \in Version
        BY <3>2
      <4> QED
        BY <4>1
    <3> QED
      BY <2>3, <3>1, <3>2
  <2>6. OneHolderPerInode'
    BY <1>0, <2>1, <2>2
  <2>7. FinishHasDraft'
    BY <1>0, <2>1, <2>2, <2>5
  <2>8. BackupIsDraft'
    BY <1>0, <2>1, <2>2
  <2>9. FinishHasReplaced'
    BY <1>0, <2>1, <2>2, <2>5
  <2>10. DiskHasRecord'
    BY <1>0, <2>1, <2>2
  <2>11. StartCommitted'
    BY <1>0, <2>1, <2>2, <2>3
  <2>12. \A f \in Finishers :
           pc[f] = "f.clean" \/ out[f] = "ok" => run[f] \in Runs /\ run[f] # run[c]
    BY <2>1, <2>3
  <2>13. FinishCommitted'
    BY <1>0, <2>1, <2>2, <2>12
  <2> QED
    BY <1>0, <2>4, <2>6, <2>7, <2>8, <2>9, <2>10, <2>11, <2>13

<1>24. ASSUME NEW c \in Finishers, FinishUndoFails(c) PROVE StandsInv'
  BY <1>0, <1>24, SMTT(60) DEF FinishUndoFails, Return, Faults, dirVars, Goto
<1>25. ASSUME NEW c \in Finishers, FinishUndoSync(c) PROVE StandsInv'
  <2>1. /\ UNCHANGED <<rec, run, recFd, backup>>
        /\ disk' = disk \/ disk' = [r \in Runs |-> {rec[r]}]
        /\ pc' = [pc EXCEPT ![c] = "done"]
        /\ \E o \in {"rejected", "uncertain"} : out' = [out EXCEPT ![c] = o]
    BY <1>25 DEF FinishUndoSync, SyncRecords, Goto, Return
  <2>2. ClaimInv'
    BY <1>0, <2>1
  <2>3. FinishInv'
    BY <1>0, <2>1
  <2>4. DiskHasRecord'
    BY <1>0, <2>1
  <2>5. StartCommitted'
    BY <1>0, <2>1
  <2>6. FinishCommitted'
    BY <1>0, <2>1
  <2> QED
    BY <1>0, <2>2, <2>3, <2>4, <2>5, <2>6

<1>26. ASSUME NEW c \in Finishers, FinishClean(c) PROVE StandsInv'
  BY <1>0, <1>26, SMTT(60) DEF FinishClean, Return, Faults, NoFault, SyncRecords, Goto
<1>27. ASSUME NEW c \in Invalidators, InvalidateTemp(c) PROVE StandsInv'
  <2>1. /\ UNCHANGED <<rec, disk, run, recFd, backup>>
        /\ \E st \in {"i.link", "done"} : pc' = [pc EXCEPT ![c] = st]
        /\ out' = out \/ out' = [out EXCEPT ![c] = "rejected"]
    BY <1>27 DEF InvalidateTemp, WriteTemp, WriteTempFails, Goto, Return, dirVars
  <2>2. ClaimInv'
    BY <1>0, <1>27, <2>1 DEF InvalidateTemp
  <2>3. FinishInv'
    BY <1>0, <1>27, <2>1 DEF InvalidateTemp
  <2>4. CommitInv'
    BY <1>0, <1>27, <2>1 DEF InvalidateTemp
  <2> QED
    BY <1>0, <2>2, <2>3, <2>4

<1>28. ASSUME NEW c \in Invalidators, InvalidateClaim(c) PROVE StandsInv'
  BY <1>0, <1>28, SMTT(60) DEF InvalidateClaim, Goto, SetTomb, LockIntact
<1>29. ASSUME NEW c \in Invalidators, InvalidateClaimFails(c) PROVE StandsInv'
  BY <1>0, <1>29, SMTT(60) DEF InvalidateClaimFails, Return, DropTemp, dirVars,
     LockIntact, Goto, Faults
<1>30. ASSUME NEW c \in Invalidators, InvalidateSync(c) PROVE StandsInv'
  <2>1. ClaimInv'
    BY <1>0, <1>30, SMTT(30) DEF InvalidateSync, Goto, Faults, NoFault,
       SyncTombs,
       LockIntact
  <2>2. FinishInv'
    BY <1>0, <1>30, SMTT(60)
     DEF InvalidateSync, Goto, Faults, NoFault, SyncTombs,
       LockIntact
  <2>3. CommitInv'
    BY <1>0, <1>30, SMTT(60) DEF InvalidateSync, Goto, Faults, NoFault, SyncTombs,
       LockIntact
  <2> QED
    BY <1>0, <2>1, <2>2, <2>3
<1>31. ASSUME NEW c \in Invalidators, InvalidateUndo(c) PROVE StandsInv'
  BY <1>0, <1>31, SMTT(60) DEF InvalidateUndo, Goto, SetTomb
<1>32. ASSUME NEW c \in Invalidators, InvalidateUndoFails(c) PROVE StandsInv'
  BY <1>0, <1>32, SMTT(60) DEF InvalidateUndoFails, Return, DropTemp, dirVars, Goto,
     Faults
<1>33. ASSUME NEW c \in Invalidators, InvalidateUndoSync(c) PROVE StandsInv'
  <2>1. /\ UNCHANGED <<rec, disk, run, recFd, backup>>
        /\ \E st \in {"done"} : pc' = [pc EXCEPT ![c] = st]
        /\ \E o \in {"rejected", "uncertain"} : out' = [out EXCEPT ![c] = o]
    BY <1>33 DEF InvalidateUndoSync, Goto, Return, dirVars
  <2>2. ClaimInv'
    BY <1>0, <1>33, <2>1 DEF InvalidateUndoSync
  <2>3. FinishInv'
    BY <1>0, <1>33, <2>1 DEF InvalidateUndoSync
  <2>4. CommitInv'
    BY <1>0, <1>33, <2>1 DEF InvalidateUndoSync
  <2> QED
    BY <1>0, <2>2, <2>3, <2>4

<1>34. ASSUME NEW c \in Invalidators, InvalidateClean(c) PROVE StandsInv'
  BY <1>0, <1>34 DEF InvalidateClean, Return, DropTemp, dirVars, Goto,
     Faults
<1>35. ASSUME NEW c \in Calls, Kill(c) PROVE StandsInv'
  BY <1>0, <1>35 DEF Kill, Return, Goto, dirVars
<1>36. ASSUME NEW r \in Runs, SwapLock(r) PROVE StandsInv'
  BY <1>0, <1>36 DEF SwapLock, dirVars
<1>37. ASSUME Outage PROVE StandsInv'
  <2>1. /\ pc' = [c \in Calls |-> IF Live(c) THEN "done" ELSE pc[c]]
        /\ out' = [c \in Calls |-> IF Live(c) THEN "killed" ELSE out[c]]
        /\ run' = run
    BY <1>37 DEF Outage
  <2>2. \A r \in Runs : rec'[r] \in disk[r] /\ disk'[r] = {rec'[r]}
    BY <1>37 DEF Outage
  <2>3. \A c \in Calls : pc'[c] \in {"idle", "done"}
    BY <2>1
  <2>4. ClaimInv' /\ FinishInv'
    BY <2>3
  <2>5. DiskHasRecord'
    BY <2>2
  <2>6. \A c \in Calls : out'[c] = "ok" => out[c] = "ok" /\ run[c] \in Runs
    BY <2>1
  <2>7. StartCommitted' /\ FinishCommitted'
    BY <2>1, <2>2, <2>3, <2>6, SMTT(30)
  <2> QED
    BY <1>0, <2>4, <2>5, <2>7
<1>38. ASSUME UNCHANGED vars PROVE StandsInv'
  BY <1>0, <1>38 DEF vars
<1> QED
  BY <1>1, <1>2, <1>3, <1>4, <1>5, <1>6, <1>7, <1>8, <1>9, <1>10, <1>11,
     <1>12, <1>13, <1>14, <1>15, <1>16, <1>17, <1>18, <1>19, <1>20, <1>21,
     <1>22, <1>23, <1>24, <1>25, <1>26, <1>27, <1>28, <1>29, <1>30, <1>31,
     <1>32, <1>33, <1>34, <1>35, <1>36, <1>37, <1>38
  DEF Next, CallStep, StartStep, HeadStep, FinishStep, InvalidateStep,
       Terminated

(* Without early callers, whatever fails, dies or is replaced, and however *)
(* many calls there are: a start or a finish that reported success has its *)
(* record in sight and on disk for ever.                                   *)
THEOREM AckedCallsStand ==
  ASSUME ~EarlyCallers PROVE Spec => [](AckedStartStands /\ AckedFinishStands)
<1>1. StandsInv => AckedStartStands /\ AckedFinishStands
  BY DEF StandsInv, CommitInv, TypeInv, RunKnown, DiskHasRecord, StartCommitted,
         FinishCommitted, AckedStartStands, AckedFinishStands
<1> QED
  BY StandsInit, StandsStep, <1>1, PTL DEF Spec

-----------------------------------------------------------------------------
(* The ledger: what calls take back and leave behind.                       *)

(* A call reports when it returns.                                         *)
OutInv == \A c \in Calls : pc[c] # "done" => out[c] = "none"

(* Each version a record may hold, now or after a power loss, is of the    *)
(* run of the calls that made it, and they have not said that they left    *)
(* nothing.  A call that took its version back waits for the disk only.    *)
Owned(v, r) ==
  /\ run[v.origin] = r /\ out[v.origin] # "rejected"
  /\ pc[v.origin] \in {"s.sync", "s.undo", "s.undosync", "s.clean", "done"}
  /\ v.finish # None =>
       /\ run[v.finish] = r /\ out[v.finish] # "rejected"
       /\ pc[v.finish] \in {"f.sync", "f.undo", "f.undosync", "f.clean", "done"}
InSight(v) ==
  /\ pc[v.origin] # "s.undosync"
  /\ v.finish # None => pc[v.finish] # "f.undosync"
RecordsOwned == \A r \in Runs : \A v \in disk[r] \ {None} : Owned(v, r)
RecordsInSight == \A r \in Runs : rec[r] # None => InSight(rec[r])

(* The same for tombstones; until its call is past the fsync, a tombstone  *)
(* is that call's to take back.                                            *)
TombOwned(c, r) ==
  /\ run[c] = r /\ out[c] # "rejected"
  /\ pc[c] \in {"i.sync", "i.undo", "i.undosync", "i.clean", "done"}
TombsOwned == \A r \in Runs : \A c \in tombDisk[r] \ {None} : TombOwned(c, r)
TombsInSight ==
  /\ \A r \in Runs : tomb[r] \in tombDisk[r]
  /\ \A r \in Runs : tomb[r] # None => pc[tomb[r]] # "i.undosync"
  /\ \A c \in Invalidators :
       pc[c] \in {"i.sync", "i.undo", "i.clean"} => tomb[run[c]] = c

(* Where a call may have a temporary file or a backup.  Later only one     *)
(* that was killed, or met a failing system call, has left it.             *)
MayHaveTemp ==
  {"s.link", "s.sync", "s.undo", "s.undosync", "s.clean", "f.backup",
   "f.replace", "i.link", "i.sync", "i.undo", "i.undosync", "i.clean"}
MayHaveBackup == {"f.replace", "f.sync", "f.undo", "f.clean"}
TempsInv ==
  \A c \in Calls :
    /\ budget.faults = 0 /\ budget.outages = 0
    /\ out[c] \in {"none", "ok", "rejected"}
    => /\ c \in temps => pc[c] \in MayHaveTemp
       /\ backup[c] # None => pc[c] \in MayHaveBackup

OwnInv ==
  /\ OutInv /\ RecordsOwned /\ RecordsInSight /\ TombsOwned /\ TombsInSight
  /\ TempsInv

-----------------------------------------------------------------------------
(* A step of one call, as the others see it.                               *)
OthersKeep(c) ==
  /\ \A d \in Calls \ {c} :
       /\ pc'[d] = pc[d] /\ out'[d] = out[d] /\ run'[d] = run[d]
       /\ backup'[d] = backup[d] /\ (d \in temps' <=> d \in temps)
  /\ budget.faults <= budget'.faults
  /\ budget'.outages = budget.outages

(* What the call itself keeps of OutInv and TempsInv.                      *)
ReportsInOrder(c) == pc[c] # "done" => out[c] = "none"
TempsInOrder(c) ==
  /\ budget.faults = 0 /\ budget.outages = 0
  /\ out[c] \in {"none", "ok", "rejected"}
  => /\ c \in temps => pc[c] \in MayHaveTemp
     /\ backup[c] # None => pc[c] \in MayHaveBackup

(* The stages in which a call stands for a version, or a tombstone, and    *)
(* those of them in which that is still in sight.                          *)
Shown(c) ==
  pc[c] \in {"s.sync", "s.undo", "s.clean", "f.sync", "f.undo", "f.clean",
             "i.sync", "i.undo", "i.clean", "done"}
Standing(c) == Shown(c) \/ pc[c] \in {"s.undosync", "f.undosync", "i.undosync"}
KindOfStage(c) ==
  /\ c \in Starters => pc[c] \in StartStages \cup {"idle", "done"}
  /\ c \in Transitions => pc[c] \notin StartStages
  /\ c \in Finishers => pc[c] \notin InvalidateWriting
  /\ c \in Invalidators => pc[c] \notin FinishWriting

(* A call that stands for nothing, or goes on standing for what it did.    *)
GoesOn(c) ==
  \/ ~Standing(c)
  \/ Shown(c)' /\ run'[c] = run[c] /\ out'[c] # "rejected"

(* The versions when none is added.                                        *)
LEMMA RecordsKeep ==
  ASSUME TypeInv, RecordsOwned, RecordsInSight, NEW c \in Calls,
         OthersKeep(c), UNCHANGED rec, GoesOn(c) \/ c \in Invalidators,
         KindOfStage(c)', DiskHasRecord,
         \A r \in Runs : disk'[r] \subseteq disk[r]
  PROVE  RecordsOwned' /\ RecordsInSight'
<1> USE CallsDisjoint, NoneIsNoVersion
<1>1. ASSUME NEW r \in Runs, NEW v \in disk[r] \ {None}
      PROVE  /\ v \in Version /\ v.origin \in Starters
             /\ v.finish \in Finishers \cup {None}
  BY DEF TypeInv, TypeOK, Version
<1>2. ASSUME NEW r \in Runs, NEW v \in disk'[r] \ {None}
      PROVE  /\ run'[v.origin] = r /\ out'[v.origin] # "rejected"
             /\ pc'[v.origin] \in
                  {"s.sync", "s.undo", "s.undosync", "s.clean", "done"}
             /\ v.finish # None =>
                  /\ run'[v.finish] = r /\ out'[v.finish] # "rejected"
                  /\ pc'[v.finish] \in
                       {"f.sync", "f.undo", "f.undosync", "f.clean", "done"}
  <2>1. /\ v \in disk[r] \ {None} /\ v.origin \in Starters
        /\ v.finish \in Finishers \cup {None}
    BY <1>1
  <2>2. /\ run[v.origin] = r /\ out[v.origin] # "rejected"
        /\ pc[v.origin] \in
             {"s.sync", "s.undo", "s.undosync", "s.clean", "done"}
        /\ v.finish # None =>
             /\ run[v.finish] = r /\ out[v.finish] # "rejected"
             /\ pc[v.finish] \in
                  {"f.sync", "f.undo", "f.undosync", "f.clean", "done"}
    BY <2>1 DEF RecordsOwned, Owned
  <2>3. CASE v.origin = c
    <3>1. GoesOn(c) /\ Standing(c)
      BY <2>1, <2>2, <2>3 DEF Standing, Shown
    <3>2. Shown(c)' /\ run'[c] = run[c] /\ out'[c] # "rejected"
      BY <3>1 DEF GoesOn
    <3>3. pc'[c] \in {"s.sync", "s.undo", "s.clean", "done"}
      BY <2>1, <2>3, <3>2 DEF Shown, KindOfStage, StartStages
    <3>4. v.finish # c
      BY <2>1, <2>3
    <3> QED
      BY <2>1, <2>2, <2>3, <3>2, <3>3, <3>4 DEF OthersKeep
  <2>4. CASE v.finish = c
    <3>1. GoesOn(c) /\ Standing(c)
      BY <2>1, <2>2, <2>4 DEF Standing, Shown
    <3>2. Shown(c)' /\ run'[c] = run[c] /\ out'[c] # "rejected"
      BY <3>1 DEF GoesOn
    <3>3. pc'[c] \in {"f.sync", "f.undo", "f.clean", "done"}
      BY <2>1, <2>4, <3>2 DEF Shown, KindOfStage, StartStages,
         InvalidateWriting
    <3>4. v.origin # c
      BY <2>1, <2>4
    <3> QED
      BY <2>1, <2>2, <2>4, <3>2, <3>3, <3>4 DEF OthersKeep
  <2>5. CASE v.origin # c /\ v.finish # c
    BY <2>1, <2>2, <2>5 DEF OthersKeep
  <2> QED
    BY <2>3, <2>4, <2>5
<1>3. ASSUME NEW r \in Runs, rec[r] # None
      PROVE  /\ pc'[rec[r].origin] # "s.undosync"
             /\ rec[r].finish # None => pc'[rec[r].finish] # "f.undosync"
  <2>1. rec[r] \in disk[r] \ {None}
    BY <1>3 DEF DiskHasRecord
  <2>2. /\ rec[r].origin \in Starters
        /\ rec[r].finish \in Finishers \cup {None}
    BY <1>1, <2>1
  <2>3. /\ pc[rec[r].origin] # "s.undosync"
        /\ rec[r].finish # None => pc[rec[r].finish] # "f.undosync"
    BY <1>3 DEF RecordsInSight, InSight
  <2>4. /\ rec[r].origin = c => Standing(c)
        /\ rec[r].finish = c => Standing(c)
    BY <2>1, <2>2 DEF RecordsOwned, Owned, Standing, Shown
  <2>5. rec[r].origin = c \/ rec[r].finish = c => Shown(c)'
    BY <2>2, <2>4 DEF GoesOn
  <2>6. Shown(c)' => pc'[c] \notin {"s.undosync", "f.undosync"}
    BY DEF Shown
  <2> QED
    BY <2>2, <2>3, <2>5, <2>6 DEF OthersKeep
<1> QED
  BY <1>2, <1>3 DEF RecordsOwned, RecordsInSight, Owned, InSight

(* The tombstones when none is added.                                      *)
LEMMA TombsKeep ==
  ASSUME TypeInv, TombsOwned, TombsInSight, NEW c \in Calls,
         OthersKeep(c), UNCHANGED tomb, GoesOn(c) \/ c \notin Invalidators,
         KindOfStage(c)',
         pc'[c] \in {"i.sync", "i.undo", "i.clean"} =>
           pc[c] \in {"i.sync", "i.undo", "i.clean"},
         \A r \in Runs : tombDisk'[r] \subseteq tombDisk[r]
                         /\ tomb[r] \in tombDisk'[r]
  PROVE  TombsOwned' /\ TombsInSight'
<1> USE CallsDisjoint, NoneIsNoVersion
<1>1. ASSUME NEW r \in Runs, NEW d \in tombDisk'[r] \ {None}
      PROVE  /\ run'[d] = r /\ out'[d] # "rejected"
             /\ pc'[d] \in {"i.sync", "i.undo", "i.undosync", "i.clean", "done"}
  <2>1. d \in tombDisk[r] \ {None} /\ d \in Invalidators
    BY DEF TypeInv, TypeOK
  <2>2. /\ run[d] = r /\ out[d] # "rejected"
        /\ pc[d] \in {"i.sync", "i.undo", "i.undosync", "i.clean", "done"}
    BY <2>1 DEF TombsOwned, TombOwned
  <2>3. CASE d = c
    <3>1. GoesOn(c) /\ Standing(c)
      BY <2>1, <2>2, <2>3 DEF Standing, Shown
    <3>2. Shown(c)' /\ run'[c] = run[c] /\ out'[c] # "rejected"
      BY <3>1 DEF GoesOn
    <3>3. pc'[c] \in {"i.sync", "i.undo", "i.clean", "done"}
      BY <2>1, <2>3, <3>2 DEF Shown, KindOfStage, StartStages, FinishWriting
    <3> QED
      BY <2>2, <2>3, <3>2, <3>3
  <2>4. CASE d # c
    BY <2>1, <2>2, <2>4 DEF OthersKeep
  <2> QED
    BY <2>3, <2>4
<1>2. ASSUME NEW r \in Runs, tomb[r] # None
      PROVE  pc'[tomb[r]] # "i.undosync"
  <2>1. tomb[r] \in Invalidators /\ pc[tomb[r]] # "i.undosync"
    BY <1>2 DEF TypeInv, TypeOK, TombsInSight
  <2>2. tomb[r] = c => Standing(c)
    BY <1>2, <2>1 DEF TombsInSight, TombsOwned, TombOwned, Standing, Shown
  <2>3. tomb[r] = c => pc'[c] # "i.undosync"
    BY <2>1, <2>2 DEF GoesOn, Shown
  <2> QED
    BY <2>1, <2>3 DEF OthersKeep
<1>3. ASSUME NEW d \in Invalidators,
             pc'[d] \in {"i.sync", "i.undo", "i.clean"}
      PROVE  tomb[run'[d]] = d
  <2>1. pc[d] \in {"i.sync", "i.undo", "i.clean"} /\ tomb[run[d]] = d
    BY <1>3 DEF OthersKeep, TombsInSight
  <2>2. d = c => run'[d] = run[d]
    BY <2>1 DEF GoesOn, Standing, Shown
  <2> QED
    BY <2>1, <2>2 DEF OthersKeep
<1> QED
  BY <1>1, <1>2, <1>3 DEF TombsOwned, TombOwned, TombsInSight

(* What calls report and leave, when only one of them moves.               *)
LEMMA TempsKeep ==
  ASSUME OutInv, TempsInv, NEW c \in Calls, OthersKeep(c),
         ReportsInOrder(c)', TempsInOrder(c)',
         budget \in [faults : Nat, swaps : Nat, kills : Nat, outages : Nat],
         budget'.faults \in Nat
  PROVE  OutInv' /\ TempsInv'
<1>1. budget'.faults = 0 => budget.faults = 0
  BY DEF OthersKeep
<1> QED
  BY <1>1 DEF OutInv, TempsInv, OthersKeep, ReportsInOrder, TempsInOrder


(* The versions when one call changes its own run's record.                *)
LEMMA RecordsSet ==
  ASSUME TypeInv, RecordsOwned, RecordsInSight, DiskHasRecord,
         NEW c \in Calls, NEW w, OthersKeep(c), KindOfStage(c)',
         run[c] \in Runs, run'[c] = run[c],
         rec' = [rec EXCEPT ![run[c]] = w],
         disk' = [disk EXCEPT ![run[c]] = @ \cup {w}],
         Standing(c) => Standing(c)' /\ out'[c] # "rejected",
         w # None => Owned(w, run[c])' /\ InSight(w)'
  PROVE  RecordsOwned' /\ RecordsInSight'
<1> USE CallsDisjoint, NoneIsNoVersion
<1>1. ASSUME NEW r \in Runs, NEW v \in disk[r] \ {None}
      PROVE  /\ v \in Version /\ v.origin \in Starters
             /\ v.finish \in Finishers \cup {None}
  BY DEF TypeInv, TypeOK, Version
<1>2. /\ rec'[run[c]] = w
      /\ \A r \in Runs : r # run[c] => rec'[r] = rec[r]
      /\ \A r \in Runs : \A v \in disk'[r] :
           v \in disk[r] \/ (r = run[c] /\ v = w)
  BY DEF TypeInv, TypeOK
<1>3. ASSUME NEW r \in Runs, NEW v \in disk[r] \ {None}
      PROVE  Owned(v, r)'
  <2>1. /\ v.origin \in Starters /\ v.finish \in Finishers \cup {None}
        /\ Owned(v, r)
    BY <1>1 DEF RecordsOwned
  <2>2. CASE v.origin = c
    <3>1. Standing(c)
      BY <2>1, <2>2 DEF Owned, Standing, Shown
    <3>2. Standing(c)' /\ out'[c] # "rejected"
      BY <3>1
    <3>3. pc'[c] \in {"s.sync", "s.undo", "s.undosync", "s.clean", "done"}
      BY <2>1, <2>2, <3>2 DEF Standing, Shown, KindOfStage, StartStages
    <3>4. v.finish # c
      BY <2>1, <2>2
    <3> QED
      BY <2>1, <2>2, <3>2, <3>3, <3>4 DEF OthersKeep, Owned
  <2>3. CASE v.finish = c
    <3>1. Standing(c)
      BY <2>1, <2>3 DEF Owned, Standing, Shown
    <3>2. Standing(c)' /\ out'[c] # "rejected"
      BY <3>1
    <3>3. pc'[c] \in {"f.sync", "f.undo", "f.undosync", "f.clean", "done"}
      BY <2>1, <2>3, <3>2 DEF Standing, Shown, KindOfStage, StartStages,
         InvalidateWriting
    <3>4. v.origin # c
      BY <2>1, <2>3
    <3> QED
      BY <2>1, <2>3, <3>2, <3>3, <3>4 DEF OthersKeep, Owned
  <2>4. CASE v.origin # c /\ v.finish # c
    BY <2>1, <2>4 DEF OthersKeep, Owned
  <2> QED
    BY <2>2, <2>3, <2>4
<1>4. ASSUME NEW r \in Runs, r # run[c], rec[r] # None
      PROVE  InSight(rec[r])'
  <2>1. rec[r] \in disk[r] \ {None}
    BY <1>4 DEF DiskHasRecord
  <2>2. /\ rec[r].origin \in Starters
        /\ rec[r].finish \in Finishers \cup {None}
        /\ Owned(rec[r], r) /\ InSight(rec[r])
    BY <1>1, <1>4, <2>1 DEF RecordsOwned, RecordsInSight
  <2>3. rec[r].origin # c /\ rec[r].finish # c
    BY <1>4, <2>2 DEF Owned
  <2>4. rec'[r] = rec[r]
    BY <1>2, <1>4
  <2> QED
    BY <2>2, <2>3, <2>4 DEF InSight, OthersKeep
<1>5. RecordsOwned'
  BY <1>2, <1>3 DEF RecordsOwned
<1>6. RecordsInSight'
  <2> SUFFICES ASSUME NEW r \in Runs, rec'[r] # None
               PROVE  InSight(rec[r])'
    BY DEF RecordsInSight
  <2>1. CASE r = run[c]
    BY <1>2, <2>1
  <2>2. CASE r # run[c]
    BY <1>2, <1>4, <2>2
  <2> QED
    BY <2>1, <2>2
<1> QED
  BY <1>5, <1>6

(* The versions when a call that took its own back has the disk wait for   *)
(* nothing more.                                                           *)
LEMMA RecordsSync ==
  ASSUME TypeInv, RecordsOwned, RecordsInSight, DiskHasRecord,
         NEW c \in Calls, OthersKeep(c), UNCHANGED rec,
         pc[c] \in {"s.undosync", "f.undosync"},
         disk' = [r \in Runs |-> {rec[r]}]
  PROVE  RecordsOwned' /\ RecordsInSight'
<1> USE CallsDisjoint, NoneIsNoVersion
<1>1. ASSUME NEW r \in Runs, rec[r] # None
      PROVE  Owned(rec[r], r)' /\ InSight(rec[r])'
  <2>1. rec[r] \in disk[r] \ {None}
    BY <1>1 DEF DiskHasRecord
  <2>2. /\ rec[r].origin \in Starters
        /\ rec[r].finish \in Finishers \cup {None}
    BY <2>1 DEF TypeInv, TypeOK, Version
  <2>3. Owned(rec[r], r) /\ InSight(rec[r])
    BY <1>1, <2>1 DEF RecordsOwned, RecordsInSight
  <2>4. rec[r].origin # c /\ rec[r].finish # c
    BY <2>2, <2>3 DEF Owned, InSight
  <2> QED
    BY <2>2, <2>3, <2>4 DEF Owned, InSight, OthersKeep
<1> QED
  BY <1>1 DEF RecordsOwned, RecordsInSight

(* The tombstones when one call sets or removes its own.                   *)
LEMMA TombsSet ==
  ASSUME TypeInv, TombsOwned, TombsInSight, NEW c \in Invalidators,
         NEW w \in {None, c}, OthersKeep(c), run[c] \in Runs, run'[c] = run[c],
         tomb[run[c]] \in {None, c}, out'[c] # "rejected",
         tomb' = [tomb EXCEPT ![run[c]] = w],
         tombDisk' = [tombDisk EXCEPT ![run[c]] = @ \cup {w}],
         pc'[c] = IF w = c THEN "i.sync" ELSE "i.undosync"
  PROVE  TombsOwned' /\ TombsInSight'
<1> USE CallsDisjoint, NoneIsNoVersion
<1>1. /\ tomb'[run[c]] = w
      /\ \A r \in Runs : r # run[c] => tomb'[r] = tomb[r]
      /\ \A r \in Runs : \A d \in tombDisk'[r] :
           d \in tombDisk[r] \/ (r = run[c] /\ d = w)
      /\ \A r \in Runs : tomb'[r] \in tombDisk'[r]
  BY DEF TypeInv, TypeOK, TombsInSight
<1>2. pc'[c] \in {"i.sync", "i.undosync"}
  OBVIOUS
<1>3. ASSUME NEW r \in Runs, NEW d \in tombDisk'[r] \ {None}
      PROVE  TombOwned(d, r)'
  <2>1. CASE d = c
    <3>1. r = run[c]
      BY <1>1, <2>1 DEF TombsOwned, TombOwned
    <3> QED
      BY <1>2, <2>1, <3>1 DEF TombOwned
  <2>2. CASE d # c
    <3>1. d \in tombDisk[r] \ {None}
      BY <1>1, <2>2
    <3>2. d \in Calls /\ TombOwned(d, r)
      BY <3>1 DEF TombsOwned, TypeInv, TypeOK
    <3> QED
      BY <2>2, <3>2 DEF TombOwned, OthersKeep
  <2> QED
    BY <2>1, <2>2
<1>4. ASSUME NEW r \in Runs, tomb'[r] # None
      PROVE  pc'[tomb'[r]] # "i.undosync"
  <2>1. CASE r = run[c]
    BY <1>1, <1>4, <2>1
  <2>2. CASE r # run[c]
    <3>1. tomb'[r] = tomb[r] /\ tomb[r] \in tombDisk[r] \ {None}
      BY <1>1, <1>4, <2>2 DEF TombsInSight
    <3>2. tomb[r] \in Calls \ {c}
      BY <2>2, <3>1 DEF TombsOwned, TombOwned, TypeInv, TypeOK
    <3> QED
      BY <1>4, <3>1, <3>2 DEF TombsInSight, OthersKeep
  <2> QED
    BY <2>1, <2>2
<1>5. ASSUME NEW d \in Invalidators,
             pc'[d] \in {"i.sync", "i.undo", "i.clean"}
      PROVE  tomb'[run'[d]] = d
  <2>1. CASE d = c
    BY <1>1, <1>5, <2>1
  <2>2. CASE d # c
    <3>1. pc[d] \in {"i.sync", "i.undo", "i.clean"} /\ run'[d] = run[d]
      BY <1>5, <2>2 DEF OthersKeep
    <3>2. tomb[run[d]] = d /\ run[d] \in Runs
      BY <3>1 DEF TombsInSight, TypeInv, RunKnown
    <3>3. run[d] # run[c]
      BY <2>2, <3>2
    <3> QED
      BY <1>1, <3>1, <3>2, <3>3
  <2> QED
    BY <2>1, <2>2
<1> QED
  BY <1>1, <1>3, <1>4, <1>5 DEF TombsOwned, TombsInSight

(* A step that adds no version and no tombstone.                           *)
AddsNoVersion(c) ==
  /\ GoesOn(c) \/ c \in Invalidators
  /\ UNCHANGED rec /\ \A r \in Runs : disk'[r] \subseteq disk[r]
AddsNoTomb(c) ==
  /\ GoesOn(c) \/ c \notin Invalidators
  /\ UNCHANGED tomb
  /\ \A r \in Runs : tombDisk'[r] \subseteq tombDisk[r]
                     /\ tomb[r] \in tombDisk'[r]
  /\ pc'[c] \in {"i.sync", "i.undo", "i.clean"} =>
       pc[c] \in {"i.sync", "i.undo", "i.clean"}

(* What an operation, or a kill, does to the other calls: nothing.         *)
LEMMA OneMoves ==
  ASSUME TypeInv, NEW c \in Calls, CallStep(c) \/ Kill(c) PROVE OthersKeep(c)
<1> USE CallsDisjoint, NoneIsNoVersion, BoundsAreNat
<1>a. /\ temps \in SUBSET Calls
      /\ backup \in [Calls -> Version \cup {None}]
      /\ pc \in [Calls -> Stages] /\ run \in [Calls -> Runs \cup {None}]
      /\ out \in [Calls -> {"none", "ok", "rejected", "uncertain", "killed"}]
      /\ budget \in [faults : Nat, swaps : Nat, kills : Nat, outages : Nat]
  BY DEF TypeInv, TypeOK
<1>1. CASE BeginStart(c)
  BY <1>1, <1>a DEF BeginStart, dirVars, Goto, Return, Faults, NoFault,
     OthersKeep
<1>2. CASE StartTemp(c)
  BY <1>2, <1>a DEF StartTemp, WriteTemp, WriteTempFails, dirVars, Goto,
     Return, Faults, NoFault, OthersKeep
<1>3. CASE StartClaim(c)
  BY <1>3, <1>a DEF StartClaim, SetRecord, Draft, Goto, Return, Faults,
     NoFault, OthersKeep
<1>4. CASE StartCollision(c)
  BY <1>4, <1>a DEF StartCollision, dirVars, Goto, Return, Faults, NoFault,
     OthersKeep
<1>5. CASE StartClaimFails(c)
  BY <1>5, <1>a DEF StartClaimFails, DropTemp, dirVars, Goto, Return, Faults,
     NoFault, OthersKeep
<1>6. CASE StartSync(c)
  BY <1>6, <1>a DEF StartSync, SyncRecords, Goto, Return, Faults, NoFault,
     OthersKeep
<1>7. CASE StartUndo(c)
  BY <1>7, <1>a DEF StartUndo, SetRecord, Goto, Return, Faults, NoFault,
     OthersKeep
<1>8. CASE StartUndoFails(c)
  BY <1>8, <1>a DEF StartUndoFails, DropTemp, dirVars, Goto, Return, Faults,
     NoFault, OthersKeep
<1>9. CASE StartUndoSync(c)
  BY <1>9, <1>a DEF StartUndoSync, DropTemp, SyncRecords, Goto, Return,
     Faults, NoFault, OthersKeep
<1>10. CASE StartClean(c)
  BY <1>10, <1>a DEF StartClean, DropTemp, dirVars, Goto, Return, Faults,
     NoFault, OthersKeep
<1>11. CASE BeginTransition(c)
  BY <1>11, <1>a DEF BeginTransition, dirVars, Goto, Return, Faults, NoFault,
     OthersKeep
<1>12. CASE OpenLock(c)
  BY <1>12, <1>a DEF OpenLock, dirVars, Goto, Return, Faults, NoFault,
     OthersKeep
<1>13. CASE AcquireLock(c)
  BY <1>13, <1>a DEF AcquireLock, dirVars, Goto, Return, Faults, NoFault,
     OthersKeep
<1>14. CASE OpenRecord(c)
  BY <1>14, <1>a DEF OpenRecord, dirVars, Goto, Return, Faults, NoFault,
     OthersKeep
<1>15. CASE ReadRecord(c)
  BY <1>15, <1>a DEF ReadRecord, dirVars, Goto, Return, Faults, NoFault,
     OthersKeep
<1>16. CASE RereadRecord(c)
  BY <1>16, <1>a DEF RereadRecord, dirVars, Goto, Return, Faults, NoFault,
     OthersKeep
<1>17. CASE HeadFails(c)
  BY <1>17, <1>a DEF HeadFails, dirVars, Goto, Return, Faults, NoFault,
     OthersKeep
<1>18. CASE FinishTemp(c)
  BY <1>18, <1>a DEF FinishTemp, WriteTemp, WriteTempFails, dirVars, Goto,
     Return, Faults, NoFault, OthersKeep
<1>19. CASE FinishBackup(c)
  BY <1>19, <1>a DEF FinishBackup, DropTemp, dirVars, Goto, Return, Faults,
     NoFault, OthersKeep
<1>20. CASE FinishReplace(c)
  BY <1>20, <1>a DEF FinishReplace, SetRecord, Completed, Goto, Return,
     Faults, NoFault, OthersKeep
<1>21. CASE FinishReplaceFails(c)
  BY <1>21, <1>a DEF FinishReplaceFails, DropTemp, dirVars, Goto, Return,
     Faults, NoFault, OthersKeep
<1>22. CASE FinishSync(c)
  BY <1>22, <1>a DEF FinishSync, SyncRecords, Goto, Return, Faults, NoFault,
     OthersKeep
<1>23. CASE FinishUndo(c)
  BY <1>23, <1>a DEF FinishUndo, SetRecord, Goto, Return, Faults, NoFault,
     OthersKeep
<1>24. CASE FinishUndoFails(c)
  BY <1>24, <1>a DEF FinishUndoFails, dirVars, Goto, Return, Faults, NoFault,
     OthersKeep
<1>25. CASE FinishUndoSync(c)
  BY <1>25, <1>a DEF FinishUndoSync, SyncRecords, Goto, Return, Faults,
     NoFault, OthersKeep
<1>26. CASE FinishClean(c)
  BY <1>26, <1>a DEF FinishClean, SyncRecords, Goto, Return, Faults, NoFault,
     OthersKeep
<1>27. CASE InvalidateTemp(c)
  BY <1>27, <1>a DEF InvalidateTemp, WriteTemp, WriteTempFails, Goto, Return,
     Faults, NoFault, OthersKeep
<1>28. CASE InvalidateClaim(c)
  BY <1>28, <1>a DEF InvalidateClaim, SetTomb, Goto, Return, Faults, NoFault,
     OthersKeep
<1>29. CASE InvalidateClaimFails(c)
  BY <1>29, <1>a DEF InvalidateClaimFails, DropTemp, dirVars, Goto, Return,
     Faults, NoFault, OthersKeep
<1>30. CASE InvalidateSync(c)
  BY <1>30, <1>a DEF InvalidateSync, SyncTombs, Goto, Return, Faults,
     NoFault, OthersKeep
<1>31. CASE InvalidateUndo(c)
  BY <1>31, <1>a DEF InvalidateUndo, SetTomb, Goto, Return, Faults, NoFault,
     OthersKeep
<1>32. CASE InvalidateUndoFails(c)
  BY <1>32, <1>a DEF InvalidateUndoFails, DropTemp, dirVars, Goto, Return,
     Faults, NoFault, OthersKeep
<1>33. CASE InvalidateUndoSync(c)
  BY <1>33, <1>a DEF InvalidateUndoSync, DropTemp, SyncTombs, Goto, Return,
     Faults, NoFault, OthersKeep
<1>34. CASE InvalidateClean(c)
  BY <1>34, <1>a DEF InvalidateClean, DropTemp, dirVars, Goto, Return,
     Faults, NoFault, OthersKeep
<1>35. CASE Kill(c)
  BY <1>35, <1>a DEF Kill, Live, dirVars, Goto, Return, Faults, NoFault,
     OthersKeep
<1> QED
  BY <1>1, <1>2, <1>3, <1>4, <1>5, <1>6, <1>7, <1>8, <1>9, <1>10, <1>11,
     <1>12, <1>13, <1>14, <1>15, <1>16, <1>17, <1>18, <1>19, <1>20, <1>21,
     <1>22, <1>23, <1>24, <1>25, <1>26, <1>27, <1>28, <1>29, <1>30, <1>31,
     <1>32, <1>33, <1>34, <1>35 DEF CallStep, StartStep, HeadStep,
     FinishStep, InvalidateStep

(* Every step keeps it, as long as nobody finishes or invalidates a run    *)
(* whose start may still roll back.                                        *)
LEMMA OwnStep ==
  ASSUME ~EarlyCallers, StandsInv, OwnInv, [Next]_vars PROVE OwnInv'
<1> USE CallsDisjoint, NoneIsNoVersion, BoundsAreNat
<1>a. /\ rec \in [Runs -> Version \cup {None}]
      /\ disk \in [Runs -> SUBSET (Version \cup {None})]
      /\ tomb \in [Runs -> Invalidators \cup {None}]
      /\ tombDisk \in [Runs -> SUBSET (Invalidators \cup {None})]
      /\ temps \in SUBSET Calls
      /\ backup \in [Calls -> Version \cup {None}]
      /\ pc \in [Calls -> Stages] /\ run \in [Calls -> Runs \cup {None}]
      /\ recFd \in [Calls -> Version \cup {None}]
      /\ out \in [Calls -> {"none", "ok", "rejected", "uncertain", "killed"}]
      /\ budget \in [faults : Nat, swaps : Nat, kills : Nat, outages : Nat]
  BY DEF StandsInv, TypeInv, TypeOK
<1>b. /\ OutInv /\ RecordsOwned /\ RecordsInSight /\ TombsOwned
      /\ TombsInSight /\ TempsInv
  BY DEF OwnInv
<1>c. TypeInv /\ ClaimInv /\ FinishInv /\ DiskHasRecord
  BY DEF StandsInv, CommitInv
<1>d. TypeInv'
  BY <1>c, TypeStep
<1>e. budget' \in [faults : Nat, swaps : Nat, kills : Nat, outages : Nat]
  BY <1>d DEF TypeInv, TypeOK
<1>f. \A c \in Calls : KindOfStage(c)'
  BY <1>d DEF TypeInv, OwnStages, KindOfStage, StartStages, FinishWriting,
     InvalidateWriting
<1>g. \A c \in Calls : ReportsInOrder(c) /\ TempsInOrder(c)
  BY <1>b DEF OutInv, TempsInv, ReportsInOrder, TempsInOrder
<1>h. \A c \in Calls : pc[c] \notin {"idle", "done", "s.temp"} => run[c] \in Runs
  BY <1>c DEF TypeInv, RunKnown
<1>i. \A c \in Calls : CallStep(c) \/ Kill(c) => OthersKeep(c)
  BY <1>c, OneMoves
<1>1. ASSUME NEW c \in Starters, OthersKeep(c), BeginStart(c)
      PROVE  OwnInv'
  <2>1. ReportsInOrder(c)' /\ TempsInOrder(c)'
    BY <1>1, <1>a, <1>g DEF BeginStart, dirVars, Goto, Return, Faults,
       NoFault, ReportsInOrder, TempsInOrder, MayHaveTemp, MayHaveBackup
  <2>2. OutInv' /\ TempsInv'
    BY <1>1, <2>1, <1>a, <1>b, <1>e, TempsKeep
  <2>3. RecordsOwned' /\ RecordsInSight'
    <3>1. AddsNoVersion(c)
      BY <1>1, <1>a, <1>c DEF BeginStart, dirVars, Goto, Return, Faults,
         NoFault, AddsNoVersion, DiskHasRecord, GoesOn, Standing, Shown
    <3> QED
      BY <1>1, <3>1, <1>b, <1>c, <1>f, RecordsKeep DEF AddsNoVersion
  <2>4. TombsOwned' /\ TombsInSight'
    <3>1. AddsNoTomb(c)
      BY <1>1, <1>a, <1>b DEF BeginStart, dirVars, Goto, Return, Faults,
         NoFault, AddsNoTomb, TombsInSight, GoesOn, Standing, Shown
    <3> QED
      BY <1>1, <3>1, <1>b, <1>c, <1>f, TombsKeep DEF AddsNoTomb
  <2> QED
    BY <2>2, <2>3, <2>4 DEF OwnInv
<1>2. ASSUME NEW c \in Starters, OthersKeep(c), StartTemp(c)
      PROVE  OwnInv'
  <2>1. ReportsInOrder(c)' /\ TempsInOrder(c)'
    BY <1>2, <1>a, <1>g DEF StartTemp, WriteTemp, WriteTempFails, dirVars,
       Goto, Return, Faults, NoFault, ReportsInOrder, TempsInOrder,
       MayHaveTemp, MayHaveBackup
  <2>2. OutInv' /\ TempsInv'
    BY <1>2, <2>1, <1>a, <1>b, <1>e, TempsKeep
  <2>3. RecordsOwned' /\ RecordsInSight'
    <3>1. AddsNoVersion(c)
      BY <1>2, <1>a, <1>c DEF StartTemp, WriteTemp, WriteTempFails, dirVars,
         Goto, Return, Faults, NoFault, AddsNoVersion, DiskHasRecord, GoesOn,
         Standing, Shown
    <3> QED
      BY <1>2, <3>1, <1>b, <1>c, <1>f, RecordsKeep DEF AddsNoVersion
  <2>4. TombsOwned' /\ TombsInSight'
    <3>1. AddsNoTomb(c)
      BY <1>2, <1>a, <1>b DEF StartTemp, WriteTemp, WriteTempFails, dirVars,
         Goto, Return, Faults, NoFault, AddsNoTomb, TombsInSight, GoesOn,
         Standing, Shown
    <3> QED
      BY <1>2, <3>1, <1>b, <1>c, <1>f, TombsKeep DEF AddsNoTomb
  <2> QED
    BY <2>2, <2>3, <2>4 DEF OwnInv
<1>3. ASSUME NEW c \in Starters, OthersKeep(c), StartClaim(c)
      PROVE  OwnInv'
  <2>1. ReportsInOrder(c)' /\ TempsInOrder(c)'
    BY <1>3, <1>a, <1>g DEF StartClaim, SetRecord, Draft, Goto, Return,
       Faults, NoFault, ReportsInOrder, TempsInOrder, MayHaveTemp,
       MayHaveBackup
  <2>2. OutInv' /\ TempsInv'
    BY <1>3, <2>1, <1>a, <1>b, <1>e, TempsKeep
  <2>3. RecordsOwned' /\ RecordsInSight'
    <3>1. /\ pc[c] = "s.link" /\ run[c] \in Runs /\ out[c] = "none"
          /\ rec' = [rec EXCEPT ![run[c]] = Draft(c)]
          /\ disk' = [disk EXCEPT ![run[c]] = @ \cup {Draft(c)}]
          /\ pc'[c] = "s.sync" /\ run'[c] = run[c] /\ out'[c] = "none"
      BY <1>3, <1>a, <1>g, <1>h DEF StartClaim, SetRecord, Goto, ReportsInOrder
    <3>2. Owned(Draft(c), run[c])' /\ InSight(Draft(c))'
      BY <3>1 DEF Owned, InSight, Draft
    <3>3. ~Standing(c)
      BY <3>1 DEF Standing, Shown
    <3> QED
      BY <1>3, <3>1, <3>2, <3>3, <1>b, <1>c, <1>f, RecordsSet
  <2>4. TombsOwned' /\ TombsInSight'
    <3>1. AddsNoTomb(c)
      BY <1>3, <1>a, <1>b DEF StartClaim, SetRecord, Draft, Goto, Return,
         Faults, NoFault, AddsNoTomb, TombsInSight, GoesOn, Standing, Shown
    <3> QED
      BY <1>3, <3>1, <1>b, <1>c, <1>f, TombsKeep DEF AddsNoTomb
  <2> QED
    BY <2>2, <2>3, <2>4 DEF OwnInv
<1>4. ASSUME NEW c \in Starters, OthersKeep(c), StartCollision(c)
      PROVE  OwnInv'
  <2>1. ReportsInOrder(c)' /\ TempsInOrder(c)'
    BY <1>4, <1>a, <1>g DEF StartCollision, dirVars, Goto, Return, Faults,
       NoFault, ReportsInOrder, TempsInOrder, MayHaveTemp, MayHaveBackup
  <2>2. OutInv' /\ TempsInv'
    BY <1>4, <2>1, <1>a, <1>b, <1>e, TempsKeep
  <2>3. RecordsOwned' /\ RecordsInSight'
    <3>1. AddsNoVersion(c)
      BY <1>4, <1>a, <1>c DEF StartCollision, dirVars, Goto, Return, Faults,
         NoFault, AddsNoVersion, DiskHasRecord, GoesOn, Standing, Shown
    <3> QED
      BY <1>4, <3>1, <1>b, <1>c, <1>f, RecordsKeep DEF AddsNoVersion
  <2>4. TombsOwned' /\ TombsInSight'
    <3>1. AddsNoTomb(c)
      BY <1>4, <1>a, <1>b DEF StartCollision, dirVars, Goto, Return, Faults,
         NoFault, AddsNoTomb, TombsInSight, GoesOn, Standing, Shown
    <3> QED
      BY <1>4, <3>1, <1>b, <1>c, <1>f, TombsKeep DEF AddsNoTomb
  <2> QED
    BY <2>2, <2>3, <2>4 DEF OwnInv
<1>5. ASSUME NEW c \in Starters, OthersKeep(c), StartClaimFails(c)
      PROVE  OwnInv'
  <2>1. ReportsInOrder(c)' /\ TempsInOrder(c)'
    BY <1>5, <1>a, <1>g DEF StartClaimFails, DropTemp, dirVars, Goto, Return,
       Faults, NoFault, ReportsInOrder, TempsInOrder, MayHaveTemp,
       MayHaveBackup
  <2>2. OutInv' /\ TempsInv'
    BY <1>5, <2>1, <1>a, <1>b, <1>e, TempsKeep
  <2>3. RecordsOwned' /\ RecordsInSight'
    <3>1. AddsNoVersion(c)
      BY <1>5, <1>a, <1>c DEF StartClaimFails, DropTemp, dirVars, Goto,
         Return, Faults, NoFault, AddsNoVersion, DiskHasRecord, GoesOn,
         Standing, Shown
    <3> QED
      BY <1>5, <3>1, <1>b, <1>c, <1>f, RecordsKeep DEF AddsNoVersion
  <2>4. TombsOwned' /\ TombsInSight'
    <3>1. AddsNoTomb(c)
      BY <1>5, <1>a, <1>b DEF StartClaimFails, DropTemp, dirVars, Goto,
         Return, Faults, NoFault, AddsNoTomb, TombsInSight, GoesOn, Standing,
         Shown
    <3> QED
      BY <1>5, <3>1, <1>b, <1>c, <1>f, TombsKeep DEF AddsNoTomb
  <2> QED
    BY <2>2, <2>3, <2>4 DEF OwnInv
<1>6. ASSUME NEW c \in Starters, OthersKeep(c), StartSync(c)
      PROVE  OwnInv'
  <2>1. ReportsInOrder(c)' /\ TempsInOrder(c)'
    BY <1>6, <1>a, <1>g DEF StartSync, SyncRecords, Goto, Return, Faults,
       NoFault, ReportsInOrder, TempsInOrder, MayHaveTemp, MayHaveBackup
  <2>2. OutInv' /\ TempsInv'
    BY <1>6, <2>1, <1>a, <1>b, <1>e, TempsKeep
  <2>3. RecordsOwned' /\ RecordsInSight'
    <3>1. AddsNoVersion(c)
      BY <1>6, <1>a, <1>c, <1>g DEF StartSync, SyncRecords, Goto, Return,
         Faults, NoFault, AddsNoVersion, DiskHasRecord, GoesOn, Standing,
         Shown, ReportsInOrder
    <3> QED
      BY <1>6, <3>1, <1>b, <1>c, <1>f, RecordsKeep DEF AddsNoVersion
  <2>4. TombsOwned' /\ TombsInSight'
    <3>1. AddsNoTomb(c)
      BY <1>6, <1>a, <1>b, <1>g DEF StartSync, SyncRecords, Goto, Return,
         Faults, NoFault, AddsNoTomb, TombsInSight, GoesOn, Standing, Shown,
         ReportsInOrder
    <3> QED
      BY <1>6, <3>1, <1>b, <1>c, <1>f, TombsKeep DEF AddsNoTomb
  <2> QED
    BY <2>2, <2>3, <2>4 DEF OwnInv
<1>7. ASSUME NEW c \in Starters, OthersKeep(c), StartUndo(c)
      PROVE  OwnInv'
  <2>1. ReportsInOrder(c)' /\ TempsInOrder(c)'
    BY <1>7, <1>a, <1>g DEF StartUndo, SetRecord, Goto, Return, Faults,
       NoFault, ReportsInOrder, TempsInOrder, MayHaveTemp, MayHaveBackup
  <2>2. OutInv' /\ TempsInv'
    BY <1>7, <2>1, <1>a, <1>b, <1>e, TempsKeep
  <2>3. RecordsOwned' /\ RecordsInSight'
    <3>1. /\ pc[c] = "s.undo" /\ run[c] \in Runs /\ out[c] = "none"
          /\ rec' = [rec EXCEPT ![run[c]] = None]
          /\ disk' = [disk EXCEPT ![run[c]] = @ \cup {None}]
          /\ pc'[c] = "s.undosync" /\ run'[c] = run[c] /\ out'[c] = "none"
      BY <1>7, <1>a, <1>g, <1>h DEF StartUndo, SetRecord, Goto, ReportsInOrder
    <3>2. Standing(c)'
      BY <3>1 DEF Standing
    <3> QED
      BY <1>7, <3>1, <3>2, <1>b, <1>c, <1>f, RecordsSet
  <2>4. TombsOwned' /\ TombsInSight'
    <3>1. AddsNoTomb(c)
      BY <1>7, <1>a, <1>b DEF StartUndo, SetRecord, Goto, Return, Faults,
         NoFault, AddsNoTomb, TombsInSight, GoesOn, Standing, Shown
    <3> QED
      BY <1>7, <3>1, <1>b, <1>c, <1>f, TombsKeep DEF AddsNoTomb
  <2> QED
    BY <2>2, <2>3, <2>4 DEF OwnInv
<1>8. ASSUME NEW c \in Starters, OthersKeep(c), StartUndoFails(c)
      PROVE  OwnInv'
  <2>1. ReportsInOrder(c)' /\ TempsInOrder(c)'
    BY <1>8, <1>a, <1>g DEF StartUndoFails, DropTemp, dirVars, Goto, Return,
       Faults, NoFault, ReportsInOrder, TempsInOrder, MayHaveTemp,
       MayHaveBackup
  <2>2. OutInv' /\ TempsInv'
    BY <1>8, <2>1, <1>a, <1>b, <1>e, TempsKeep
  <2>3. RecordsOwned' /\ RecordsInSight'
    <3>1. AddsNoVersion(c)
      BY <1>8, <1>a, <1>c DEF StartUndoFails, DropTemp, dirVars, Goto,
         Return, Faults, NoFault, AddsNoVersion, DiskHasRecord, GoesOn,
         Standing, Shown
    <3> QED
      BY <1>8, <3>1, <1>b, <1>c, <1>f, RecordsKeep DEF AddsNoVersion
  <2>4. TombsOwned' /\ TombsInSight'
    <3>1. AddsNoTomb(c)
      BY <1>8, <1>a, <1>b DEF StartUndoFails, DropTemp, dirVars, Goto,
         Return, Faults, NoFault, AddsNoTomb, TombsInSight, GoesOn, Standing,
         Shown
    <3> QED
      BY <1>8, <3>1, <1>b, <1>c, <1>f, TombsKeep DEF AddsNoTomb
  <2> QED
    BY <2>2, <2>3, <2>4 DEF OwnInv
<1>9. ASSUME NEW c \in Starters, OthersKeep(c), StartUndoSync(c)
      PROVE  OwnInv'
  <2>1. ReportsInOrder(c)' /\ TempsInOrder(c)'
    BY <1>9, <1>a, <1>g DEF StartUndoSync, DropTemp, SyncRecords, Goto,
       Return, Faults, NoFault, ReportsInOrder, TempsInOrder, MayHaveTemp,
       MayHaveBackup
  <2>2. OutInv' /\ TempsInv'
    BY <1>9, <2>1, <1>a, <1>b, <1>e, TempsKeep
  <2>3. RecordsOwned' /\ RecordsInSight'
    <3>1. /\ pc[c] = "s.undosync" /\ UNCHANGED <<rec, run>>
          /\ pc'[c] = "done"
      BY <1>9, <1>a DEF StartUndoSync, Goto, Return
    <3>2. CASE disk' = [r \in Runs |-> {rec[r]}]
      BY <1>9, <3>1, <3>2, <1>b, <1>c, RecordsSync
    <3>3. CASE UNCHANGED disk /\ out'[c] = "uncertain"
      <4>1. GoesOn(c)
        BY <3>1, <3>3 DEF GoesOn, Shown
      <4> QED
        BY <1>9, <3>1, <3>3, <4>1, <1>b, <1>c, <1>f, RecordsKeep
    <3> QED
      BY <1>9, <1>a, <3>2, <3>3 DEF StartUndoSync, SyncRecords, Goto, Return
  <2>4. TombsOwned' /\ TombsInSight'
    <3>1. AddsNoTomb(c)
      BY <1>9, <1>a, <1>b, <1>g DEF StartUndoSync, DropTemp, SyncRecords,
         Goto, Return, Faults, NoFault, AddsNoTomb, TombsInSight, GoesOn,
         Standing, Shown, ReportsInOrder
    <3> QED
      BY <1>9, <3>1, <1>b, <1>c, <1>f, TombsKeep DEF AddsNoTomb
  <2> QED
    BY <2>2, <2>3, <2>4 DEF OwnInv
<1>10. ASSUME NEW c \in Starters, OthersKeep(c), StartClean(c)
      PROVE  OwnInv'
  <2>1. ReportsInOrder(c)' /\ TempsInOrder(c)'
    BY <1>10, <1>a, <1>g DEF StartClean, DropTemp, dirVars, Goto, Return,
       Faults, NoFault, ReportsInOrder, TempsInOrder, MayHaveTemp,
       MayHaveBackup
  <2>2. OutInv' /\ TempsInv'
    BY <1>10, <2>1, <1>a, <1>b, <1>e, TempsKeep
  <2>3. RecordsOwned' /\ RecordsInSight'
    <3>1. AddsNoVersion(c)
      BY <1>10, <1>a, <1>c DEF StartClean, DropTemp, dirVars, Goto, Return,
         Faults, NoFault, AddsNoVersion, DiskHasRecord, GoesOn, Standing,
         Shown
    <3> QED
      BY <1>10, <3>1, <1>b, <1>c, <1>f, RecordsKeep DEF AddsNoVersion
  <2>4. TombsOwned' /\ TombsInSight'
    <3>1. AddsNoTomb(c)
      BY <1>10, <1>a, <1>b DEF StartClean, DropTemp, dirVars, Goto, Return,
         Faults, NoFault, AddsNoTomb, TombsInSight, GoesOn, Standing, Shown
    <3> QED
      BY <1>10, <3>1, <1>b, <1>c, <1>f, TombsKeep DEF AddsNoTomb
  <2> QED
    BY <2>2, <2>3, <2>4 DEF OwnInv
<1>11. ASSUME NEW c \in Transitions, OthersKeep(c), BeginTransition(c)
      PROVE  OwnInv'
  <2>1. ReportsInOrder(c)' /\ TempsInOrder(c)'
    BY <1>11, <1>a, <1>g DEF BeginTransition, dirVars, Goto, Return, Faults,
       NoFault, ReportsInOrder, TempsInOrder, MayHaveTemp, MayHaveBackup
  <2>2. OutInv' /\ TempsInv'
    BY <1>11, <2>1, <1>a, <1>b, <1>e, TempsKeep
  <2>3. RecordsOwned' /\ RecordsInSight'
    <3>1. AddsNoVersion(c)
      BY <1>11, <1>a, <1>c DEF BeginTransition, dirVars, Goto, Return,
         Faults, NoFault, AddsNoVersion, DiskHasRecord, GoesOn, Standing,
         Shown
    <3> QED
      BY <1>11, <3>1, <1>b, <1>c, <1>f, RecordsKeep DEF AddsNoVersion
  <2>4. TombsOwned' /\ TombsInSight'
    <3>1. AddsNoTomb(c)
      BY <1>11, <1>a, <1>b DEF BeginTransition, dirVars, Goto, Return,
         Faults, NoFault, AddsNoTomb, TombsInSight, GoesOn, Standing, Shown
    <3> QED
      BY <1>11, <3>1, <1>b, <1>c, <1>f, TombsKeep DEF AddsNoTomb
  <2> QED
    BY <2>2, <2>3, <2>4 DEF OwnInv
<1>12. ASSUME NEW c \in Transitions, OthersKeep(c), OpenLock(c)
      PROVE  OwnInv'
  <2>1. ReportsInOrder(c)' /\ TempsInOrder(c)'
    BY <1>12, <1>a, <1>g DEF OpenLock, dirVars, Goto, Return, Faults,
       NoFault, ReportsInOrder, TempsInOrder, MayHaveTemp, MayHaveBackup
  <2>2. OutInv' /\ TempsInv'
    BY <1>12, <2>1, <1>a, <1>b, <1>e, TempsKeep
  <2>3. RecordsOwned' /\ RecordsInSight'
    <3>1. AddsNoVersion(c)
      BY <1>12, <1>a, <1>c DEF OpenLock, dirVars, Goto, Return, Faults,
         NoFault, AddsNoVersion, DiskHasRecord, GoesOn, Standing, Shown
    <3> QED
      BY <1>12, <3>1, <1>b, <1>c, <1>f, RecordsKeep DEF AddsNoVersion
  <2>4. TombsOwned' /\ TombsInSight'
    <3>1. AddsNoTomb(c)
      BY <1>12, <1>a, <1>b DEF OpenLock, dirVars, Goto, Return, Faults,
         NoFault, AddsNoTomb, TombsInSight, GoesOn, Standing, Shown
    <3> QED
      BY <1>12, <3>1, <1>b, <1>c, <1>f, TombsKeep DEF AddsNoTomb
  <2> QED
    BY <2>2, <2>3, <2>4 DEF OwnInv
<1>13. ASSUME NEW c \in Transitions, OthersKeep(c), AcquireLock(c)
      PROVE  OwnInv'
  <2>1. ReportsInOrder(c)' /\ TempsInOrder(c)'
    BY <1>13, <1>a, <1>g DEF AcquireLock, dirVars, Goto, Return, Faults,
       NoFault, ReportsInOrder, TempsInOrder, MayHaveTemp, MayHaveBackup
  <2>2. OutInv' /\ TempsInv'
    BY <1>13, <2>1, <1>a, <1>b, <1>e, TempsKeep
  <2>3. RecordsOwned' /\ RecordsInSight'
    <3>1. AddsNoVersion(c)
      BY <1>13, <1>a, <1>c DEF AcquireLock, dirVars, Goto, Return, Faults,
         NoFault, AddsNoVersion, DiskHasRecord, GoesOn, Standing, Shown
    <3> QED
      BY <1>13, <3>1, <1>b, <1>c, <1>f, RecordsKeep DEF AddsNoVersion
  <2>4. TombsOwned' /\ TombsInSight'
    <3>1. AddsNoTomb(c)
      BY <1>13, <1>a, <1>b DEF AcquireLock, dirVars, Goto, Return, Faults,
         NoFault, AddsNoTomb, TombsInSight, GoesOn, Standing, Shown
    <3> QED
      BY <1>13, <3>1, <1>b, <1>c, <1>f, TombsKeep DEF AddsNoTomb
  <2> QED
    BY <2>2, <2>3, <2>4 DEF OwnInv
<1>14. ASSUME NEW c \in Transitions, OthersKeep(c), OpenRecord(c)
      PROVE  OwnInv'
  <2>1. ReportsInOrder(c)' /\ TempsInOrder(c)'
    BY <1>14, <1>a, <1>g DEF OpenRecord, dirVars, Goto, Return, Faults,
       NoFault, ReportsInOrder, TempsInOrder, MayHaveTemp, MayHaveBackup
  <2>2. OutInv' /\ TempsInv'
    BY <1>14, <2>1, <1>a, <1>b, <1>e, TempsKeep
  <2>3. RecordsOwned' /\ RecordsInSight'
    <3>1. AddsNoVersion(c)
      BY <1>14, <1>a, <1>c DEF OpenRecord, dirVars, Goto, Return, Faults,
         NoFault, AddsNoVersion, DiskHasRecord, GoesOn, Standing, Shown
    <3> QED
      BY <1>14, <3>1, <1>b, <1>c, <1>f, RecordsKeep DEF AddsNoVersion
  <2>4. TombsOwned' /\ TombsInSight'
    <3>1. AddsNoTomb(c)
      BY <1>14, <1>a, <1>b DEF OpenRecord, dirVars, Goto, Return, Faults,
         NoFault, AddsNoTomb, TombsInSight, GoesOn, Standing, Shown
    <3> QED
      BY <1>14, <3>1, <1>b, <1>c, <1>f, TombsKeep DEF AddsNoTomb
  <2> QED
    BY <2>2, <2>3, <2>4 DEF OwnInv
<1>15. ASSUME NEW c \in Transitions, OthersKeep(c), ReadRecord(c)
      PROVE  OwnInv'
  <2>1. ReportsInOrder(c)' /\ TempsInOrder(c)'
    BY <1>15, <1>a, <1>g DEF ReadRecord, dirVars, Goto, Return, Faults,
       NoFault, ReportsInOrder, TempsInOrder, MayHaveTemp, MayHaveBackup
  <2>2. OutInv' /\ TempsInv'
    BY <1>15, <2>1, <1>a, <1>b, <1>e, TempsKeep
  <2>3. RecordsOwned' /\ RecordsInSight'
    <3>1. AddsNoVersion(c)
      BY <1>15, <1>a, <1>c DEF ReadRecord, dirVars, Goto, Return, Faults,
         NoFault, AddsNoVersion, DiskHasRecord, GoesOn, Standing, Shown
    <3> QED
      BY <1>15, <3>1, <1>b, <1>c, <1>f, RecordsKeep DEF AddsNoVersion
  <2>4. TombsOwned' /\ TombsInSight'
    <3>1. AddsNoTomb(c)
      BY <1>15, <1>a, <1>b DEF ReadRecord, dirVars, Goto, Return, Faults,
         NoFault, AddsNoTomb, TombsInSight, GoesOn, Standing, Shown
    <3> QED
      BY <1>15, <3>1, <1>b, <1>c, <1>f, TombsKeep DEF AddsNoTomb
  <2> QED
    BY <2>2, <2>3, <2>4 DEF OwnInv
<1>16. ASSUME NEW c \in Transitions, OthersKeep(c), RereadRecord(c)
      PROVE  OwnInv'
  <2>1. ReportsInOrder(c)' /\ TempsInOrder(c)'
    BY <1>16, <1>a, <1>g DEF RereadRecord, dirVars, Goto, Return, Faults,
       NoFault, ReportsInOrder, TempsInOrder, MayHaveTemp, MayHaveBackup
  <2>2. OutInv' /\ TempsInv'
    BY <1>16, <2>1, <1>a, <1>b, <1>e, TempsKeep
  <2>3. RecordsOwned' /\ RecordsInSight'
    <3>1. AddsNoVersion(c)
      BY <1>16, <1>a, <1>c DEF RereadRecord, dirVars, Goto, Return, Faults,
         NoFault, AddsNoVersion, DiskHasRecord, GoesOn, Standing, Shown
    <3> QED
      BY <1>16, <3>1, <1>b, <1>c, <1>f, RecordsKeep DEF AddsNoVersion
  <2>4. TombsOwned' /\ TombsInSight'
    <3>1. AddsNoTomb(c)
      BY <1>16, <1>a, <1>b DEF RereadRecord, dirVars, Goto, Return, Faults,
         NoFault, AddsNoTomb, TombsInSight, GoesOn, Standing, Shown
    <3> QED
      BY <1>16, <3>1, <1>b, <1>c, <1>f, TombsKeep DEF AddsNoTomb
  <2> QED
    BY <2>2, <2>3, <2>4 DEF OwnInv
<1>17. ASSUME NEW c \in Transitions, OthersKeep(c), HeadFails(c)
      PROVE  OwnInv'
  <2>1. ReportsInOrder(c)' /\ TempsInOrder(c)'
    BY <1>17, <1>a, <1>g DEF HeadFails, dirVars, Goto, Return, Faults,
       NoFault, ReportsInOrder, TempsInOrder, MayHaveTemp, MayHaveBackup
  <2>2. OutInv' /\ TempsInv'
    BY <1>17, <2>1, <1>a, <1>b, <1>e, TempsKeep
  <2>3. RecordsOwned' /\ RecordsInSight'
    <3>1. AddsNoVersion(c)
      BY <1>17, <1>a, <1>c DEF HeadFails, dirVars, Goto, Return, Faults,
         NoFault, AddsNoVersion, DiskHasRecord, GoesOn, Standing, Shown
    <3> QED
      BY <1>17, <3>1, <1>b, <1>c, <1>f, RecordsKeep DEF AddsNoVersion
  <2>4. TombsOwned' /\ TombsInSight'
    <3>1. AddsNoTomb(c)
      BY <1>17, <1>a, <1>b DEF HeadFails, dirVars, Goto, Return, Faults,
         NoFault, AddsNoTomb, TombsInSight, GoesOn, Standing, Shown
    <3> QED
      BY <1>17, <3>1, <1>b, <1>c, <1>f, TombsKeep DEF AddsNoTomb
  <2> QED
    BY <2>2, <2>3, <2>4 DEF OwnInv
<1>18. ASSUME NEW c \in Finishers, OthersKeep(c), FinishTemp(c)
      PROVE  OwnInv'
  <2>1. ReportsInOrder(c)' /\ TempsInOrder(c)'
    BY <1>18, <1>a, <1>g DEF FinishTemp, WriteTemp, WriteTempFails, dirVars,
       Goto, Return, Faults, NoFault, ReportsInOrder, TempsInOrder,
       MayHaveTemp, MayHaveBackup
  <2>2. OutInv' /\ TempsInv'
    BY <1>18, <2>1, <1>a, <1>b, <1>e, TempsKeep
  <2>3. RecordsOwned' /\ RecordsInSight'
    <3>1. AddsNoVersion(c)
      BY <1>18, <1>a, <1>c DEF FinishTemp, WriteTemp, WriteTempFails,
         dirVars, Goto, Return, Faults, NoFault, AddsNoVersion,
         DiskHasRecord, GoesOn, Standing, Shown
    <3> QED
      BY <1>18, <3>1, <1>b, <1>c, <1>f, RecordsKeep DEF AddsNoVersion
  <2>4. TombsOwned' /\ TombsInSight'
    <3>1. AddsNoTomb(c)
      BY <1>18, <1>a, <1>b DEF FinishTemp, WriteTemp, WriteTempFails,
         dirVars, Goto, Return, Faults, NoFault, AddsNoTomb, TombsInSight,
         GoesOn, Standing, Shown
    <3> QED
      BY <1>18, <3>1, <1>b, <1>c, <1>f, TombsKeep DEF AddsNoTomb
  <2> QED
    BY <2>2, <2>3, <2>4 DEF OwnInv
<1>19. ASSUME NEW c \in Finishers, OthersKeep(c), FinishBackup(c)
      PROVE  OwnInv'
  <2>1. ReportsInOrder(c)' /\ TempsInOrder(c)'
    BY <1>19, <1>a, <1>g DEF FinishBackup, DropTemp, dirVars, Goto, Return,
       Faults, NoFault, ReportsInOrder, TempsInOrder, MayHaveTemp,
       MayHaveBackup
  <2>2. OutInv' /\ TempsInv'
    BY <1>19, <2>1, <1>a, <1>b, <1>e, TempsKeep
  <2>3. RecordsOwned' /\ RecordsInSight'
    <3>1. AddsNoVersion(c)
      BY <1>19, <1>a, <1>c DEF FinishBackup, DropTemp, dirVars, Goto, Return,
         Faults, NoFault, AddsNoVersion, DiskHasRecord, GoesOn, Standing,
         Shown
    <3> QED
      BY <1>19, <3>1, <1>b, <1>c, <1>f, RecordsKeep DEF AddsNoVersion
  <2>4. TombsOwned' /\ TombsInSight'
    <3>1. AddsNoTomb(c)
      BY <1>19, <1>a, <1>b DEF FinishBackup, DropTemp, dirVars, Goto, Return,
         Faults, NoFault, AddsNoTomb, TombsInSight, GoesOn, Standing, Shown
    <3> QED
      BY <1>19, <3>1, <1>b, <1>c, <1>f, TombsKeep DEF AddsNoTomb
  <2> QED
    BY <2>2, <2>3, <2>4 DEF OwnInv
<1>20. ASSUME NEW c \in Finishers, OthersKeep(c), FinishReplace(c)
      PROVE  OwnInv'
  <2>1. ReportsInOrder(c)' /\ TempsInOrder(c)'
    BY <1>20, <1>a, <1>g DEF FinishReplace, SetRecord, Completed, Goto,
       Return, Faults, NoFault, ReportsInOrder, TempsInOrder, MayHaveTemp,
       MayHaveBackup
  <2>2. OutInv' /\ TempsInv'
    BY <1>20, <2>1, <1>a, <1>b, <1>e, TempsKeep
  <2>3. RecordsOwned' /\ RecordsInSight'
    <3> PICK w : w = Completed(recFd[c], c)
      OBVIOUS
    <3>1. /\ pc[c] = "f.replace" /\ run[c] \in Runs /\ out[c] = "none"
          /\ rec' = [rec EXCEPT ![run[c]] = w]
          /\ disk' = [disk EXCEPT ![run[c]] = @ \cup {w}]
          /\ pc'[c] = "f.sync" /\ run'[c] = run[c] /\ out'[c] = "none"
      BY <1>20, <1>a, <1>g, <1>h DEF FinishReplace, SetRecord, Goto, ReportsInOrder
    <3>2. rec[run[c]] = recFd[c] /\ recFd[c] \in Version
      BY <3>1, <1>c DEF FinishInv, FinishHasDraft, TypeInv, VersionKnown,
         HoldsRecord, FinishWriting
    <3>3. /\ recFd[c].origin \in Starters \ {c}
          /\ w.origin = recFd[c].origin /\ w.finish = c
      BY <3>2 DEF Completed, Version
    <3>4. Owned(recFd[c], run[c]) /\ InSight(recFd[c])
      BY <3>1, <3>2, <1>b, <1>c DEF RecordsOwned, RecordsInSight, DiskHasRecord
    <3>5. Owned(w, run[c])' /\ InSight(w)'
      BY <1>20, <3>1, <3>3, <3>4 DEF OthersKeep, Owned, InSight
    <3>6. ~Standing(c)
      BY <3>1 DEF Standing, Shown
    <3> QED
      BY <1>20, <3>1, <3>5, <3>6, <1>b, <1>c, <1>f, RecordsSet
  <2>4. TombsOwned' /\ TombsInSight'
    <3>1. AddsNoTomb(c)
      BY <1>20, <1>a, <1>b DEF FinishReplace, SetRecord, Completed, Goto,
         Return, Faults, NoFault, AddsNoTomb, TombsInSight, GoesOn, Standing,
         Shown
    <3> QED
      BY <1>20, <3>1, <1>b, <1>c, <1>f, TombsKeep DEF AddsNoTomb
  <2> QED
    BY <2>2, <2>3, <2>4 DEF OwnInv
<1>21. ASSUME NEW c \in Finishers, OthersKeep(c), FinishReplaceFails(c)
      PROVE  OwnInv'
  <2>1. ReportsInOrder(c)' /\ TempsInOrder(c)'
    BY <1>21, <1>a, <1>g DEF FinishReplaceFails, DropTemp, dirVars, Goto,
       Return, Faults, NoFault, ReportsInOrder, TempsInOrder, MayHaveTemp,
       MayHaveBackup
  <2>2. OutInv' /\ TempsInv'
    BY <1>21, <2>1, <1>a, <1>b, <1>e, TempsKeep
  <2>3. RecordsOwned' /\ RecordsInSight'
    <3>1. AddsNoVersion(c)
      BY <1>21, <1>a, <1>c DEF FinishReplaceFails, DropTemp, dirVars, Goto,
         Return, Faults, NoFault, AddsNoVersion, DiskHasRecord, GoesOn,
         Standing, Shown
    <3> QED
      BY <1>21, <3>1, <1>b, <1>c, <1>f, RecordsKeep DEF AddsNoVersion
  <2>4. TombsOwned' /\ TombsInSight'
    <3>1. AddsNoTomb(c)
      BY <1>21, <1>a, <1>b DEF FinishReplaceFails, DropTemp, dirVars, Goto,
         Return, Faults, NoFault, AddsNoTomb, TombsInSight, GoesOn, Standing,
         Shown
    <3> QED
      BY <1>21, <3>1, <1>b, <1>c, <1>f, TombsKeep DEF AddsNoTomb
  <2> QED
    BY <2>2, <2>3, <2>4 DEF OwnInv
<1>22. ASSUME NEW c \in Finishers, OthersKeep(c), FinishSync(c)
      PROVE  OwnInv'
  <2>1. ReportsInOrder(c)' /\ TempsInOrder(c)'
    BY <1>22, <1>a, <1>g DEF FinishSync, SyncRecords, Goto, Return, Faults,
       NoFault, ReportsInOrder, TempsInOrder, MayHaveTemp, MayHaveBackup
  <2>2. OutInv' /\ TempsInv'
    BY <1>22, <2>1, <1>a, <1>b, <1>e, TempsKeep
  <2>3. RecordsOwned' /\ RecordsInSight'
    <3>1. AddsNoVersion(c)
      BY <1>22, <1>a, <1>c, <1>g DEF FinishSync, SyncRecords, Goto, Return,
         Faults, NoFault, AddsNoVersion, DiskHasRecord, GoesOn, Standing,
         Shown, ReportsInOrder
    <3> QED
      BY <1>22, <3>1, <1>b, <1>c, <1>f, RecordsKeep DEF AddsNoVersion
  <2>4. TombsOwned' /\ TombsInSight'
    <3>1. AddsNoTomb(c)
      BY <1>22, <1>a, <1>b, <1>g DEF FinishSync, SyncRecords, Goto, Return,
         Faults, NoFault, AddsNoTomb, TombsInSight, GoesOn, Standing, Shown,
         ReportsInOrder
    <3> QED
      BY <1>22, <3>1, <1>b, <1>c, <1>f, TombsKeep DEF AddsNoTomb
  <2> QED
    BY <2>2, <2>3, <2>4 DEF OwnInv
<1>23. ASSUME NEW c \in Finishers, OthersKeep(c), FinishUndo(c)
      PROVE  OwnInv'
  <2>1. ReportsInOrder(c)' /\ TempsInOrder(c)'
    BY <1>23, <1>a, <1>g DEF FinishUndo, SetRecord, Goto, Return, Faults,
       NoFault, ReportsInOrder, TempsInOrder, MayHaveTemp, MayHaveBackup
  <2>2. OutInv' /\ TempsInv'
    BY <1>23, <2>1, <1>a, <1>b, <1>e, TempsKeep
  <2>3. RecordsOwned' /\ RecordsInSight'
    <3> PICK w : w = backup[c]
      OBVIOUS
    <3>1. /\ pc[c] = "f.undo" /\ run[c] \in Runs /\ out[c] = "none"
          /\ rec' = [rec EXCEPT ![run[c]] = w]
          /\ disk' = [disk EXCEPT ![run[c]] = @ \cup {w}]
          /\ pc'[c] = "f.undosync" /\ run'[c] = run[c] /\ out'[c] = "none"
      BY <1>23, <1>a, <1>g, <1>h DEF FinishUndo, SetRecord, Goto, ReportsInOrder
    <3>2. /\ rec[run[c]] = Completed(recFd[c], c) /\ recFd[c] \in Version
          /\ w = recFd[c] /\ recFd[c].finish = None
      BY <3>1, <1>c DEF FinishInv, FinishHasReplaced, BackupIsDraft, IsDraft,
         TypeInv, VersionKnown, HoldsRecord, FinishWriting
    <3>3. /\ recFd[c].origin \in Starters \ {c} /\ rec[run[c]] # None
          /\ rec[run[c]].origin = recFd[c].origin
      BY <3>2 DEF Completed, Version
    <3>4. Owned(rec[run[c]], run[c]) /\ InSight(rec[run[c]])
      BY <3>1, <3>3, <1>b, <1>c DEF RecordsOwned, RecordsInSight, DiskHasRecord
    <3>5. Owned(w, run[c])' /\ InSight(w)'
      <4>1. /\ w.origin \in Starters \ {c} /\ w.finish = None
            /\ run[w.origin] = run[c] /\ out[w.origin] # "rejected"
            /\ pc[w.origin] \in {"s.sync", "s.undo", "s.clean", "done"}
        BY <3>2, <3>3, <3>4 DEF Owned, InSight
      <4> QED
        BY <1>23, <3>1, <4>1 DEF OthersKeep, Owned, InSight
    <3>6. Standing(c)'
      BY <3>1 DEF Standing
    <3> QED
      BY <1>23, <3>1, <3>5, <3>6, <1>b, <1>c, <1>f, RecordsSet
  <2>4. TombsOwned' /\ TombsInSight'
    <3>1. AddsNoTomb(c)
      BY <1>23, <1>a, <1>b DEF FinishUndo, SetRecord, Goto, Return, Faults,
         NoFault, AddsNoTomb, TombsInSight, GoesOn, Standing, Shown
    <3> QED
      BY <1>23, <3>1, <1>b, <1>c, <1>f, TombsKeep DEF AddsNoTomb
  <2> QED
    BY <2>2, <2>3, <2>4 DEF OwnInv
<1>24. ASSUME NEW c \in Finishers, OthersKeep(c), FinishUndoFails(c)
      PROVE  OwnInv'
  <2>1. ReportsInOrder(c)' /\ TempsInOrder(c)'
    BY <1>24, <1>a, <1>g DEF FinishUndoFails, dirVars, Goto, Return, Faults,
       NoFault, ReportsInOrder, TempsInOrder, MayHaveTemp, MayHaveBackup
  <2>2. OutInv' /\ TempsInv'
    BY <1>24, <2>1, <1>a, <1>b, <1>e, TempsKeep
  <2>3. RecordsOwned' /\ RecordsInSight'
    <3>1. AddsNoVersion(c)
      BY <1>24, <1>a, <1>c DEF FinishUndoFails, dirVars, Goto, Return,
         Faults, NoFault, AddsNoVersion, DiskHasRecord, GoesOn, Standing,
         Shown
    <3> QED
      BY <1>24, <3>1, <1>b, <1>c, <1>f, RecordsKeep DEF AddsNoVersion
  <2>4. TombsOwned' /\ TombsInSight'
    <3>1. AddsNoTomb(c)
      BY <1>24, <1>a, <1>b DEF FinishUndoFails, dirVars, Goto, Return,
         Faults, NoFault, AddsNoTomb, TombsInSight, GoesOn, Standing, Shown
    <3> QED
      BY <1>24, <3>1, <1>b, <1>c, <1>f, TombsKeep DEF AddsNoTomb
  <2> QED
    BY <2>2, <2>3, <2>4 DEF OwnInv
<1>25. ASSUME NEW c \in Finishers, OthersKeep(c), FinishUndoSync(c)
      PROVE  OwnInv'
  <2>1. ReportsInOrder(c)' /\ TempsInOrder(c)'
    BY <1>25, <1>a, <1>g DEF FinishUndoSync, SyncRecords, Goto, Return,
       Faults, NoFault, ReportsInOrder, TempsInOrder, MayHaveTemp,
       MayHaveBackup
  <2>2. OutInv' /\ TempsInv'
    BY <1>25, <2>1, <1>a, <1>b, <1>e, TempsKeep
  <2>3. RecordsOwned' /\ RecordsInSight'
    <3>1. /\ pc[c] = "f.undosync" /\ UNCHANGED <<rec, run>>
          /\ pc'[c] = "done"
      BY <1>25, <1>a DEF FinishUndoSync, Goto, Return
    <3>2. CASE disk' = [r \in Runs |-> {rec[r]}]
      BY <1>25, <3>1, <3>2, <1>b, <1>c, RecordsSync
    <3>3. CASE UNCHANGED disk /\ out'[c] = "uncertain"
      <4>1. GoesOn(c)
        BY <3>1, <3>3 DEF GoesOn, Shown
      <4> QED
        BY <1>25, <3>1, <3>3, <4>1, <1>b, <1>c, <1>f, RecordsKeep
    <3> QED
      BY <1>25, <1>a, <3>2, <3>3 DEF FinishUndoSync, SyncRecords, Goto, Return
  <2>4. TombsOwned' /\ TombsInSight'
    <3>1. AddsNoTomb(c)
      BY <1>25, <1>a, <1>b, <1>g DEF FinishUndoSync, SyncRecords, Goto,
         Return, Faults, NoFault, AddsNoTomb, TombsInSight, GoesOn, Standing,
         Shown, ReportsInOrder
    <3> QED
      BY <1>25, <3>1, <1>b, <1>c, <1>f, TombsKeep DEF AddsNoTomb
  <2> QED
    BY <2>2, <2>3, <2>4 DEF OwnInv
<1>26. ASSUME NEW c \in Finishers, OthersKeep(c), FinishClean(c)
      PROVE  OwnInv'
  <2>1. ReportsInOrder(c)' /\ TempsInOrder(c)'
    BY <1>26, <1>a, <1>g DEF FinishClean, SyncRecords, Goto, Return, Faults,
       NoFault, ReportsInOrder, TempsInOrder, MayHaveTemp, MayHaveBackup
  <2>2. OutInv' /\ TempsInv'
    BY <1>26, <2>1, <1>a, <1>b, <1>e, TempsKeep
  <2>3. RecordsOwned' /\ RecordsInSight'
    <3>1. AddsNoVersion(c)
      BY <1>26, <1>a, <1>c DEF FinishClean, SyncRecords, Goto, Return,
         Faults, NoFault, AddsNoVersion, DiskHasRecord, GoesOn, Standing,
         Shown
    <3> QED
      BY <1>26, <3>1, <1>b, <1>c, <1>f, RecordsKeep DEF AddsNoVersion
  <2>4. TombsOwned' /\ TombsInSight'
    <3>1. AddsNoTomb(c)
      BY <1>26, <1>a, <1>b DEF FinishClean, SyncRecords, Goto, Return,
         Faults, NoFault, AddsNoTomb, TombsInSight, GoesOn, Standing, Shown
    <3> QED
      BY <1>26, <3>1, <1>b, <1>c, <1>f, TombsKeep DEF AddsNoTomb
  <2> QED
    BY <2>2, <2>3, <2>4 DEF OwnInv
<1>27. ASSUME NEW c \in Invalidators, OthersKeep(c), InvalidateTemp(c)
      PROVE  OwnInv'
  <2>1. ReportsInOrder(c)' /\ TempsInOrder(c)'
    BY <1>27, <1>a, <1>g DEF InvalidateTemp, WriteTemp, WriteTempFails, Goto,
       Return, Faults, NoFault, ReportsInOrder, TempsInOrder, MayHaveTemp,
       MayHaveBackup
  <2>2. OutInv' /\ TempsInv'
    BY <1>27, <2>1, <1>a, <1>b, <1>e, TempsKeep
  <2>3. RecordsOwned' /\ RecordsInSight'
    <3>1. AddsNoVersion(c)
      BY <1>27, <1>a, <1>c DEF InvalidateTemp, WriteTemp, WriteTempFails,
         Goto, Return, Faults, NoFault, AddsNoVersion, DiskHasRecord, GoesOn,
         Standing, Shown
    <3> QED
      BY <1>27, <3>1, <1>b, <1>c, <1>f, RecordsKeep DEF AddsNoVersion
  <2>4. TombsOwned' /\ TombsInSight'
    <3>1. AddsNoTomb(c)
      BY <1>27, <1>a, <1>b DEF InvalidateTemp, WriteTemp, WriteTempFails,
         Goto, Return, Faults, NoFault, AddsNoTomb, TombsInSight, GoesOn,
         Standing, Shown
    <3> QED
      BY <1>27, <3>1, <1>b, <1>c, <1>f, TombsKeep DEF AddsNoTomb
  <2> QED
    BY <2>2, <2>3, <2>4 DEF OwnInv
<1>28. ASSUME NEW c \in Invalidators, OthersKeep(c), InvalidateClaim(c)
      PROVE  OwnInv'
  <2>1. ReportsInOrder(c)' /\ TempsInOrder(c)'
    BY <1>28, <1>a, <1>g DEF InvalidateClaim, SetTomb, Goto, Return, Faults,
       NoFault, ReportsInOrder, TempsInOrder, MayHaveTemp, MayHaveBackup
  <2>2. OutInv' /\ TempsInv'
    BY <1>28, <2>1, <1>a, <1>b, <1>e, TempsKeep
  <2>3. RecordsOwned' /\ RecordsInSight'
    <3>1. AddsNoVersion(c)
      BY <1>28, <1>a, <1>c DEF InvalidateClaim, SetTomb, Goto, Return,
         Faults, NoFault, AddsNoVersion, DiskHasRecord, GoesOn, Standing,
         Shown
    <3> QED
      BY <1>28, <3>1, <1>b, <1>c, <1>f, RecordsKeep DEF AddsNoVersion
  <2>4. TombsOwned' /\ TombsInSight'
    <3>1. /\ pc[c] = "i.link" /\ run[c] \in Runs /\ out[c] = "none"
          /\ tomb[run[c]] = None
          /\ tomb' = [tomb EXCEPT ![run[c]] = c]
          /\ tombDisk' = [tombDisk EXCEPT ![run[c]] = @ \cup {c}]
          /\ pc'[c] = "i.sync" /\ run'[c] = run[c] /\ out'[c] = "none"
      BY <1>28, <1>a, <1>g, <1>h DEF InvalidateClaim, SetTomb, Goto, ReportsInOrder
    <3> QED
      BY <1>28, <3>1, <1>b, <1>c, TombsSet
  <2> QED
    BY <2>2, <2>3, <2>4 DEF OwnInv
<1>29. ASSUME NEW c \in Invalidators, OthersKeep(c), InvalidateClaimFails(c)
      PROVE  OwnInv'
  <2>1. ReportsInOrder(c)' /\ TempsInOrder(c)'
    BY <1>29, <1>a, <1>g DEF InvalidateClaimFails, DropTemp, dirVars, Goto,
       Return, Faults, NoFault, ReportsInOrder, TempsInOrder, MayHaveTemp,
       MayHaveBackup
  <2>2. OutInv' /\ TempsInv'
    BY <1>29, <2>1, <1>a, <1>b, <1>e, TempsKeep
  <2>3. RecordsOwned' /\ RecordsInSight'
    <3>1. AddsNoVersion(c)
      BY <1>29, <1>a, <1>c DEF InvalidateClaimFails, DropTemp, dirVars, Goto,
         Return, Faults, NoFault, AddsNoVersion, DiskHasRecord, GoesOn,
         Standing, Shown
    <3> QED
      BY <1>29, <3>1, <1>b, <1>c, <1>f, RecordsKeep DEF AddsNoVersion
  <2>4. TombsOwned' /\ TombsInSight'
    <3>1. AddsNoTomb(c)
      BY <1>29, <1>a, <1>b DEF InvalidateClaimFails, DropTemp, dirVars, Goto,
         Return, Faults, NoFault, AddsNoTomb, TombsInSight, GoesOn, Standing,
         Shown
    <3> QED
      BY <1>29, <3>1, <1>b, <1>c, <1>f, TombsKeep DEF AddsNoTomb
  <2> QED
    BY <2>2, <2>3, <2>4 DEF OwnInv
<1>30. ASSUME NEW c \in Invalidators, OthersKeep(c), InvalidateSync(c)
      PROVE  OwnInv'
  <2>1. ReportsInOrder(c)' /\ TempsInOrder(c)'
    BY <1>30, <1>a, <1>g DEF InvalidateSync, SyncTombs, Goto, Return, Faults,
       NoFault, ReportsInOrder, TempsInOrder, MayHaveTemp, MayHaveBackup
  <2>2. OutInv' /\ TempsInv'
    BY <1>30, <2>1, <1>a, <1>b, <1>e, TempsKeep
  <2>3. RecordsOwned' /\ RecordsInSight'
    <3>1. AddsNoVersion(c)
      BY <1>30, <1>a, <1>c, <1>g DEF InvalidateSync, SyncTombs, Goto, Return,
         Faults, NoFault, AddsNoVersion, DiskHasRecord, GoesOn, Standing,
         Shown, ReportsInOrder
    <3> QED
      BY <1>30, <3>1, <1>b, <1>c, <1>f, RecordsKeep DEF AddsNoVersion
  <2>4. TombsOwned' /\ TombsInSight'
    <3>1. AddsNoTomb(c)
      BY <1>30, <1>a, <1>b, <1>g DEF InvalidateSync, SyncTombs, Goto, Return,
         Faults, NoFault, AddsNoTomb, TombsInSight, GoesOn, Standing, Shown,
         ReportsInOrder
    <3> QED
      BY <1>30, <3>1, <1>b, <1>c, <1>f, TombsKeep DEF AddsNoTomb
  <2> QED
    BY <2>2, <2>3, <2>4 DEF OwnInv
<1>31. ASSUME NEW c \in Invalidators, OthersKeep(c), InvalidateUndo(c)
      PROVE  OwnInv'
  <2>1. ReportsInOrder(c)' /\ TempsInOrder(c)'
    BY <1>31, <1>a, <1>g DEF InvalidateUndo, SetTomb, Goto, Return, Faults,
       NoFault, ReportsInOrder, TempsInOrder, MayHaveTemp, MayHaveBackup
  <2>2. OutInv' /\ TempsInv'
    BY <1>31, <2>1, <1>a, <1>b, <1>e, TempsKeep
  <2>3. RecordsOwned' /\ RecordsInSight'
    <3>1. AddsNoVersion(c)
      BY <1>31, <1>a, <1>c DEF InvalidateUndo, SetTomb, Goto, Return, Faults,
         NoFault, AddsNoVersion, DiskHasRecord, GoesOn, Standing, Shown
    <3> QED
      BY <1>31, <3>1, <1>b, <1>c, <1>f, RecordsKeep DEF AddsNoVersion
  <2>4. TombsOwned' /\ TombsInSight'
    <3>1. /\ pc[c] = "i.undo" /\ run[c] \in Runs /\ out[c] = "none"
          /\ tomb' = [tomb EXCEPT ![run[c]] = None]
          /\ tombDisk' = [tombDisk EXCEPT ![run[c]] = @ \cup {None}]
          /\ pc'[c] = "i.undosync" /\ run'[c] = run[c] /\ out'[c] = "none"
      BY <1>31, <1>a, <1>g, <1>h DEF InvalidateUndo, SetTomb, Goto, ReportsInOrder
    <3>2. tomb[run[c]] = c /\ c # None
      BY <3>1, <1>b, NoneIsNoVersion DEF TombsInSight
    <3> QED
      BY <1>31, <3>1, <3>2, <1>b, <1>c, TombsSet
  <2> QED
    BY <2>2, <2>3, <2>4 DEF OwnInv
<1>32. ASSUME NEW c \in Invalidators, OthersKeep(c), InvalidateUndoFails(c)
      PROVE  OwnInv'
  <2>1. ReportsInOrder(c)' /\ TempsInOrder(c)'
    BY <1>32, <1>a, <1>g DEF InvalidateUndoFails, DropTemp, dirVars, Goto,
       Return, Faults, NoFault, ReportsInOrder, TempsInOrder, MayHaveTemp,
       MayHaveBackup
  <2>2. OutInv' /\ TempsInv'
    BY <1>32, <2>1, <1>a, <1>b, <1>e, TempsKeep
  <2>3. RecordsOwned' /\ RecordsInSight'
    <3>1. AddsNoVersion(c)
      BY <1>32, <1>a, <1>c DEF InvalidateUndoFails, DropTemp, dirVars, Goto,
         Return, Faults, NoFault, AddsNoVersion, DiskHasRecord, GoesOn,
         Standing, Shown
    <3> QED
      BY <1>32, <3>1, <1>b, <1>c, <1>f, RecordsKeep DEF AddsNoVersion
  <2>4. TombsOwned' /\ TombsInSight'
    <3>1. AddsNoTomb(c)
      BY <1>32, <1>a, <1>b DEF InvalidateUndoFails, DropTemp, dirVars, Goto,
         Return, Faults, NoFault, AddsNoTomb, TombsInSight, GoesOn, Standing,
         Shown
    <3> QED
      BY <1>32, <3>1, <1>b, <1>c, <1>f, TombsKeep DEF AddsNoTomb
  <2> QED
    BY <2>2, <2>3, <2>4 DEF OwnInv
<1>33. ASSUME NEW c \in Invalidators, OthersKeep(c), InvalidateUndoSync(c)
      PROVE  OwnInv'
  <2>1. ReportsInOrder(c)' /\ TempsInOrder(c)'
    BY <1>33, <1>a, <1>g DEF InvalidateUndoSync, DropTemp, SyncTombs, Goto,
       Return, Faults, NoFault, ReportsInOrder, TempsInOrder, MayHaveTemp,
       MayHaveBackup
  <2>2. OutInv' /\ TempsInv'
    BY <1>33, <2>1, <1>a, <1>b, <1>e, TempsKeep
  <2>3. RecordsOwned' /\ RecordsInSight'
    <3>1. AddsNoVersion(c)
      BY <1>33, <1>a, <1>c, <1>g DEF InvalidateUndoSync, DropTemp, SyncTombs,
         Goto, Return, Faults, NoFault, AddsNoVersion, DiskHasRecord, GoesOn,
         Standing, Shown, ReportsInOrder
    <3> QED
      BY <1>33, <3>1, <1>b, <1>c, <1>f, RecordsKeep DEF AddsNoVersion
  <2>4. TombsOwned' /\ TombsInSight'
    <3>1. /\ pc[c] = "i.undosync" /\ UNCHANGED <<tomb, run>>
          /\ pc'[c] = "done"
          /\ \A r \in Runs : tomb[r] \in tombDisk'[r]
      BY <1>33, <1>a, <1>b DEF InvalidateUndoSync, SyncTombs, Goto, Return,
         TombsInSight
    <3>2. CASE tombDisk' = [r \in Runs |-> {tomb[r]}]
      <4>1. ASSUME NEW r \in Runs, tomb[r] # None
            PROVE  /\ tomb[r] \in Invalidators \ {c}
                   /\ TombOwned(tomb[r], r) /\ pc[tomb[r]] # "i.undosync"
        BY <4>1, <3>1, <1>a, <1>b DEF TombsInSight, TombsOwned
      <4>2. ASSUME NEW r \in Runs, tomb[r] # None
            PROVE  TombOwned(tomb[r], r)' /\ pc'[tomb[r]] # "i.undosync"
        BY <4>1, <4>2, <3>1, <1>33 DEF TombOwned, OthersKeep
      <4>3. TombsOwned'
        BY <3>2, <4>2, <3>1 DEF TombsOwned
      <4>4. \A d \in Invalidators : pc'[d] \in {"i.sync", "i.undo", "i.clean"}
              => tomb'[run'[d]] = d
        BY <1>33, <3>1, <1>b DEF TombsInSight, OthersKeep
      <4> QED
        BY <3>1, <4>2, <4>3, <4>4 DEF TombsInSight
    <3>3. CASE UNCHANGED tombDisk /\ out'[c] = "uncertain"
      <4>1. GoesOn(c)
        BY <3>1, <3>3 DEF GoesOn, Shown
      <4> QED
        BY <1>33, <3>1, <3>3, <4>1, <1>b, <1>c, <1>f, TombsKeep
    <3> QED
      BY <1>33, <1>a, <3>2, <3>3 DEF InvalidateUndoSync, SyncTombs, Goto, Return
  <2> QED
    BY <2>2, <2>3, <2>4 DEF OwnInv
<1>34. ASSUME NEW c \in Invalidators, OthersKeep(c), InvalidateClean(c)
      PROVE  OwnInv'
  <2>1. ReportsInOrder(c)' /\ TempsInOrder(c)'
    BY <1>34, <1>a, <1>g DEF InvalidateClean, DropTemp, dirVars, Goto,
       Return, Faults, NoFault, ReportsInOrder, TempsInOrder, MayHaveTemp,
       MayHaveBackup
  <2>2. OutInv' /\ TempsInv'
    BY <1>34, <2>1, <1>a, <1>b, <1>e, TempsKeep
  <2>3. RecordsOwned' /\ RecordsInSight'
    <3>1. AddsNoVersion(c)
      BY <1>34, <1>a, <1>c DEF InvalidateClean, DropTemp, dirVars, Goto,
         Return, Faults, NoFault, AddsNoVersion, DiskHasRecord, GoesOn,
         Standing, Shown
    <3> QED
      BY <1>34, <3>1, <1>b, <1>c, <1>f, RecordsKeep DEF AddsNoVersion
  <2>4. TombsOwned' /\ TombsInSight'
    <3>1. AddsNoTomb(c)
      BY <1>34, <1>a, <1>b DEF InvalidateClean, DropTemp, dirVars, Goto,
         Return, Faults, NoFault, AddsNoTomb, TombsInSight, GoesOn, Standing,
         Shown
    <3> QED
      BY <1>34, <3>1, <1>b, <1>c, <1>f, TombsKeep DEF AddsNoTomb
  <2> QED
    BY <2>2, <2>3, <2>4 DEF OwnInv
<1>35. ASSUME NEW c \in Calls, OthersKeep(c), Kill(c)
      PROVE  OwnInv'
  <2>1. ReportsInOrder(c)' /\ TempsInOrder(c)'
    BY <1>35, <1>a, <1>g DEF Kill, Live, dirVars, Goto, Return, Faults,
       NoFault, ReportsInOrder, TempsInOrder, MayHaveTemp, MayHaveBackup
  <2>2. OutInv' /\ TempsInv'
    BY <1>35, <2>1, <1>a, <1>b, <1>e, TempsKeep
  <2>3. RecordsOwned' /\ RecordsInSight'
    <3>1. AddsNoVersion(c)
      BY <1>35, <1>a, <1>c DEF Kill, Live, dirVars, Goto, Return, Faults,
         NoFault, AddsNoVersion, DiskHasRecord, GoesOn, Standing, Shown
    <3> QED
      BY <1>35, <3>1, <1>b, <1>c, <1>f, RecordsKeep DEF AddsNoVersion
  <2>4. TombsOwned' /\ TombsInSight'
    <3>1. AddsNoTomb(c)
      BY <1>35, <1>a, <1>b DEF Kill, Live, dirVars, Goto, Return, Faults,
         NoFault, AddsNoTomb, TombsInSight, GoesOn, Standing, Shown
    <3> QED
      BY <1>35, <3>1, <1>b, <1>c, <1>f, TombsKeep DEF AddsNoTomb
  <2> QED
    BY <2>2, <2>3, <2>4 DEF OwnInv
<1>36. ASSUME NEW r \in Runs, SwapLock(r)
       PROVE  OwnInv'
  <2>1. UNCHANGED <<rec, disk, tomb, tombDisk, run, out, pc, temps, backup>>
        /\ budget'.faults = budget.faults /\ budget'.outages = budget.outages
    BY <1>36, <1>a DEF SwapLock, dirVars
  <2> QED
    BY <2>1, <1>b DEF OwnInv, OutInv, RecordsOwned, RecordsInSight,
       Owned, InSight, TombsOwned, TombOwned, TombsInSight, TempsInv
<1>37. CASE Outage
  <2>1. /\ pc' = [c \in Calls |-> IF Live(c) THEN "done" ELSE pc[c]]
        /\ out' = [c \in Calls |-> IF Live(c) THEN "killed" ELSE out[c]]
        /\ UNCHANGED run /\ budget'.outages # 0
    BY <1>37, <1>a DEF Outage
  <2>2. \A r \in Runs : rec'[r] \in disk[r] /\ disk'[r] = {rec'[r]}
    BY <1>37 DEF Outage
  <2>3. \A r \in Runs : /\ tombDisk'[r] = {tomb'[r]}
                        /\ tomb'[r] # None => tomb'[r] \in tombDisk[r]
    BY <1>37 DEF Outage
  <2>5. \A c \in Calls :
          /\ pc'[c] \in {"idle", "done"}
          /\ pc[c] \in {"idle", "done"} <=> pc'[c] = pc[c]
          /\ pc[c] \notin {"idle", "done"} => pc'[c] = "done" /\ out'[c] = "killed"
          /\ pc[c] \in {"idle", "done"} => out'[c] = out[c]
    BY <2>1 DEF Live
  <2>6. OutInv'
    BY <2>5, <1>b DEF OutInv
  <2>7. ASSUME NEW r \in Runs, rec'[r] # None
        PROVE  Owned(rec[r], r)' /\ InSight(rec[r])'
    <3>1. rec'[r] \in disk[r] \ {None}
      BY <2>2, <2>7
    <3>2. /\ rec'[r].origin \in Starters
          /\ rec'[r].finish \in Finishers \cup {None}
      BY <1>a, <3>1 DEF Version
    <3>3. Owned(rec'[r], r)
      BY <1>b, <3>1 DEF RecordsOwned
    <3> QED
      BY <2>1, <2>5, <3>2, <3>3 DEF Owned, InSight
  <2>8. RecordsOwned' /\ RecordsInSight'
    BY <2>2, <2>7 DEF RecordsOwned, RecordsInSight
  <2>9. ASSUME NEW r \in Runs, tomb'[r] # None
        PROVE  TombOwned(tomb[r], r)' /\ pc'[tomb'[r]] # "i.undosync"
    <3>1. tomb'[r] \in tombDisk[r] \ {None}
      BY <2>3, <2>9
    <3>2. tomb'[r] \in Invalidators /\ TombOwned(tomb'[r], r)
      BY <1>a, <1>b, <3>1 DEF TombsOwned
    <3> QED
      BY <2>1, <2>5, <3>2 DEF TombOwned
  <2>10. TombsOwned' /\ TombsInSight'
    BY <2>3, <2>5, <2>9 DEF TombsOwned, TombsInSight
  <2>11. TempsInv'
    BY <2>1 DEF TempsInv
  <2> QED
    BY <2>6, <2>8, <2>10, <2>11 DEF OwnInv
<1>38. CASE UNCHANGED vars
  BY <1>38, <1>b DEF vars, OwnInv, OutInv, RecordsOwned, RecordsInSight,
     Owned, InSight, TombsOwned, TombOwned, TombsInSight, TempsInv
<1> QED
  BY <1>1, <1>2, <1>3, <1>4, <1>5, <1>6, <1>7, <1>8, <1>9, <1>10, <1>11,
     <1>12, <1>13, <1>14, <1>15, <1>16, <1>17, <1>18, <1>19, <1>20, <1>21,
     <1>22, <1>23, <1>24, <1>25, <1>26, <1>27, <1>28, <1>29, <1>30, <1>31,
     <1>32, <1>33, <1>34, <1>35, <1>36, <1>37, <1>38, <1>i DEF Next,
     CallStep, StartStep, HeadStep, FinishStep, InvalidateStep, Terminated

(* In the initial store there is nothing that anybody could have left.     *)
LEMMA OwnInit == Init => OwnInv
  BY NoneIsNoVersion DEF Init, OwnInv, OutInv, RecordsOwned, RecordsInSight,
     TombsOwned, TombsInSight, TempsInv

(* Without early callers, whatever fails, dies, is replaced or loses       *)
(* power: a call that reported "rejected" left no version and no tombstone *)
(* in sight or on disk, and, while no system call failed and no power was  *)
(* lost, neither it nor a call that reported success left a temporary file *)
(* or a backup.                                                            *)
THEOREM NothingLeft ==
  ASSUME ~EarlyCallers PROVE Spec => []NothingIsLeftBehind
<1>1. StandsInv /\ OwnInv => NothingIsLeftBehind
  <2> USE CallsDisjoint, NoneIsNoVersion
  <2> SUFFICES ASSUME StandsInv, OwnInv, NEW c \in Calls
               PROVE  /\ out[c] = "rejected" =>
                           \A r \in Runs :
                             /\ \A v \in disk[r] :
                                  v # None => c \notin {v.origin, v.finish}
                             /\ c \notin tombDisk[r]
                      /\ out[c] \in {"ok", "rejected"} /\ budget.faults = 0
                           /\ budget.outages = 0
                           => c \notin temps /\ backup[c] = None
    BY DEF NothingIsLeftBehind
  <2>1. ASSUME out[c] = "rejected", NEW r \in Runs, NEW v \in disk[r] \ {None}
        PROVE  c \notin {v.origin, v.finish}
    <3>1. v.origin \in Starters /\ v.finish \in Finishers \cup {None}
      BY DEF StandsInv, TypeInv, TypeOK, Version
    <3>2. Owned(v, r)
      BY DEF OwnInv, RecordsOwned
    <3> QED
      BY <2>1, <3>1, <3>2 DEF Owned
  <2>2. ASSUME out[c] = "rejected", NEW r \in Runs PROVE c \notin tombDisk[r]
    BY <2>2 DEF OwnInv, TombsOwned, TombOwned
  <2>3. ASSUME out[c] \in {"ok", "rejected"}, budget.faults = 0,
               budget.outages = 0
        PROVE  c \notin temps /\ backup[c] = None
    <3>1. pc[c] = "done"
      BY <2>3 DEF OwnInv, OutInv
    <3> QED
      BY <2>3, <3>1 DEF OwnInv, TempsInv, MayHaveTemp, MayHaveBackup
  <2> QED
    BY <2>1, <2>2, <2>3
<1> QED
  BY StandsInit, StandsStep, OwnInit, OwnStep, <1>1, PTL DEF Spec

-----------------------------------------------------------------------------
(* What only holds while no lock file is replaced and no power is lost.    *)

(* There is one lock file of a run, and who has it open has that one.      *)
LockInv ==
  /\ \A r \in Runs : lockFile[r] \in {0, 1}
  /\ \A c \in Transitions :
       pc[c] \notin {"idle", "done", "lock.open"} =>
         lockFd[c] = 1 /\ lockFile[run[c]] = 1
  /\ \A c, d \in Transitions :
       c # d /\ HoldsRunLock(c) /\ HoldsRunLock(d) => run[c] # run[d]

(* A tombstone is on a record that is final for good, and so is the one an *)
(* invalidation works on.                                                  *)
FinalForGood(r) ==
  /\ rec[r] # None /\ rec[r].finish # None
  /\ ~Tentative(rec[r].finish) /\ ~Tentative(rec[r].origin)
TombInv ==
  /\ \A r \in Runs : tomb[r] # None => FinalForGood(r)
  /\ \A c \in Invalidators : pc[c] \in InvalidateWriting => FinalForGood(run[c])

LedgerInv == StandsInv /\ OwnInv /\ LockInv /\ TombInv

(* What one step of a call must not do to the locks ...                    *)
KeepsLock(c) ==
  /\ c \in Transitions /\ pc'[c] \notin {"idle", "done", "lock.open"} =>
       pc[c] \notin {"idle", "done", "lock.open"} /\ run'[c] = run[c]
  /\ HoldsRunLock(c)' => HoldsRunLock(c) /\ run'[c] = run[c]

(* ... and to final records: an invalidation begins to write on one that   *)
(* is final for good, and what was settled is not unsettled.               *)
WorksOnFinal(c) ==
  c \in Invalidators /\ pc'[c] \in InvalidateWriting =>
    /\ run'[c] = run[c] /\ run[c] \in Runs
    /\ pc[c] \in InvalidateWriting \/ FinalForGood(run[c])
SettlesForGood(c) == Tentative(c)' => Tentative(c) \/ ~Standing(c)

(* The locks when one call moves and no lock file is created or opened.    *)
LEMMA LockKeep ==
  ASSUME LockInv, NEW c \in Calls, OthersKeep(c), KeepsLock(c),
         UNCHANGED <<lockFile, lockFd>>
  PROVE  LockInv'
<1>1. \A d \in Calls : HoldsRunLock(d)' => HoldsRunLock(d) /\ run'[d] = run[d]
  BY DEF KeepsLock, OthersKeep, HoldsRunLock, HoldsRecord
<1>2. \A d \in Transitions :
        pc'[d] \notin {"idle", "done", "lock.open"} =>
          pc[d] \notin {"idle", "done", "lock.open"} /\ run'[d] = run[d]
  BY DEF KeepsLock, OthersKeep
<1> QED
  BY <1>1, <1>2 DEF LockInv

(* A record that is final for good stays that while it is not replaced.    *)
LEMMA FinalKeep ==
  ASSUME TypeInv, DiskHasRecord, RecordsOwned, NEW c \in Calls, OthersKeep(c),
         SettlesForGood(c), NEW r \in Runs, FinalForGood(r), rec'[r] = rec[r]
  PROVE  FinalForGood(r)'
<1>1. rec[r] \in disk[r] \ {None}
  BY DEF DiskHasRecord, FinalForGood
<1>2. /\ rec[r].origin \in Starters /\ rec[r].finish \in Finishers
      /\ Owned(rec[r], r)
  BY <1>1 DEF FinalForGood, TypeInv, TypeOK, Version, RecordsOwned
<1>3. \A d \in {rec[r].origin, rec[r].finish} : Standing(d) /\ ~Tentative(d)
  BY <1>2, NoneIsNoVersion DEF FinalForGood, Owned, Standing, Shown
<1>4. \A d \in {rec[r].origin, rec[r].finish} : ~Tentative(d)'
  <2> SUFFICES ASSUME NEW d \in {rec[r].origin, rec[r].finish}
               PROVE  ~Tentative(d)'
    OBVIOUS
  <2>1. CASE d = c
    BY <1>3, <2>1 DEF SettlesForGood
  <2>2. CASE d # c
    BY <1>2, <1>3, <2>2 DEF OthersKeep, Tentative
  <2> QED
    BY <2>1, <2>2
<1> QED
  BY <1>4 DEF FinalForGood

(* The tombstones when one call moves.                                     *)
LEMMA TombKeep ==
  ASSUME TypeInv, DiskHasRecord, RecordsOwned, TombInv, NEW c \in Calls,
         OthersKeep(c), SettlesForGood(c), WorksOnFinal(c),
         \A r \in Runs : FinalForGood(r) => rec'[r] = rec[r],
         \A r \in Runs : tomb'[r] # None => tomb[r] # None \/ FinalForGood(r)
  PROVE  TombInv'
<1>1. \A r \in Runs : FinalForGood(r) => FinalForGood(r)'
  BY FinalKeep
<1>2. \A r \in Runs : tomb'[r] # None => FinalForGood(r)'
  BY <1>1 DEF TombInv
<1>3. ASSUME NEW d \in Invalidators, pc'[d] \in InvalidateWriting
      PROVE  FinalForGood(run[d])'
  <2>1. CASE d = c
    <3>1. run'[c] = run[c] /\ run[c] \in Runs /\ FinalForGood(run[c])
      BY <1>3, <2>1 DEF WorksOnFinal, TombInv
    <3>2. \A r \in Runs : r = run[c] => FinalForGood(r)'
      BY <1>1, <3>1
    <3> QED
      BY <2>1, <3>1, <3>2 DEF FinalForGood, Tentative
  <2>2. CASE d # c
    <3>1. pc[d] \in InvalidateWriting /\ run'[d] = run[d]
      BY <1>3, <2>2 DEF OthersKeep
    <3>2. run[d] \in Runs /\ FinalForGood(run[d])
      BY <3>1 DEF TombInv, TypeInv, RunKnown, InvalidateWriting
    <3>3. \A r \in Runs : r = run[d] => FinalForGood(r)'
      BY <1>1, <3>2
    <3> QED
      BY <3>1, <3>2, <3>3 DEF FinalForGood, Tentative
  <2> QED
    BY <2>1, <2>2
<1> QED
  BY <1>2, <1>3 DEF TombInv

(* The locks shut out, and no tombstone is on a record that may still      *)
(* change, while no lock file is replaced and no power is lost.            *)
LEMMA GuardStep ==
  ASSUME ~EarlyCallers, MaxSwaps = 0, MaxOutages = 0, LedgerInv, [Next]_vars
  PROVE  LockInv' /\ TombInv'
<1> USE CallsDisjoint, NoneIsNoVersion, BoundsAreNat
<1>a. /\ rec \in [Runs -> Version \cup {None}]
      /\ tomb \in [Runs -> Invalidators \cup {None}]
      /\ pc \in [Calls -> Stages] /\ run \in [Calls -> Runs \cup {None}]
      /\ lockFile \in [Runs -> Nat] /\ lockFd \in [Calls -> Nat]
      /\ budget \in [faults : Nat, swaps : Nat, kills : Nat, outages : Nat]
  BY DEF LedgerInv, StandsInv, TypeInv, TypeOK
<1>b. /\ LockInv /\ TombInv /\ RecordsOwned /\ OwnStages
  BY DEF LedgerInv, OwnInv, StandsInv, TypeInv
<1>c. TypeInv /\ ClaimInv /\ FinishInv /\ DiskHasRecord
  BY DEF LedgerInv, StandsInv, CommitInv
<1>d. \A c \in Calls : /\ KindOfStage(c)
                       /\ pc[c] \notin {"idle", "done", "s.temp"} =>
                            run[c] \in Runs
  BY <1>c DEF TypeInv, OwnStages, RunKnown, KindOfStage, StartStages,
     FinishWriting, InvalidateWriting
<1>i. \A c \in Calls : CallStep(c) \/ Kill(c) => OthersKeep(c)
  BY <1>c, OneMoves
<1>1. ASSUME NEW c \in Starters, OthersKeep(c), BeginStart(c)
      PROVE  LockInv' /\ TombInv'
  <2>1. LockInv'
    <3>1. KeepsLock(c) /\ UNCHANGED <<lockFile, lockFd>>
      BY <1>1, <1>a, <1>d DEF BeginStart, dirVars, Goto, Return, Faults,
         NoFault, KeepsLock, KindOfStage, HoldsRunLock, HoldsRecord,
         FinishWriting, InvalidateWriting, StartStages
    <3> QED
      BY <1>1, <3>1, <1>b, LockKeep
  <2>2. TombInv'
    <3>1. SettlesForGood(c) /\ WorksOnFinal(c)
      BY <1>1, <1>a, <1>d DEF BeginStart, dirVars, Goto, Return, Faults,
         NoFault, SettlesForGood, Tentative, Standing, Shown, WorksOnFinal,
         InvalidateWriting, StartStages, KindOfStage
    <3>2. UNCHANGED rec /\ \A r \in Runs : tomb'[r] # None => tomb[r] # None
      BY <1>1, <1>a DEF BeginStart, dirVars, Goto, Return, Faults, NoFault
    <3> QED
      BY <1>1, <3>1, <3>2, <1>b, <1>c, TombKeep
  <2> QED
    BY <2>1, <2>2
<1>2. ASSUME NEW c \in Starters, OthersKeep(c), StartTemp(c)
      PROVE  LockInv' /\ TombInv'
  <2>1. LockInv'
    <3>1. KeepsLock(c) /\ UNCHANGED <<lockFile, lockFd>>
      BY <1>2, <1>a, <1>d DEF StartTemp, WriteTemp, WriteTempFails, dirVars,
         Goto, Return, Faults, NoFault, KeepsLock, KindOfStage, HoldsRunLock,
         HoldsRecord, FinishWriting, InvalidateWriting, StartStages
    <3> QED
      BY <1>2, <3>1, <1>b, LockKeep
  <2>2. TombInv'
    <3>1. SettlesForGood(c) /\ WorksOnFinal(c)
      BY <1>2, <1>a, <1>d DEF StartTemp, WriteTemp, WriteTempFails, dirVars,
         Goto, Return, Faults, NoFault, SettlesForGood, Tentative, Standing,
         Shown, WorksOnFinal, InvalidateWriting, StartStages, KindOfStage
    <3>2. UNCHANGED rec /\ \A r \in Runs : tomb'[r] # None => tomb[r] # None
      BY <1>2, <1>a DEF StartTemp, WriteTemp, WriteTempFails, dirVars, Goto,
         Return, Faults, NoFault
    <3> QED
      BY <1>2, <3>1, <3>2, <1>b, <1>c, TombKeep
  <2> QED
    BY <2>1, <2>2
<1>3. ASSUME NEW c \in Starters, OthersKeep(c), StartClaim(c)
      PROVE  LockInv' /\ TombInv'
  <2>1. LockInv'
    <3>1. KeepsLock(c) /\ UNCHANGED <<lockFile, lockFd>>
      BY <1>3, <1>a, <1>d DEF StartClaim, SetRecord, Draft, Goto, Return,
         Faults, NoFault, KeepsLock, KindOfStage, HoldsRunLock, HoldsRecord,
         FinishWriting, InvalidateWriting, StartStages
    <3> QED
      BY <1>3, <3>1, <1>b, LockKeep
  <2>2. TombInv'
    <3>1. SettlesForGood(c)
      BY <1>3, <1>a, <1>d DEF StartClaim, SetRecord, Draft, Goto, Return,
         Faults, NoFault, SettlesForGood, Tentative, Standing, Shown
    <3>2. \A r \in Runs : FinalForGood(r) => rec'[r] = rec[r]
      BY <1>3, <1>a DEF StartClaim, SetRecord, FinalForGood
    <3>3. \A r \in Runs : tomb'[r] # None => tomb[r] # None \/ FinalForGood(r)
      BY <1>3, <1>a DEF StartClaim, SetRecord, Draft, Goto, Return, Faults,
         NoFault
    <3>4. WorksOnFinal(c)
      BY <1>3, <1>a, <1>d DEF StartClaim, SetRecord, Draft, Goto, Return,
         Faults, NoFault, WorksOnFinal, InvalidateWriting, StartStages
    <3> QED
      BY <1>3, <3>1, <3>2, <3>3, <3>4, <1>b, <1>c, TombKeep
  <2> QED
    BY <2>1, <2>2
<1>4. ASSUME NEW c \in Starters, OthersKeep(c), StartCollision(c)
      PROVE  LockInv' /\ TombInv'
  <2>1. LockInv'
    <3>1. KeepsLock(c) /\ UNCHANGED <<lockFile, lockFd>>
      BY <1>4, <1>a, <1>d DEF StartCollision, dirVars, Goto, Return, Faults,
         NoFault, KeepsLock, KindOfStage, HoldsRunLock, HoldsRecord,
         FinishWriting, InvalidateWriting, StartStages
    <3> QED
      BY <1>4, <3>1, <1>b, LockKeep
  <2>2. TombInv'
    <3>1. SettlesForGood(c) /\ WorksOnFinal(c)
      BY <1>4, <1>a, <1>d DEF StartCollision, dirVars, Goto, Return, Faults,
         NoFault, SettlesForGood, Tentative, Standing, Shown, WorksOnFinal,
         InvalidateWriting, StartStages, KindOfStage
    <3>2. UNCHANGED rec /\ \A r \in Runs : tomb'[r] # None => tomb[r] # None
      BY <1>4, <1>a DEF StartCollision, dirVars, Goto, Return, Faults, NoFault
    <3> QED
      BY <1>4, <3>1, <3>2, <1>b, <1>c, TombKeep
  <2> QED
    BY <2>1, <2>2
<1>5. ASSUME NEW c \in Starters, OthersKeep(c), StartClaimFails(c)
      PROVE  LockInv' /\ TombInv'
  <2>1. LockInv'
    <3>1. KeepsLock(c) /\ UNCHANGED <<lockFile, lockFd>>
      BY <1>5, <1>a, <1>d DEF StartClaimFails, DropTemp, dirVars, Goto,
         Return, Faults, NoFault, KeepsLock, KindOfStage, HoldsRunLock,
         HoldsRecord, FinishWriting, InvalidateWriting, StartStages
    <3> QED
      BY <1>5, <3>1, <1>b, LockKeep
  <2>2. TombInv'
    <3>1. SettlesForGood(c) /\ WorksOnFinal(c)
      BY <1>5, <1>a, <1>d DEF StartClaimFails, DropTemp, dirVars, Goto,
         Return, Faults, NoFault, SettlesForGood, Tentative, Standing, Shown,
         WorksOnFinal, InvalidateWriting, StartStages, KindOfStage
    <3>2. UNCHANGED rec /\ \A r \in Runs : tomb'[r] # None => tomb[r] # None
      BY <1>5, <1>a DEF StartClaimFails, DropTemp, dirVars, Goto, Return,
         Faults, NoFault
    <3> QED
      BY <1>5, <3>1, <3>2, <1>b, <1>c, TombKeep
  <2> QED
    BY <2>1, <2>2
<1>6. ASSUME NEW c \in Starters, OthersKeep(c), StartSync(c)
      PROVE  LockInv' /\ TombInv'
  <2>1. LockInv'
    <3>1. KeepsLock(c) /\ UNCHANGED <<lockFile, lockFd>>
      BY <1>6, <1>a, <1>d DEF StartSync, SyncRecords, Goto, Return, Faults,
         NoFault, KeepsLock, KindOfStage, HoldsRunLock, HoldsRecord,
         FinishWriting, InvalidateWriting, StartStages
    <3> QED
      BY <1>6, <3>1, <1>b, LockKeep
  <2>2. TombInv'
    <3>1. SettlesForGood(c) /\ WorksOnFinal(c)
      BY <1>6, <1>a, <1>d DEF StartSync, SyncRecords, Goto, Return, Faults,
         NoFault, SettlesForGood, Tentative, Standing, Shown, WorksOnFinal,
         InvalidateWriting, StartStages, KindOfStage
    <3>2. UNCHANGED rec /\ \A r \in Runs : tomb'[r] # None => tomb[r] # None
      BY <1>6, <1>a DEF StartSync, SyncRecords, Goto, Return, Faults, NoFault
    <3> QED
      BY <1>6, <3>1, <3>2, <1>b, <1>c, TombKeep
  <2> QED
    BY <2>1, <2>2
<1>7. ASSUME NEW c \in Starters, OthersKeep(c), StartUndo(c)
      PROVE  LockInv' /\ TombInv'
  <2>1. LockInv'
    <3>1. KeepsLock(c) /\ UNCHANGED <<lockFile, lockFd>>
      BY <1>7, <1>a, <1>d DEF StartUndo, SetRecord, Goto, Return, Faults,
         NoFault, KeepsLock, KindOfStage, HoldsRunLock, HoldsRecord,
         FinishWriting, InvalidateWriting, StartStages
    <3> QED
      BY <1>7, <3>1, <1>b, LockKeep
  <2>2. TombInv'
    <3>1. SettlesForGood(c)
      BY <1>7, <1>a, <1>d DEF StartUndo, SetRecord, Goto, Return, Faults,
         NoFault, SettlesForGood, Tentative, Standing, Shown
    <3>2. \A r \in Runs : FinalForGood(r) => rec'[r] = rec[r]
      <4>1. pc[c] = "s.undo" /\ rec' = [rec EXCEPT ![run[c]] = None]
        BY <1>7 DEF StartUndo, SetRecord
      <4>2. rec[run[c]] = Draft(c)
        BY <4>1, <1>c DEF ClaimInv, StartOwnsClaim, Unsettled
      <4>3. ~FinalForGood(run[c])
        BY <4>2 DEF FinalForGood, Draft
      <4> QED
        BY <4>1, <4>3, <1>a
    <3>3. \A r \in Runs : tomb'[r] # None => tomb[r] # None \/ FinalForGood(r)
      BY <1>7, <1>a DEF StartUndo, SetRecord, Goto, Return, Faults, NoFault
    <3>4. WorksOnFinal(c)
      BY <1>7, <1>a, <1>d DEF StartUndo, SetRecord, Goto, Return, Faults,
         NoFault, WorksOnFinal, InvalidateWriting, StartStages
    <3> QED
      BY <1>7, <3>1, <3>2, <3>3, <3>4, <1>b, <1>c, TombKeep
  <2> QED
    BY <2>1, <2>2
<1>8. ASSUME NEW c \in Starters, OthersKeep(c), StartUndoFails(c)
      PROVE  LockInv' /\ TombInv'
  <2>1. LockInv'
    <3>1. KeepsLock(c) /\ UNCHANGED <<lockFile, lockFd>>
      BY <1>8, <1>a, <1>d DEF StartUndoFails, DropTemp, dirVars, Goto,
         Return, Faults, NoFault, KeepsLock, KindOfStage, HoldsRunLock,
         HoldsRecord, FinishWriting, InvalidateWriting, StartStages
    <3> QED
      BY <1>8, <3>1, <1>b, LockKeep
  <2>2. TombInv'
    <3>1. SettlesForGood(c) /\ WorksOnFinal(c)
      BY <1>8, <1>a, <1>d DEF StartUndoFails, DropTemp, dirVars, Goto,
         Return, Faults, NoFault, SettlesForGood, Tentative, Standing, Shown,
         WorksOnFinal, InvalidateWriting, StartStages, KindOfStage
    <3>2. UNCHANGED rec /\ \A r \in Runs : tomb'[r] # None => tomb[r] # None
      BY <1>8, <1>a DEF StartUndoFails, DropTemp, dirVars, Goto, Return,
         Faults, NoFault
    <3> QED
      BY <1>8, <3>1, <3>2, <1>b, <1>c, TombKeep
  <2> QED
    BY <2>1, <2>2
<1>9. ASSUME NEW c \in Starters, OthersKeep(c), StartUndoSync(c)
      PROVE  LockInv' /\ TombInv'
  <2>1. LockInv'
    <3>1. KeepsLock(c) /\ UNCHANGED <<lockFile, lockFd>>
      BY <1>9, <1>a, <1>d DEF StartUndoSync, DropTemp, SyncRecords, Goto,
         Return, Faults, NoFault, KeepsLock, KindOfStage, HoldsRunLock,
         HoldsRecord, FinishWriting, InvalidateWriting, StartStages
    <3> QED
      BY <1>9, <3>1, <1>b, LockKeep
  <2>2. TombInv'
    <3>1. SettlesForGood(c) /\ WorksOnFinal(c)
      BY <1>9, <1>a, <1>d DEF StartUndoSync, DropTemp, SyncRecords, Goto,
         Return, Faults, NoFault, SettlesForGood, Tentative, Standing, Shown,
         WorksOnFinal, InvalidateWriting, StartStages, KindOfStage
    <3>2. UNCHANGED rec /\ \A r \in Runs : tomb'[r] # None => tomb[r] # None
      BY <1>9, <1>a DEF StartUndoSync, DropTemp, SyncRecords, Goto, Return,
         Faults, NoFault
    <3> QED
      BY <1>9, <3>1, <3>2, <1>b, <1>c, TombKeep
  <2> QED
    BY <2>1, <2>2
<1>10. ASSUME NEW c \in Starters, OthersKeep(c), StartClean(c)
      PROVE  LockInv' /\ TombInv'
  <2>1. LockInv'
    <3>1. KeepsLock(c) /\ UNCHANGED <<lockFile, lockFd>>
      BY <1>10, <1>a, <1>d DEF StartClean, DropTemp, dirVars, Goto, Return,
         Faults, NoFault, KeepsLock, KindOfStage, HoldsRunLock, HoldsRecord,
         FinishWriting, InvalidateWriting, StartStages
    <3> QED
      BY <1>10, <3>1, <1>b, LockKeep
  <2>2. TombInv'
    <3>1. SettlesForGood(c) /\ WorksOnFinal(c)
      BY <1>10, <1>a, <1>d DEF StartClean, DropTemp, dirVars, Goto, Return,
         Faults, NoFault, SettlesForGood, Tentative, Standing, Shown,
         WorksOnFinal, InvalidateWriting, StartStages, KindOfStage
    <3>2. UNCHANGED rec /\ \A r \in Runs : tomb'[r] # None => tomb[r] # None
      BY <1>10, <1>a DEF StartClean, DropTemp, dirVars, Goto, Return, Faults,
         NoFault
    <3> QED
      BY <1>10, <3>1, <3>2, <1>b, <1>c, TombKeep
  <2> QED
    BY <2>1, <2>2
<1>11. ASSUME NEW c \in Transitions, OthersKeep(c), BeginTransition(c)
      PROVE  LockInv' /\ TombInv'
  <2>1. LockInv'
    <3>1. KeepsLock(c) /\ UNCHANGED <<lockFile, lockFd>>
      BY <1>11, <1>a, <1>d DEF BeginTransition, dirVars, Goto, Return,
         Faults, NoFault, KeepsLock, KindOfStage, HoldsRunLock, HoldsRecord,
         FinishWriting, InvalidateWriting, StartStages
    <3> QED
      BY <1>11, <3>1, <1>b, LockKeep
  <2>2. TombInv'
    <3>1. SettlesForGood(c) /\ WorksOnFinal(c)
      BY <1>11, <1>a, <1>d DEF BeginTransition, dirVars, Goto, Return,
         Faults, NoFault, SettlesForGood, Tentative, Standing, Shown,
         WorksOnFinal, InvalidateWriting, StartStages, KindOfStage
    <3>2. UNCHANGED rec /\ \A r \in Runs : tomb'[r] # None => tomb[r] # None
      BY <1>11, <1>a DEF BeginTransition, dirVars, Goto, Return, Faults,
         NoFault
    <3> QED
      BY <1>11, <3>1, <3>2, <1>b, <1>c, TombKeep
  <2> QED
    BY <2>1, <2>2
<1>12. ASSUME NEW c \in Transitions, OthersKeep(c), OpenLock(c)
      PROVE  LockInv' /\ TombInv'
  <2>1. LockInv'
    <3>1. /\ pc[c] = "lock.open" /\ pc'[c] = "lock.wait" /\ run[c] \in Runs
          /\ UNCHANGED run
          /\ \A r \in Runs : lockFile'[r] = IF r = run[c] THEN 1 ELSE lockFile[r]
          /\ lockFd' = [lockFd EXCEPT ![c] = 1]
      BY <1>12, <1>a, <1>b, <1>d DEF OpenLock, Goto, LockInv
    <3>2. ~HoldsRunLock(c)'
      BY <3>1 DEF HoldsRunLock, HoldsRecord, FinishWriting, InvalidateWriting
    <3>3. \A d \in Calls \ {c} : pc'[d] = pc[d] /\ lockFd'[d] = lockFd[d]
      BY <1>12, <1>a, <3>1 DEF OthersKeep
    <3>4. \A d \in Calls \ {c} : HoldsRunLock(d)' => HoldsRunLock(d)
      BY <3>3 DEF HoldsRunLock, HoldsRecord
    <3>5. \A d \in Transitions :
            pc'[d] \notin {"idle", "done", "lock.open"} =>
              lockFd'[d] = 1 /\ lockFile'[run'[d]] = 1
      <4> SUFFICES ASSUME NEW d \in Transitions,
                          pc'[d] \notin {"idle", "done", "lock.open"}
                   PROVE  lockFd'[d] = 1 /\ lockFile'[run'[d]] = 1
        OBVIOUS
      <4>1. CASE d = c
        BY <3>1, <4>1, <1>a
      <4>2. CASE d # c
        <5>1. /\ pc[d] \notin {"idle", "done", "lock.open"}
              /\ lockFd[d] = 1 /\ lockFile[run[d]] = 1
          BY <3>3, <4>2, <1>b DEF LockInv
        <5>2. run[d] \in Runs
          BY <5>1, <1>d DEF KindOfStage, StartStages
        <5> QED
          BY <3>1, <3>3, <4>2, <5>1, <5>2
      <4> QED
        BY <4>1, <4>2
    <3>6. \A r \in Runs : lockFile'[r] \in {0, 1}
      BY <3>1, <1>b DEF LockInv
    <3>7. ASSUME NEW d \in Transitions, NEW e \in Transitions, d # e,
                 HoldsRunLock(d)', HoldsRunLock(e)'
          PROVE  run'[d] # run'[e]
      <4>1. d # c /\ e # c
        BY <3>2, <3>7
      <4> QED
        BY <3>1, <3>4, <3>7, <4>1, <1>b DEF LockInv
    <3> QED
      BY <3>5, <3>6, <3>7 DEF LockInv
  <2>2. TombInv'
    <3>1. SettlesForGood(c) /\ WorksOnFinal(c)
      BY <1>12, <1>a, <1>d DEF OpenLock, dirVars, Goto, Return, Faults,
         NoFault, SettlesForGood, Tentative, Standing, Shown, WorksOnFinal,
         InvalidateWriting, StartStages, KindOfStage
    <3>2. UNCHANGED rec /\ \A r \in Runs : tomb'[r] # None => tomb[r] # None
      BY <1>12, <1>a DEF OpenLock, dirVars, Goto, Return, Faults, NoFault
    <3> QED
      BY <1>12, <3>1, <3>2, <1>b, <1>c, TombKeep
  <2> QED
    BY <2>1, <2>2
<1>13. ASSUME NEW c \in Transitions, OthersKeep(c), AcquireLock(c)
      PROVE  LockInv' /\ TombInv'
  <2>1. LockInv'
    <3>1. /\ pc[c] = "lock.wait" /\ UNCHANGED <<run, lockFile, lockFd>>
          /\ \A d \in Calls :
               HoldsRunLock(d) => run[d] # run[c] \/ lockFd[d] # lockFd[c]
          /\ pc' = [pc EXCEPT ![c] = "open"] \/ pc' = [pc EXCEPT ![c] = "done"]
      BY <1>13 DEF AcquireLock, Goto, Return
    <3>2. \A d \in Transitions : HoldsRunLock(d) => lockFd[d] = 1
      BY <1>b DEF LockInv, HoldsRunLock, HoldsRecord, FinishWriting,
         InvalidateWriting
    <3>3. lockFd[c] = 1 /\ lockFile[run[c]] = 1
      BY <3>1, <1>b DEF LockInv
    <3>4. \A d \in Transitions : HoldsRunLock(d) => run[d] # run[c]
      BY <3>1, <3>2, <3>3
    <3>5. \A d \in Calls \ {c} : pc'[d] = pc[d]
      BY <1>13 DEF OthersKeep
    <3>6. \A d \in Calls \ {c} : HoldsRunLock(d)' => HoldsRunLock(d)
      BY <3>5 DEF HoldsRunLock, HoldsRecord
    <3>7. \A d \in Transitions :
            pc'[d] \notin {"idle", "done", "lock.open"} =>
              lockFd'[d] = 1 /\ lockFile'[run'[d]] = 1
      BY <3>1, <3>3, <3>5, <1>b DEF LockInv
    <3>8. ASSUME NEW d \in Transitions, NEW e \in Transitions, d # e,
                 HoldsRunLock(d)', HoldsRunLock(e)'
          PROVE  run'[d] # run'[e]
      BY <3>1, <3>4, <3>6, <3>8, <1>b DEF LockInv
    <3> QED
      BY <3>1, <3>7, <3>8, <1>b DEF LockInv
  <2>2. TombInv'
    <3>1. SettlesForGood(c) /\ WorksOnFinal(c)
      BY <1>13, <1>a, <1>d DEF AcquireLock, dirVars, Goto, Return, Faults,
         NoFault, SettlesForGood, Tentative, Standing, Shown, WorksOnFinal,
         InvalidateWriting, StartStages, KindOfStage
    <3>2. UNCHANGED rec /\ \A r \in Runs : tomb'[r] # None => tomb[r] # None
      BY <1>13, <1>a DEF AcquireLock, dirVars, Goto, Return, Faults, NoFault
    <3> QED
      BY <1>13, <3>1, <3>2, <1>b, <1>c, TombKeep
  <2> QED
    BY <2>1, <2>2
<1>14. ASSUME NEW c \in Transitions, OthersKeep(c), OpenRecord(c)
      PROVE  LockInv' /\ TombInv'
  <2>1. LockInv'
    <3>1. KeepsLock(c) /\ UNCHANGED <<lockFile, lockFd>>
      BY <1>14, <1>a, <1>d DEF OpenRecord, dirVars, Goto, Return, Faults,
         NoFault, KeepsLock, KindOfStage, HoldsRunLock, HoldsRecord,
         FinishWriting, InvalidateWriting, StartStages
    <3> QED
      BY <1>14, <3>1, <1>b, LockKeep
  <2>2. TombInv'
    <3>1. SettlesForGood(c) /\ WorksOnFinal(c)
      BY <1>14, <1>a, <1>d DEF OpenRecord, dirVars, Goto, Return, Faults,
         NoFault, SettlesForGood, Tentative, Standing, Shown, WorksOnFinal,
         InvalidateWriting, StartStages, KindOfStage
    <3>2. UNCHANGED rec /\ \A r \in Runs : tomb'[r] # None => tomb[r] # None
      BY <1>14, <1>a DEF OpenRecord, dirVars, Goto, Return, Faults, NoFault
    <3> QED
      BY <1>14, <3>1, <3>2, <1>b, <1>c, TombKeep
  <2> QED
    BY <2>1, <2>2
<1>15. ASSUME NEW c \in Transitions, OthersKeep(c), ReadRecord(c)
      PROVE  LockInv' /\ TombInv'
  <2>1. LockInv'
    <3>1. KeepsLock(c) /\ UNCHANGED <<lockFile, lockFd>>
      BY <1>15, <1>a, <1>d DEF ReadRecord, dirVars, Goto, Return, Faults,
         NoFault, KeepsLock, KindOfStage, HoldsRunLock, HoldsRecord,
         FinishWriting, InvalidateWriting, StartStages
    <3> QED
      BY <1>15, <3>1, <1>b, LockKeep
  <2>2. TombInv'
    <3>1. SettlesForGood(c)
      BY <1>15, <1>a, <1>d DEF ReadRecord, dirVars, Goto, Return, Faults,
         NoFault, SettlesForGood, Tentative, Standing, Shown
    <3>2. \A r \in Runs : FinalForGood(r) => rec'[r] = rec[r]
      BY <1>15 DEF ReadRecord, dirVars, Goto, Return, Faults, NoFault
    <3>3. \A r \in Runs : tomb'[r] # None => tomb[r] # None \/ FinalForGood(r)
      BY <1>15, <1>a DEF ReadRecord, dirVars, Goto, Return, Faults, NoFault
    <3>4. WorksOnFinal(c)
      <4> SUFFICES ASSUME c \in Invalidators, pc'[c] \in InvalidateWriting
                   PROVE  /\ run'[c] = run[c] /\ run[c] \in Runs
                          /\ FinalForGood(run[c])
        BY DEF WorksOnFinal
      <4>1. /\ pc[c] = "read" /\ UNCHANGED run /\ run[c] \in Runs
            /\ rec[run[c]] = recFd[c] /\ ~IsDraft(recFd[c])
        BY <1>15, <1>a, <1>d DEF ReadRecord, Goto, Return, InvalidateWriting
      <4> DEFINE v == rec[run[c]]
      <4>2. v \in disk[run[c]] /\ v \in Version /\ v.finish # None
        BY <4>1, <1>c DEF DiskHasRecord, TypeInv, VersionKnown, IsDraft
      <4>3. /\ v.origin \in Starters /\ v.finish \in Finishers
            /\ Owned(v, run[c])
        BY <4>1, <4>2, <1>b DEF Version, RecordsOwned
      <4>4. ~Tentative(v.origin)
        <5> SUFFICES ASSUME Tentative(v.origin) PROVE FALSE
          OBVIOUS
        <5>1. Unsettled(v.origin)
          BY <4>3 DEF Tentative, Unsettled, Owned
        <5> QED
          BY <4>1, <4>3, <5>1, <1>c DEF ClaimInv, StartIsAlone, Live, Owned
      <4>5. ~Tentative(v.finish)
        <5> SUFFICES ASSUME Tentative(v.finish) PROVE FALSE
          OBVIOUS
        <5>1. HoldsRunLock(v.finish) /\ HoldsRunLock(c)
          BY <4>1, <4>2, <4>3 DEF Tentative, Owned, HoldsRunLock, HoldsRecord,
             FinishWriting
        <5>2. v.finish # c /\ run[v.finish] = run[c]
          BY <4>2, <4>3 DEF Owned
        <5> QED
          BY <4>3, <5>1, <5>2, <1>b DEF LockInv
      <4> QED
        BY <4>1, <4>2, <4>4, <4>5 DEF FinalForGood
    <3> QED
      BY <1>15, <3>1, <3>2, <3>3, <3>4, <1>b, <1>c, TombKeep
  <2> QED
    BY <2>1, <2>2
<1>16. ASSUME NEW c \in Transitions, OthersKeep(c), RereadRecord(c)
      PROVE  LockInv' /\ TombInv'
  <2>1. LockInv'
    <3>1. KeepsLock(c) /\ UNCHANGED <<lockFile, lockFd>>
      BY <1>16, <1>a, <1>d DEF RereadRecord, dirVars, Goto, Return, Faults,
         NoFault, KeepsLock, KindOfStage, HoldsRunLock, HoldsRecord,
         FinishWriting, InvalidateWriting, StartStages
    <3> QED
      BY <1>16, <3>1, <1>b, LockKeep
  <2>2. TombInv'
    <3>1. SettlesForGood(c) /\ WorksOnFinal(c)
      BY <1>16, <1>a, <1>d DEF RereadRecord, dirVars, Goto, Return, Faults,
         NoFault, SettlesForGood, Tentative, Standing, Shown, WorksOnFinal,
         InvalidateWriting, StartStages, KindOfStage
    <3>2. UNCHANGED rec /\ \A r \in Runs : tomb'[r] # None => tomb[r] # None
      BY <1>16, <1>a DEF RereadRecord, dirVars, Goto, Return, Faults, NoFault
    <3> QED
      BY <1>16, <3>1, <3>2, <1>b, <1>c, TombKeep
  <2> QED
    BY <2>1, <2>2
<1>17. ASSUME NEW c \in Transitions, OthersKeep(c), HeadFails(c)
      PROVE  LockInv' /\ TombInv'
  <2>1. LockInv'
    <3>1. KeepsLock(c) /\ UNCHANGED <<lockFile, lockFd>>
      BY <1>17, <1>a, <1>d DEF HeadFails, dirVars, Goto, Return, Faults,
         NoFault, KeepsLock, KindOfStage, HoldsRunLock, HoldsRecord,
         FinishWriting, InvalidateWriting, StartStages
    <3> QED
      BY <1>17, <3>1, <1>b, LockKeep
  <2>2. TombInv'
    <3>1. SettlesForGood(c) /\ WorksOnFinal(c)
      BY <1>17, <1>a, <1>d DEF HeadFails, dirVars, Goto, Return, Faults,
         NoFault, SettlesForGood, Tentative, Standing, Shown, WorksOnFinal,
         InvalidateWriting, StartStages, KindOfStage
    <3>2. UNCHANGED rec /\ \A r \in Runs : tomb'[r] # None => tomb[r] # None
      BY <1>17, <1>a DEF HeadFails, dirVars, Goto, Return, Faults, NoFault
    <3> QED
      BY <1>17, <3>1, <3>2, <1>b, <1>c, TombKeep
  <2> QED
    BY <2>1, <2>2
<1>18. ASSUME NEW c \in Finishers, OthersKeep(c), FinishTemp(c)
      PROVE  LockInv' /\ TombInv'
  <2>1. LockInv'
    <3>1. KeepsLock(c) /\ UNCHANGED <<lockFile, lockFd>>
      BY <1>18, <1>a, <1>d DEF FinishTemp, WriteTemp, WriteTempFails,
         dirVars, Goto, Return, Faults, NoFault, KeepsLock, KindOfStage,
         HoldsRunLock, HoldsRecord, FinishWriting, InvalidateWriting,
         StartStages
    <3> QED
      BY <1>18, <3>1, <1>b, LockKeep
  <2>2. TombInv'
    <3>1. SettlesForGood(c) /\ WorksOnFinal(c)
      BY <1>18, <1>a, <1>d DEF FinishTemp, WriteTemp, WriteTempFails,
         dirVars, Goto, Return, Faults, NoFault, SettlesForGood, Tentative,
         Standing, Shown, WorksOnFinal, InvalidateWriting, StartStages,
         KindOfStage
    <3>2. UNCHANGED rec /\ \A r \in Runs : tomb'[r] # None => tomb[r] # None
      BY <1>18, <1>a DEF FinishTemp, WriteTemp, WriteTempFails, dirVars,
         Goto, Return, Faults, NoFault
    <3> QED
      BY <1>18, <3>1, <3>2, <1>b, <1>c, TombKeep
  <2> QED
    BY <2>1, <2>2
<1>19. ASSUME NEW c \in Finishers, OthersKeep(c), FinishBackup(c)
      PROVE  LockInv' /\ TombInv'
  <2>1. LockInv'
    <3>1. KeepsLock(c) /\ UNCHANGED <<lockFile, lockFd>>
      BY <1>19, <1>a, <1>d DEF FinishBackup, DropTemp, dirVars, Goto, Return,
         Faults, NoFault, KeepsLock, KindOfStage, HoldsRunLock, HoldsRecord,
         FinishWriting, InvalidateWriting, StartStages
    <3> QED
      BY <1>19, <3>1, <1>b, LockKeep
  <2>2. TombInv'
    <3>1. SettlesForGood(c) /\ WorksOnFinal(c)
      BY <1>19, <1>a, <1>d DEF FinishBackup, DropTemp, dirVars, Goto, Return,
         Faults, NoFault, SettlesForGood, Tentative, Standing, Shown,
         WorksOnFinal, InvalidateWriting, StartStages, KindOfStage
    <3>2. UNCHANGED rec /\ \A r \in Runs : tomb'[r] # None => tomb[r] # None
      BY <1>19, <1>a DEF FinishBackup, DropTemp, dirVars, Goto, Return,
         Faults, NoFault
    <3> QED
      BY <1>19, <3>1, <3>2, <1>b, <1>c, TombKeep
  <2> QED
    BY <2>1, <2>2
<1>20. ASSUME NEW c \in Finishers, OthersKeep(c), FinishReplace(c)
      PROVE  LockInv' /\ TombInv'
  <2>1. LockInv'
    <3>1. KeepsLock(c) /\ UNCHANGED <<lockFile, lockFd>>
      BY <1>20, <1>a, <1>d DEF FinishReplace, SetRecord, Completed, Goto,
         Return, Faults, NoFault, KeepsLock, KindOfStage, HoldsRunLock,
         HoldsRecord, FinishWriting, InvalidateWriting, StartStages
    <3> QED
      BY <1>20, <3>1, <1>b, LockKeep
  <2>2. TombInv'
    <3>1. SettlesForGood(c)
      BY <1>20, <1>a, <1>d DEF FinishReplace, SetRecord, Completed, Goto,
         Return, Faults, NoFault, SettlesForGood, Tentative, Standing, Shown
    <3>2. \A r \in Runs : FinalForGood(r) => rec'[r] = rec[r]
      BY <1>20, <1>a, <1>c DEF FinishReplace, SetRecord, FinalForGood, FinishInv,
         FinishHasDraft, IsDraft
    <3>3. \A r \in Runs : tomb'[r] # None => tomb[r] # None \/ FinalForGood(r)
      BY <1>20, <1>a DEF FinishReplace, SetRecord, Completed, Goto, Return,
         Faults, NoFault
    <3>4. WorksOnFinal(c)
      BY <1>20, <1>a, <1>d DEF FinishReplace, SetRecord, Completed, Goto,
         Return, Faults, NoFault, WorksOnFinal, InvalidateWriting, StartStages
    <3> QED
      BY <1>20, <3>1, <3>2, <3>3, <3>4, <1>b, <1>c, TombKeep
  <2> QED
    BY <2>1, <2>2
<1>21. ASSUME NEW c \in Finishers, OthersKeep(c), FinishReplaceFails(c)
      PROVE  LockInv' /\ TombInv'
  <2>1. LockInv'
    <3>1. KeepsLock(c) /\ UNCHANGED <<lockFile, lockFd>>
      BY <1>21, <1>a, <1>d DEF FinishReplaceFails, DropTemp, dirVars, Goto,
         Return, Faults, NoFault, KeepsLock, KindOfStage, HoldsRunLock,
         HoldsRecord, FinishWriting, InvalidateWriting, StartStages
    <3> QED
      BY <1>21, <3>1, <1>b, LockKeep
  <2>2. TombInv'
    <3>1. SettlesForGood(c) /\ WorksOnFinal(c)
      BY <1>21, <1>a, <1>d DEF FinishReplaceFails, DropTemp, dirVars, Goto,
         Return, Faults, NoFault, SettlesForGood, Tentative, Standing, Shown,
         WorksOnFinal, InvalidateWriting, StartStages, KindOfStage
    <3>2. UNCHANGED rec /\ \A r \in Runs : tomb'[r] # None => tomb[r] # None
      BY <1>21, <1>a DEF FinishReplaceFails, DropTemp, dirVars, Goto, Return,
         Faults, NoFault
    <3> QED
      BY <1>21, <3>1, <3>2, <1>b, <1>c, TombKeep
  <2> QED
    BY <2>1, <2>2
<1>22. ASSUME NEW c \in Finishers, OthersKeep(c), FinishSync(c)
      PROVE  LockInv' /\ TombInv'
  <2>1. LockInv'
    <3>1. KeepsLock(c) /\ UNCHANGED <<lockFile, lockFd>>
      BY <1>22, <1>a, <1>d DEF FinishSync, SyncRecords, Goto, Return, Faults,
         NoFault, KeepsLock, KindOfStage, HoldsRunLock, HoldsRecord,
         FinishWriting, InvalidateWriting, StartStages
    <3> QED
      BY <1>22, <3>1, <1>b, LockKeep
  <2>2. TombInv'
    <3>1. SettlesForGood(c) /\ WorksOnFinal(c)
      BY <1>22, <1>a, <1>d DEF FinishSync, SyncRecords, Goto, Return, Faults,
         NoFault, SettlesForGood, Tentative, Standing, Shown, WorksOnFinal,
         InvalidateWriting, StartStages, KindOfStage
    <3>2. UNCHANGED rec /\ \A r \in Runs : tomb'[r] # None => tomb[r] # None
      BY <1>22, <1>a DEF FinishSync, SyncRecords, Goto, Return, Faults,
         NoFault
    <3> QED
      BY <1>22, <3>1, <3>2, <1>b, <1>c, TombKeep
  <2> QED
    BY <2>1, <2>2
<1>23. ASSUME NEW c \in Finishers, OthersKeep(c), FinishUndo(c)
      PROVE  LockInv' /\ TombInv'
  <2>1. LockInv'
    <3>1. KeepsLock(c) /\ UNCHANGED <<lockFile, lockFd>>
      BY <1>23, <1>a, <1>d DEF FinishUndo, SetRecord, Goto, Return, Faults,
         NoFault, KeepsLock, KindOfStage, HoldsRunLock, HoldsRecord,
         FinishWriting, InvalidateWriting, StartStages
    <3> QED
      BY <1>23, <3>1, <1>b, LockKeep
  <2>2. TombInv'
    <3>1. SettlesForGood(c)
      BY <1>23, <1>a, <1>d DEF FinishUndo, SetRecord, Goto, Return, Faults,
         NoFault, SettlesForGood, Tentative, Standing, Shown
    <3>2. \A r \in Runs : FinalForGood(r) => rec'[r] = rec[r]
      <4>1. pc[c] = "f.undo" /\ rec' = [rec EXCEPT ![run[c]] = backup[c]]
        BY <1>23 DEF FinishUndo, SetRecord
      <4>2. rec[run[c]] = Completed(recFd[c], c) /\ recFd[c] \in Version
        BY <4>1, <1>c DEF FinishInv, FinishHasReplaced, TypeInv, VersionKnown,
           HoldsRecord, FinishWriting
      <4>3. rec[run[c]].finish = c
        BY <4>2 DEF Completed, Version
      <4>4. ~FinalForGood(run[c])
        BY <4>1, <4>3 DEF FinalForGood, Tentative
      <4> QED
        BY <4>1, <4>4, <1>a
    <3>3. \A r \in Runs : tomb'[r] # None => tomb[r] # None \/ FinalForGood(r)
      BY <1>23, <1>a DEF FinishUndo, SetRecord, Goto, Return, Faults, NoFault
    <3>4. WorksOnFinal(c)
      BY <1>23, <1>a, <1>d DEF FinishUndo, SetRecord, Goto, Return, Faults,
         NoFault, WorksOnFinal, InvalidateWriting, StartStages
    <3> QED
      BY <1>23, <3>1, <3>2, <3>3, <3>4, <1>b, <1>c, TombKeep
  <2> QED
    BY <2>1, <2>2
<1>24. ASSUME NEW c \in Finishers, OthersKeep(c), FinishUndoFails(c)
      PROVE  LockInv' /\ TombInv'
  <2>1. LockInv'
    <3>1. KeepsLock(c) /\ UNCHANGED <<lockFile, lockFd>>
      BY <1>24, <1>a, <1>d DEF FinishUndoFails, dirVars, Goto, Return,
         Faults, NoFault, KeepsLock, KindOfStage, HoldsRunLock, HoldsRecord,
         FinishWriting, InvalidateWriting, StartStages
    <3> QED
      BY <1>24, <3>1, <1>b, LockKeep
  <2>2. TombInv'
    <3>1. SettlesForGood(c) /\ WorksOnFinal(c)
      BY <1>24, <1>a, <1>d DEF FinishUndoFails, dirVars, Goto, Return,
         Faults, NoFault, SettlesForGood, Tentative, Standing, Shown,
         WorksOnFinal, InvalidateWriting, StartStages, KindOfStage
    <3>2. UNCHANGED rec /\ \A r \in Runs : tomb'[r] # None => tomb[r] # None
      BY <1>24, <1>a DEF FinishUndoFails, dirVars, Goto, Return, Faults,
         NoFault
    <3> QED
      BY <1>24, <3>1, <3>2, <1>b, <1>c, TombKeep
  <2> QED
    BY <2>1, <2>2
<1>25. ASSUME NEW c \in Finishers, OthersKeep(c), FinishUndoSync(c)
      PROVE  LockInv' /\ TombInv'
  <2>1. LockInv'
    <3>1. KeepsLock(c) /\ UNCHANGED <<lockFile, lockFd>>
      BY <1>25, <1>a, <1>d DEF FinishUndoSync, SyncRecords, Goto, Return,
         Faults, NoFault, KeepsLock, KindOfStage, HoldsRunLock, HoldsRecord,
         FinishWriting, InvalidateWriting, StartStages
    <3> QED
      BY <1>25, <3>1, <1>b, LockKeep
  <2>2. TombInv'
    <3>1. SettlesForGood(c) /\ WorksOnFinal(c)
      BY <1>25, <1>a, <1>d DEF FinishUndoSync, SyncRecords, Goto, Return,
         Faults, NoFault, SettlesForGood, Tentative, Standing, Shown,
         WorksOnFinal, InvalidateWriting, StartStages, KindOfStage
    <3>2. UNCHANGED rec /\ \A r \in Runs : tomb'[r] # None => tomb[r] # None
      BY <1>25, <1>a DEF FinishUndoSync, SyncRecords, Goto, Return, Faults,
         NoFault
    <3> QED
      BY <1>25, <3>1, <3>2, <1>b, <1>c, TombKeep
  <2> QED
    BY <2>1, <2>2
<1>26. ASSUME NEW c \in Finishers, OthersKeep(c), FinishClean(c)
      PROVE  LockInv' /\ TombInv'
  <2>1. LockInv'
    <3>1. KeepsLock(c) /\ UNCHANGED <<lockFile, lockFd>>
      BY <1>26, <1>a, <1>d DEF FinishClean, SyncRecords, Goto, Return,
         Faults, NoFault, KeepsLock, KindOfStage, HoldsRunLock, HoldsRecord,
         FinishWriting, InvalidateWriting, StartStages
    <3> QED
      BY <1>26, <3>1, <1>b, LockKeep
  <2>2. TombInv'
    <3>1. SettlesForGood(c) /\ WorksOnFinal(c)
      BY <1>26, <1>a, <1>d DEF FinishClean, SyncRecords, Goto, Return,
         Faults, NoFault, SettlesForGood, Tentative, Standing, Shown,
         WorksOnFinal, InvalidateWriting, StartStages, KindOfStage
    <3>2. UNCHANGED rec /\ \A r \in Runs : tomb'[r] # None => tomb[r] # None
      BY <1>26, <1>a DEF FinishClean, SyncRecords, Goto, Return, Faults,
         NoFault
    <3> QED
      BY <1>26, <3>1, <3>2, <1>b, <1>c, TombKeep
  <2> QED
    BY <2>1, <2>2
<1>27. ASSUME NEW c \in Invalidators, OthersKeep(c), InvalidateTemp(c)
      PROVE  LockInv' /\ TombInv'
  <2>1. LockInv'
    <3>1. KeepsLock(c) /\ UNCHANGED <<lockFile, lockFd>>
      BY <1>27, <1>a, <1>d DEF InvalidateTemp, WriteTemp, WriteTempFails,
         Goto, Return, Faults, NoFault, KeepsLock, KindOfStage, HoldsRunLock,
         HoldsRecord, FinishWriting, InvalidateWriting, StartStages
    <3> QED
      BY <1>27, <3>1, <1>b, LockKeep
  <2>2. TombInv'
    <3>1. SettlesForGood(c) /\ WorksOnFinal(c)
      BY <1>27, <1>a, <1>d DEF InvalidateTemp, WriteTemp, WriteTempFails,
         Goto, Return, Faults, NoFault, SettlesForGood, Tentative, Standing,
         Shown, WorksOnFinal, InvalidateWriting, StartStages, KindOfStage
    <3>2. UNCHANGED rec /\ \A r \in Runs : tomb'[r] # None => tomb[r] # None
      BY <1>27, <1>a DEF InvalidateTemp, WriteTemp, WriteTempFails, Goto,
         Return, Faults, NoFault
    <3> QED
      BY <1>27, <3>1, <3>2, <1>b, <1>c, TombKeep
  <2> QED
    BY <2>1, <2>2
<1>28. ASSUME NEW c \in Invalidators, OthersKeep(c), InvalidateClaim(c)
      PROVE  LockInv' /\ TombInv'
  <2>1. LockInv'
    <3>1. KeepsLock(c) /\ UNCHANGED <<lockFile, lockFd>>
      BY <1>28, <1>a, <1>d DEF InvalidateClaim, SetTomb, Goto, Return,
         Faults, NoFault, KeepsLock, KindOfStage, HoldsRunLock, HoldsRecord,
         FinishWriting, InvalidateWriting, StartStages
    <3> QED
      BY <1>28, <3>1, <1>b, LockKeep
  <2>2. TombInv'
    <3>1. SettlesForGood(c)
      BY <1>28, <1>a, <1>d DEF InvalidateClaim, SetTomb, Goto, Return,
         Faults, NoFault, SettlesForGood, Tentative, Standing, Shown
    <3>2. \A r \in Runs : FinalForGood(r) => rec'[r] = rec[r]
      BY <1>28 DEF InvalidateClaim, SetTomb, Goto, Return, Faults, NoFault
    <3>3. \A r \in Runs : tomb'[r] # None => tomb[r] # None \/ FinalForGood(r)
      BY <1>28, <1>a, <1>b DEF InvalidateClaim, SetTomb, TombInv, InvalidateWriting
    <3>4. WorksOnFinal(c)
      BY <1>28, <1>a, <1>d DEF InvalidateClaim, SetTomb, Goto, Return,
         Faults, NoFault, WorksOnFinal, InvalidateWriting, StartStages
    <3> QED
      BY <1>28, <3>1, <3>2, <3>3, <3>4, <1>b, <1>c, TombKeep
  <2> QED
    BY <2>1, <2>2
<1>29. ASSUME NEW c \in Invalidators, OthersKeep(c), InvalidateClaimFails(c)
      PROVE  LockInv' /\ TombInv'
  <2>1. LockInv'
    <3>1. KeepsLock(c) /\ UNCHANGED <<lockFile, lockFd>>
      BY <1>29, <1>a, <1>d DEF InvalidateClaimFails, DropTemp, dirVars, Goto,
         Return, Faults, NoFault, KeepsLock, KindOfStage, HoldsRunLock,
         HoldsRecord, FinishWriting, InvalidateWriting, StartStages
    <3> QED
      BY <1>29, <3>1, <1>b, LockKeep
  <2>2. TombInv'
    <3>1. SettlesForGood(c) /\ WorksOnFinal(c)
      BY <1>29, <1>a, <1>d DEF InvalidateClaimFails, DropTemp, dirVars, Goto,
         Return, Faults, NoFault, SettlesForGood, Tentative, Standing, Shown,
         WorksOnFinal, InvalidateWriting, StartStages, KindOfStage
    <3>2. UNCHANGED rec /\ \A r \in Runs : tomb'[r] # None => tomb[r] # None
      BY <1>29, <1>a DEF InvalidateClaimFails, DropTemp, dirVars, Goto,
         Return, Faults, NoFault
    <3> QED
      BY <1>29, <3>1, <3>2, <1>b, <1>c, TombKeep
  <2> QED
    BY <2>1, <2>2
<1>30. ASSUME NEW c \in Invalidators, OthersKeep(c), InvalidateSync(c)
      PROVE  LockInv' /\ TombInv'
  <2>1. LockInv'
    <3>1. KeepsLock(c) /\ UNCHANGED <<lockFile, lockFd>>
      BY <1>30, <1>a, <1>d DEF InvalidateSync, SyncTombs, Goto, Return,
         Faults, NoFault, KeepsLock, KindOfStage, HoldsRunLock, HoldsRecord,
         FinishWriting, InvalidateWriting, StartStages
    <3> QED
      BY <1>30, <3>1, <1>b, LockKeep
  <2>2. TombInv'
    <3>1. SettlesForGood(c) /\ WorksOnFinal(c)
      BY <1>30, <1>a, <1>d DEF InvalidateSync, SyncTombs, Goto, Return,
         Faults, NoFault, SettlesForGood, Tentative, Standing, Shown,
         WorksOnFinal, InvalidateWriting, StartStages, KindOfStage
    <3>2. UNCHANGED rec /\ \A r \in Runs : tomb'[r] # None => tomb[r] # None
      BY <1>30, <1>a DEF InvalidateSync, SyncTombs, Goto, Return, Faults,
         NoFault
    <3> QED
      BY <1>30, <3>1, <3>2, <1>b, <1>c, TombKeep
  <2> QED
    BY <2>1, <2>2
<1>31. ASSUME NEW c \in Invalidators, OthersKeep(c), InvalidateUndo(c)
      PROVE  LockInv' /\ TombInv'
  <2>1. LockInv'
    <3>1. KeepsLock(c) /\ UNCHANGED <<lockFile, lockFd>>
      BY <1>31, <1>a, <1>d DEF InvalidateUndo, SetTomb, Goto, Return, Faults,
         NoFault, KeepsLock, KindOfStage, HoldsRunLock, HoldsRecord,
         FinishWriting, InvalidateWriting, StartStages
    <3> QED
      BY <1>31, <3>1, <1>b, LockKeep
  <2>2. TombInv'
    <3>1. SettlesForGood(c) /\ WorksOnFinal(c)
      BY <1>31, <1>a, <1>d DEF InvalidateUndo, SetTomb, Goto, Return, Faults,
         NoFault, SettlesForGood, Tentative, Standing, Shown, WorksOnFinal,
         InvalidateWriting, StartStages, KindOfStage
    <3>2. UNCHANGED rec /\ \A r \in Runs : tomb'[r] # None => tomb[r] # None
      BY <1>31, <1>a DEF InvalidateUndo, SetTomb, Goto, Return, Faults,
         NoFault
    <3> QED
      BY <1>31, <3>1, <3>2, <1>b, <1>c, TombKeep
  <2> QED
    BY <2>1, <2>2
<1>32. ASSUME NEW c \in Invalidators, OthersKeep(c), InvalidateUndoFails(c)
      PROVE  LockInv' /\ TombInv'
  <2>1. LockInv'
    <3>1. KeepsLock(c) /\ UNCHANGED <<lockFile, lockFd>>
      BY <1>32, <1>a, <1>d DEF InvalidateUndoFails, DropTemp, dirVars, Goto,
         Return, Faults, NoFault, KeepsLock, KindOfStage, HoldsRunLock,
         HoldsRecord, FinishWriting, InvalidateWriting, StartStages
    <3> QED
      BY <1>32, <3>1, <1>b, LockKeep
  <2>2. TombInv'
    <3>1. SettlesForGood(c) /\ WorksOnFinal(c)
      BY <1>32, <1>a, <1>d DEF InvalidateUndoFails, DropTemp, dirVars, Goto,
         Return, Faults, NoFault, SettlesForGood, Tentative, Standing, Shown,
         WorksOnFinal, InvalidateWriting, StartStages, KindOfStage
    <3>2. UNCHANGED rec /\ \A r \in Runs : tomb'[r] # None => tomb[r] # None
      BY <1>32, <1>a DEF InvalidateUndoFails, DropTemp, dirVars, Goto,
         Return, Faults, NoFault
    <3> QED
      BY <1>32, <3>1, <3>2, <1>b, <1>c, TombKeep
  <2> QED
    BY <2>1, <2>2
<1>33. ASSUME NEW c \in Invalidators, OthersKeep(c), InvalidateUndoSync(c)
      PROVE  LockInv' /\ TombInv'
  <2>1. LockInv'
    <3>1. KeepsLock(c) /\ UNCHANGED <<lockFile, lockFd>>
      BY <1>33, <1>a, <1>d DEF InvalidateUndoSync, DropTemp, SyncTombs, Goto,
         Return, Faults, NoFault, KeepsLock, KindOfStage, HoldsRunLock,
         HoldsRecord, FinishWriting, InvalidateWriting, StartStages
    <3> QED
      BY <1>33, <3>1, <1>b, LockKeep
  <2>2. TombInv'
    <3>1. SettlesForGood(c) /\ WorksOnFinal(c)
      BY <1>33, <1>a, <1>d DEF InvalidateUndoSync, DropTemp, SyncTombs, Goto,
         Return, Faults, NoFault, SettlesForGood, Tentative, Standing, Shown,
         WorksOnFinal, InvalidateWriting, StartStages, KindOfStage
    <3>2. UNCHANGED rec /\ \A r \in Runs : tomb'[r] # None => tomb[r] # None
      BY <1>33, <1>a DEF InvalidateUndoSync, DropTemp, SyncTombs, Goto,
         Return, Faults, NoFault
    <3> QED
      BY <1>33, <3>1, <3>2, <1>b, <1>c, TombKeep
  <2> QED
    BY <2>1, <2>2
<1>34. ASSUME NEW c \in Invalidators, OthersKeep(c), InvalidateClean(c)
      PROVE  LockInv' /\ TombInv'
  <2>1. LockInv'
    <3>1. KeepsLock(c) /\ UNCHANGED <<lockFile, lockFd>>
      BY <1>34, <1>a, <1>d DEF InvalidateClean, DropTemp, dirVars, Goto,
         Return, Faults, NoFault, KeepsLock, KindOfStage, HoldsRunLock,
         HoldsRecord, FinishWriting, InvalidateWriting, StartStages
    <3> QED
      BY <1>34, <3>1, <1>b, LockKeep
  <2>2. TombInv'
    <3>1. SettlesForGood(c) /\ WorksOnFinal(c)
      BY <1>34, <1>a, <1>d DEF InvalidateClean, DropTemp, dirVars, Goto,
         Return, Faults, NoFault, SettlesForGood, Tentative, Standing, Shown,
         WorksOnFinal, InvalidateWriting, StartStages, KindOfStage
    <3>2. UNCHANGED rec /\ \A r \in Runs : tomb'[r] # None => tomb[r] # None
      BY <1>34, <1>a DEF InvalidateClean, DropTemp, dirVars, Goto, Return,
         Faults, NoFault
    <3> QED
      BY <1>34, <3>1, <3>2, <1>b, <1>c, TombKeep
  <2> QED
    BY <2>1, <2>2
<1>35. ASSUME NEW c \in Calls, OthersKeep(c), Kill(c)
      PROVE  LockInv' /\ TombInv'
  <2>1. LockInv'
    <3>1. KeepsLock(c) /\ UNCHANGED <<lockFile, lockFd>>
      BY <1>35, <1>a, <1>d DEF Kill, Live, dirVars, Goto, Return, Faults,
         NoFault, KeepsLock, KindOfStage, HoldsRunLock, HoldsRecord,
         FinishWriting, InvalidateWriting, StartStages
    <3> QED
      BY <1>35, <3>1, <1>b, LockKeep
  <2>2. TombInv'
    <3>1. SettlesForGood(c) /\ WorksOnFinal(c)
      BY <1>35, <1>a, <1>d DEF Kill, Live, dirVars, Goto, Return, Faults,
         NoFault, SettlesForGood, Tentative, Standing, Shown, WorksOnFinal,
         InvalidateWriting, StartStages, KindOfStage
    <3>2. UNCHANGED rec /\ \A r \in Runs : tomb'[r] # None => tomb[r] # None
      BY <1>35, <1>a DEF Kill, Live, dirVars, Goto, Return, Faults, NoFault
    <3> QED
      BY <1>35, <3>1, <3>2, <1>b, <1>c, TombKeep
  <2> QED
    BY <2>1, <2>2
<1>36. ASSUME NEW r \in Runs PROVE ~SwapLock(r)
  BY <1>a DEF SwapLock
<1>37. ~Outage
  BY <1>a DEF Outage
<1>38. CASE UNCHANGED vars
  BY <1>38, <1>b DEF vars, LockInv, TombInv, FinalForGood, Tentative,
     HoldsRunLock, HoldsRecord
<1> QED
  BY <1>1, <1>2, <1>3, <1>4, <1>5, <1>6, <1>7, <1>8, <1>9, <1>10, <1>11,
     <1>12, <1>13, <1>14, <1>15, <1>16, <1>17, <1>18, <1>19, <1>20, <1>21,
     <1>22, <1>23, <1>24, <1>25, <1>26, <1>27, <1>28, <1>29, <1>30, <1>31,
     <1>32, <1>33, <1>34, <1>35, <1>36, <1>37, <1>38, <1>i DEF Next,
     CallStep, StartStep, HeadStep, FinishStep, InvalidateStep, Terminated

(* The store begins with no lock taken and no tombstone.                   *)
LEMMA GuardInit == Init => LockInv /\ TombInv
  BY NoneIsNoVersion DEF Init, LockInv, TombInv, HoldsRunLock, HoldsRecord,
     FinishWriting, InvalidateWriting

(* All that the ledger depends on holds while locks and power last.        *)
LEMMA LedgerInvariant ==
  ASSUME ~EarlyCallers, MaxSwaps = 0, MaxOutages = 0 PROVE Spec => []LedgerInv
<1>1. Init => LedgerInv
  BY StandsInit, OwnInit, GuardInit DEF LedgerInv
<1>2. LedgerInv /\ [Next]_vars => LedgerInv'
  BY StandsStep, OwnStep, GuardStep DEF LedgerInv
<1> QED
  BY <1>1, <1>2, PTL DEF Spec

(* Without early callers, while nobody replaces a lock file and no power   *)
(* is lost: a tombstone is on a final record, never on a draft or nothing. *)
THEOREM TombstonesOnFinal ==
  ASSUME ~EarlyCallers, MaxSwaps = 0, MaxOutages = 0
  PROVE  Spec => []TombstoneOnFinal
<1>1. LedgerInv => TombstoneOnFinal
  BY DEF LedgerInv, TombInv, FinalForGood, TombstoneOnFinal, IsDraft
<1> QED
  BY LedgerInvariant, <1>1, PTL

-----------------------------------------------------------------------------
(* The refinement of RunLedger: which call started, finished and           *)
(* invalidated a run, as the ledger sees it.                               *)
StartedIn(r) == IF rec[r] = None THEN None ELSE Settled(rec[r].origin)
FinishedIn(r) == IF rec[r] = None THEN None ELSE Settled(rec[r].finish)
InvalidatedIn(r) == Settled(tomb[r])
EffectIn(c, r) == c \in {StartedIn(r), FinishedIn(r), InvalidatedIn(r)}

RecordSeenSame(r) ==
  StartedIn(r)' = StartedIn(r) /\ FinishedIn(r)' = FinishedIn(r)
TombSeenSame(r) == InvalidatedIn(r)' = InvalidatedIn(r)
LedgerSame == \A r \in Runs : RecordSeenSame(r) /\ TombSeenSame(r)

(* The steps of the ledger, in these terms.                                *)
LEMMA LedgerStutters ==
  ASSUME LedgerSame, UNCHANGED out PROVE UNCHANGED Ledger!ledger
BY DEF LedgerSame, RecordSeenSame, TombSeenSame, StartedIn, FinishedIn,
   InvalidatedIn, Ledger!ledger

(* A report that is true of what the record shows is a step of the ledger. *)
LEMMA LedgerReports ==
  ASSUME LedgerSame, NEW c \in Calls, out[c] = "none",
         NEW o \in {"ok", "rejected", "uncertain", "killed"},
         out' = [out EXCEPT ![c] = o],
         o = "ok" => \E r \in Runs : EffectIn(c, r),
         o = "rejected" => \A r \in Runs : ~EffectIn(c, r)
  PROVE  Ledger!Next
<1>1. Ledger!HasEffect(c) <=> \E r \in Runs : EffectIn(c, r)
  BY DEF Ledger!HasEffect, EffectIn, StartedIn, FinishedIn, InvalidatedIn
<1>2. UNCHANGED <<[r \in Runs |-> IF rec[r] = None THEN None
                                  ELSE Settled(rec[r].origin)],
                  [r \in Runs |-> IF rec[r] = None THEN None
                                  ELSE Settled(rec[r].finish)],
                  [r \in Runs |-> Settled(tomb[r])]>>
  BY DEF LedgerSame, RecordSeenSame, TombSeenSame, StartedIn, FinishedIn,
     InvalidatedIn
<1>3. Ledger!Report(c)
  BY <1>1, <1>2 DEF Ledger!Report
<1> QED
  BY <1>3 DEF Ledger!Next, Ledger!Calls

(* A call may say nothing, or nothing certain, when its effect shows.      *)
VagueOut(c) ==
  \/ UNCHANGED out
  \/ out' \in {[out EXCEPT ![c] = o] : o \in {"uncertain", "killed"}}

(* A start that is settled, or dies in the middle, is one of its steps,    *)
LEMMA LedgerStarts ==
  ASSUME NEW c \in Starters, NEW r \in Runs, out[c] = "none", VagueOut(c),
         \A q \in Runs : ~EffectIn(c, q), StartedIn(r) = None,
         \A q \in Runs : StartedIn(q)' = IF q = r THEN c ELSE StartedIn(q),
         \A q \in Runs : FinishedIn(q)' = FinishedIn(q) /\ TombSeenSame(q)
  PROVE  Ledger!Next
<1>1. ~Ledger!HasEffect(c)
  BY DEF Ledger!HasEffect, EffectIn, StartedIn, FinishedIn, InvalidatedIn
<1>2. Ledger!Vague(c)
  BY DEF Ledger!Vague, VagueOut
<1>3. [q \in Runs |-> IF rec[q] = None THEN None
                      ELSE Settled(rec[q].origin)]' =
      [[q \in Runs |-> IF rec[q] = None THEN None
                       ELSE Settled(rec[q].origin)] EXCEPT ![r] = c]
  BY DEF StartedIn
<1>4. UNCHANGED <<[q \in Runs |-> IF rec[q] = None THEN None
                                  ELSE Settled(rec[q].finish)],
                  [q \in Runs |-> Settled(tomb[q])]>>
  BY DEF FinishedIn, TombSeenSame, InvalidatedIn
<1>5. Ledger!Start(c, r)
  BY <1>1, <1>2, <1>3, <1>4 DEF Ledger!Start, StartedIn
<1> QED
  BY <1>5 DEF Ledger!Next

(* and so is a finish, of a run that was started and not finished,         *)
LEMMA LedgerFinishes ==
  ASSUME NEW c \in Finishers, NEW r \in Runs, out[c] = "none", VagueOut(c),
         \A q \in Runs : ~EffectIn(c, q),
         StartedIn(r) # None, FinishedIn(r) = None,
         \A q \in Runs : FinishedIn(q)' = IF q = r THEN c ELSE FinishedIn(q),
         \A q \in Runs : StartedIn(q)' = StartedIn(q) /\ TombSeenSame(q)
  PROVE  Ledger!Next
<1>1. ~Ledger!HasEffect(c)
  BY DEF Ledger!HasEffect, EffectIn, StartedIn, FinishedIn, InvalidatedIn
<1>2. Ledger!Vague(c)
  BY DEF Ledger!Vague, VagueOut
<1>3. [q \in Runs |-> IF rec[q] = None THEN None
                      ELSE Settled(rec[q].finish)]' =
      [[q \in Runs |-> IF rec[q] = None THEN None
                       ELSE Settled(rec[q].finish)] EXCEPT ![r] = c]
  BY DEF FinishedIn
<1>4. UNCHANGED <<[q \in Runs |-> IF rec[q] = None THEN None
                                  ELSE Settled(rec[q].origin)],
                  [q \in Runs |-> Settled(tomb[q])]>>
  BY DEF StartedIn, TombSeenSame, InvalidatedIn
<1>5. Ledger!Finish(c, r)
  BY <1>1, <1>2, <1>3, <1>4 DEF Ledger!Finish, StartedIn, FinishedIn
<1> QED
  BY <1>5 DEF Ledger!Next

(* and an invalidation, of a run that was finished.                        *)
LEMMA LedgerInvalidates ==
  ASSUME NEW c \in Invalidators, NEW r \in Runs, out[c] = "none", VagueOut(c),
         \A q \in Runs : ~EffectIn(c, q),
         FinishedIn(r) # None, InvalidatedIn(r) = None,
         \A q \in Runs :
           InvalidatedIn(q)' = IF q = r THEN c ELSE InvalidatedIn(q),
         \A q \in Runs : RecordSeenSame(q)
  PROVE  Ledger!Next
<1>1. ~Ledger!HasEffect(c)
  BY DEF Ledger!HasEffect, EffectIn, StartedIn, FinishedIn, InvalidatedIn
<1>2. Ledger!Vague(c)
  BY DEF Ledger!Vague, VagueOut
<1>3. [q \in Runs |-> Settled(tomb[q])]' =
      [[q \in Runs |-> Settled(tomb[q])] EXCEPT ![r] = c]
  BY DEF InvalidatedIn
<1>4. UNCHANGED <<[q \in Runs |-> IF rec[q] = None THEN None
                                  ELSE Settled(rec[q].origin)],
                  [q \in Runs |-> IF rec[q] = None THEN None
                                  ELSE Settled(rec[q].finish)]>>
  BY DEF RecordSeenSame, StartedIn, FinishedIn
<1>5. Ledger!Invalidate(c, r)
  BY <1>1, <1>2, <1>3, <1>4 DEF Ledger!Invalidate, FinishedIn, InvalidatedIn
<1> QED
  BY <1>5 DEF Ledger!Next

(* Who stands where in the ledger.                                         *)
LEMMA EffectShown ==
  ASSUME LedgerInv, NEW c \in Calls, NEW r \in Runs, EffectIn(c, r)
  PROVE  pc[c] \in {"s.clean", "f.clean", "i.clean", "done"} /\ run[c] = r
<1> USE NoneIsNoVersion
<1>1. CASE c \in {StartedIn(r), FinishedIn(r)}
  <2>1. /\ rec[r] # None /\ ~Tentative(c)
        /\ c = rec[r].origin \/ (rec[r].finish # None /\ c = rec[r].finish)
    BY <1>1 DEF StartedIn, FinishedIn, Settled
  <2>2. Owned(rec[r], r) /\ InSight(rec[r])
    BY <2>1 DEF LedgerInv, StandsInv, CommitInv, DiskHasRecord, OwnInv,
       RecordsOwned, RecordsInSight
  <2> QED
    BY <2>1, <2>2 DEF Owned, InSight, Tentative
<1>2. CASE c = InvalidatedIn(r)
  <2>1. tomb[r] = c /\ ~Tentative(c)
    BY <1>2 DEF InvalidatedIn, Settled
  <2>2. TombOwned(c, r) /\ pc[c] # "i.undosync"
    BY <2>1 DEF LedgerInv, OwnInv, TombsOwned, TombsInSight
  <2> QED
    BY <2>1, <2>2 DEF TombOwned, Tentative
<1> QED
  BY <1>1, <1>2 DEF EffectIn

(* What the ledger sees of a run is as before when its record, or its      *)
(* tombstone, is and the call that moves works elsewhere or settles        *)
(* nothing.                                                                *)
LEMMA RecordSeen ==
  ASSUME LedgerInv, NEW c \in Calls, OthersKeep(c), NEW r \in Runs,
         rec'[r] = rec[r],
         r # run[c] \/ c \in Invalidators \/ (Tentative(c)' <=> Tentative(c))
  PROVE  RecordSeenSame(r)
<1> USE CallsDisjoint, NoneIsNoVersion
<1>1. CASE rec[r] = None
  BY <1>1 DEF RecordSeenSame, StartedIn, FinishedIn
<1>2. CASE rec[r] # None
  <2>1. rec[r] \in disk[r] \ {None}
    BY <1>2 DEF LedgerInv, StandsInv, CommitInv, DiskHasRecord
  <2>2. /\ rec[r].origin \in Starters /\ rec[r].finish \in Finishers \cup {None}
        /\ Owned(rec[r], r)
    BY <2>1 DEF LedgerInv, StandsInv, TypeInv, TypeOK, Version, OwnInv,
       RecordsOwned
  <2>3. \A d \in {rec[r].origin, rec[r].finish} :
          d # None => (Tentative(d)' <=> Tentative(d))
    BY <2>2 DEF Owned, Tentative, OthersKeep
  <2> QED
    BY <1>2, <2>2, <2>3 DEF RecordSeenSame, StartedIn, FinishedIn, Settled
<1> QED
  BY <1>1, <1>2

(* A tombstone shows what it showed unless its own call settles it.        *)
LEMMA TombSeen ==
  ASSUME LedgerInv, NEW c \in Calls, OthersKeep(c), NEW r \in Runs,
         tomb'[r] = tomb[r],
         r # run[c] \/ c \notin Invalidators \/ (Tentative(c)' <=> Tentative(c))
  PROVE  TombSeenSame(r)
<1> USE CallsDisjoint, NoneIsNoVersion
<1>1. tomb[r] # None => tomb[r] \in Invalidators /\ TombOwned(tomb[r], r)
  BY DEF LedgerInv, StandsInv, TypeInv, TypeOK, OwnInv, TombsOwned,
     TombsInSight
<1>2. tomb[r] # None => (Tentative(tomb[r])' <=> Tentative(tomb[r]))
  BY <1>1 DEF TombOwned, Tentative, OthersKeep
<1> QED
  BY <1>2 DEF TombSeenSame, InvalidatedIn, Settled

(* A step that changes no record and no tombstone and settles nothing is   *)
(* none of the ledger, or a report.                                        *)
LEMMA QuietStep ==
  ASSUME LedgerInv, NEW c \in Calls, OthersKeep(c), UNCHANGED <<rec, tomb>>,
         Tentative(c)' <=> Tentative(c),
         \/ UNCHANGED out
         \/ /\ pc[c] # "done"
            /\ \/ /\ pc[c] \notin {"s.clean", "f.clean", "i.clean"}
                  /\ out' = [out EXCEPT ![c] = "rejected"]
               \/ out' = [out EXCEPT ![c] = "uncertain"]
               \/ out' = [out EXCEPT ![c] = "killed"]
               \/ /\ \E r \in Runs : EffectIn(c, r)
                  /\ out' = [out EXCEPT ![c] = "ok"]
  PROVE  [Ledger!Next]_(Ledger!ledger)
<1>1. LedgerSame
  BY RecordSeen, TombSeen DEF LedgerSame
<1>2. CASE UNCHANGED out
  BY <1>1, <1>2, LedgerStutters
<1>3. ASSUME pc[c] # "done",
             NEW o \in {"ok", "rejected", "uncertain", "killed"},
             out' = [out EXCEPT ![c] = o],
             o = "ok" => \E r \in Runs : EffectIn(c, r),
             o = "rejected" => pc[c] \notin {"s.clean", "f.clean", "i.clean"}
      PROVE  Ledger!Next
  <2>1. out[c] = "none"
    BY <1>3 DEF LedgerInv, OwnInv, OutInv
  <2>2. o = "rejected" => \A r \in Runs : ~EffectIn(c, r)
    BY <1>3, EffectShown
  <2> QED
    BY <1>1, <1>3, <2>1, <2>2, LedgerReports
<1> QED
  BY <1>2, <1>3

(* Such a step, away from the stages in which a call has taken effect.     *)
Unnoticed(c) ==
  /\ UNCHANGED <<rec, tomb>> /\ ~Tentative(c) /\ ~Tentative(c)'
  /\ pc[c] \notin {"s.clean", "f.clean", "i.clean", "done"}
  /\ \/ UNCHANGED out
     \/ out' = [out EXCEPT ![c] = "rejected"]
     \/ out' = [out EXCEPT ![c] = "uncertain"]

(* A step by which a call stops being able to take its change back is the  *)
(* ledger's start, finish or invalidation.                                 *)
LEMMA SettlingStep ==
  ASSUME LedgerInv, NEW c \in Calls, OthersKeep(c), UNCHANGED <<rec, tomb>>,
         Tentative(c), ~Tentative(c)', VagueOut(c)
  PROVE  Ledger!Next
<1> USE CallsDisjoint, NoneIsNoVersion
<1>1. /\ run[c] \in Runs /\ out[c] = "none"
      /\ \A r \in Runs : ~EffectIn(c, r)
  <2>1. run[c] \in Runs /\ out[c] = "none"
    BY DEF LedgerInv, StandsInv, TypeInv, RunKnown, OwnInv, OutInv, Tentative
  <2>2. pc[c] \notin {"s.clean", "f.clean", "i.clean", "done"}
    BY DEF Tentative
  <2> QED
    BY <2>1, <2>2, EffectShown
<1>2. \A r \in Runs : r # run[c] => RecordSeenSame(r) /\ TombSeenSame(r)
  BY RecordSeen, TombSeen
<1>3. rec[run[c]] # None =>
        /\ rec[run[c]] \in Version /\ Owned(rec[run[c]], run[c])
  BY <1>1 DEF LedgerInv, StandsInv, CommitInv, DiskHasRecord, TypeInv, TypeOK,
     OwnInv, RecordsOwned
<1>4. CASE c \in Starters
  <2>1. pc[c] \in {"s.sync", "s.undo"}
    BY <1>4 DEF LedgerInv, StandsInv, TypeInv, OwnStages, Tentative, StartStages
  <2>2. rec[run[c]] = Draft(c)
    BY <1>4, <2>1 DEF LedgerInv, StandsInv, ClaimInv, StartOwnsClaim, Unsettled
  <2>3. /\ rec[run[c]] # None /\ rec[run[c]].origin = c
        /\ rec[run[c]].finish = None
    BY <1>4, <2>2 DEF Draft, Version
  <2>4. StartedIn(run[c]) = None /\ FinishedIn(run[c]) = None
    BY <2>3 DEF StartedIn, FinishedIn, Settled
  <2>5. \A r \in Runs : r = run[c] => StartedIn(r)' = c /\ FinishedIn(r)' = None
    BY <2>3, <1>4 DEF StartedIn, FinishedIn, Settled, Tentative
  <2>6. \A r \in Runs : TombSeenSame(r)
    BY <1>4, TombSeen
  <2>7. \A r \in Runs :
          /\ StartedIn(r)' = IF r = run[c] THEN c ELSE StartedIn(r)
          /\ FinishedIn(r)' = FinishedIn(r)
    BY <1>2, <2>4, <2>5 DEF RecordSeenSame
  <2> QED
    BY <1>1, <1>4, <2>4, <2>6, <2>7, LedgerStarts
<1>5. CASE c \in Finishers
  <2>1. pc[c] \in {"f.sync", "f.undo"}
    BY <1>5 DEF LedgerInv, StandsInv, TypeInv, OwnStages, Tentative,
       FinishWriting
  <2>2. rec[run[c]] = Completed(recFd[c], c) /\ recFd[c] \in Version
    BY <1>5, <2>1 DEF LedgerInv, StandsInv, FinishInv, FinishHasReplaced,
       TypeInv, VersionKnown, HoldsRecord, FinishWriting
  <2>3. /\ rec[run[c]] # None /\ rec[run[c]].finish = c
        /\ rec[run[c]].origin \in Starters
    BY <1>5, <2>2 DEF Completed, Version
  <2>4. ~Tentative(rec[run[c]].origin)
    <3> SUFFICES ASSUME Tentative(rec[run[c]].origin) PROVE FALSE
      OBVIOUS
    <3>1. /\ run[rec[run[c]].origin] = run[c]
          /\ Unsettled(rec[run[c]].origin)
      BY <1>3, <2>3 DEF Owned, Tentative, Unsettled
    <3> QED
      BY <1>5, <2>1, <2>3, <3>1 DEF LedgerInv, StandsInv, ClaimInv,
         StartIsAlone, Live
  <2>5. StartedIn(run[c]) # None /\ FinishedIn(run[c]) = None
    BY <2>3, <2>4 DEF StartedIn, FinishedIn, Settled
  <2>6. \A r \in Runs : r = run[c] =>
          StartedIn(r)' = StartedIn(r) /\ FinishedIn(r)' = c
    <3>1. PICK o : o = rec[run[c]].origin
      OBVIOUS
    <3>2. o \in Calls \ {c} /\ ~Tentative(o)
      BY <1>5, <2>3, <2>4, <3>1
    <3>3. ~Tentative(o)'
      BY <3>2 DEF OthersKeep, Tentative
    <3>4. ASSUME NEW r \in Runs, r = run[c]
          PROVE  StartedIn(r)' = StartedIn(r)
      BY <2>3, <3>1, <3>2, <3>3, <3>4 DEF StartedIn, Settled
    <3>5. ASSUME NEW r \in Runs, r = run[c]
          PROVE  FinishedIn(r)' = c
      BY <2>3, <3>5, <1>5 DEF FinishedIn, Settled
    <3> QED
      BY <3>4, <3>5
  <2>7. \A r \in Runs : TombSeenSame(r)
    BY <1>5, TombSeen
  <2>8. \A r \in Runs :
          /\ FinishedIn(r)' = IF r = run[c] THEN c ELSE FinishedIn(r)
          /\ StartedIn(r)' = StartedIn(r)
    BY <1>2, <2>6 DEF RecordSeenSame
  <2> QED
    BY <1>1, <1>5, <2>5, <2>7, <2>8, LedgerFinishes
<1>6. CASE c \in Invalidators
  <2>1. pc[c] \in {"i.sync", "i.undo"}
    BY <1>6 DEF LedgerInv, StandsInv, TypeInv, OwnStages, Tentative,
       InvalidateWriting
  <2>2. tomb[run[c]] = c
    BY <1>6, <2>1 DEF LedgerInv, OwnInv, TombsInSight
  <2>3. FinalForGood(run[c])
    BY <1>6, <2>1 DEF LedgerInv, TombInv, InvalidateWriting
  <2>4. FinishedIn(run[c]) # None /\ InvalidatedIn(run[c]) = None
    BY <2>2, <2>3 DEF FinalForGood, FinishedIn, InvalidatedIn, Settled
  <2>5. \A r \in Runs : r = run[c] => InvalidatedIn(r)' = c
    BY <2>2, <1>6 DEF InvalidatedIn, Settled, Tentative
  <2>6. \A r \in Runs : RecordSeenSame(r)
    BY <1>6, RecordSeen
  <2>7. \A r \in Runs :
          InvalidatedIn(r)' = IF r = run[c] THEN c ELSE InvalidatedIn(r)
    BY <1>2, <2>5 DEF TombSeenSame
  <2> QED
    BY <1>1, <1>6, <2>4, <2>6, <2>7, LedgerInvalidates
<1> QED
  BY <1>4, <1>5, <1>6

(* Every system call of every operation is a step of the ledger, or none.  *)
LEMMA LedgerStep ==
  ASSUME ~EarlyCallers, MaxSwaps = 0, MaxOutages = 0, LedgerInv, [Next]_vars
  PROVE  [Ledger!Next]_(Ledger!ledger)
<1> USE CallsDisjoint, NoneIsNoVersion, BoundsAreNat
<1>a. /\ rec \in [Runs -> Version \cup {None}]
      /\ tomb \in [Runs -> Invalidators \cup {None}]
      /\ pc \in [Calls -> Stages] /\ run \in [Calls -> Runs \cup {None}]
      /\ budget \in [faults : Nat, swaps : Nat, kills : Nat, outages : Nat]
  BY DEF LedgerInv, StandsInv, TypeInv, TypeOK
<1>b. RecordsOwned /\ RecordsInSight /\ TombsOwned /\ TombsInSight
  BY DEF LedgerInv, OwnInv
<1>c. TypeInv /\ ClaimInv /\ FinishInv /\ CommitInv /\ DiskHasRecord
  BY DEF LedgerInv, StandsInv, CommitInv
<1>d. \A c \in Calls : pc[c] \notin {"idle", "done", "s.temp"} => run[c] \in Runs
  BY <1>c DEF TypeInv, RunKnown
<1>i. \A c \in Calls : CallStep(c) \/ Kill(c) => OthersKeep(c)
  BY <1>c, OneMoves
<1>1. ASSUME NEW c \in Starters, OthersKeep(c), BeginStart(c)
      PROVE  [Ledger!Next]_(Ledger!ledger)
  <2>1. Unnoticed(c)
    BY <1>1, <1>a DEF BeginStart, dirVars, Goto, Return, Faults, NoFault,
       Unnoticed, Tentative
  <2> QED
    BY <1>1, <2>1, QuietStep DEF Unnoticed
<1>2. ASSUME NEW c \in Starters, OthersKeep(c), StartTemp(c)
      PROVE  [Ledger!Next]_(Ledger!ledger)
  <2>1. Unnoticed(c)
    BY <1>2, <1>a DEF StartTemp, WriteTemp, WriteTempFails, dirVars, Goto,
       Return, Faults, NoFault, Unnoticed, Tentative
  <2> QED
    BY <1>2, <2>1, QuietStep DEF Unnoticed
<1>3. ASSUME NEW c \in Starters, OthersKeep(c), StartClaim(c)
      PROVE  [Ledger!Next]_(Ledger!ledger)
  <2>2. /\ UNCHANGED <<tomb, out>> /\ run[c] \in Runs /\ pc[c] = "s.link"
        /\ rec' = [rec EXCEPT ![run[c]] = Draft(c)]
        /\ (Tentative(c)' <=> TRUE) /\ (Tentative(c) <=> FALSE)
    BY <1>3, <1>a, <1>d DEF StartClaim, SetRecord, Goto, Tentative
  <2>3. \A r \in Runs : r # run[c] => RecordSeenSame(r)
    BY <1>3, <2>2, <1>a, RecordSeen
  <2>4. \A r \in Runs : TombSeenSame(r)
    BY <1>3, <2>2, TombSeen
  <2>5. \A r \in Runs : r = run[c] => RecordSeenSame(r)
    <3>1. rec[run[c]] = None
      BY <1>3 DEF StartClaim
    <3>2. /\ rec'[run[c]].origin = c /\ rec'[run[c]].finish = None
      BY <2>2, <1>a DEF Draft
    <3> QED
      BY <2>2, <3>1, <3>2 DEF RecordSeenSame, StartedIn, FinishedIn, Settled
  <2> QED
    BY <2>2, <2>3, <2>4, <2>5, LedgerStutters DEF LedgerSame
<1>4. ASSUME NEW c \in Starters, OthersKeep(c), StartCollision(c)
      PROVE  [Ledger!Next]_(Ledger!ledger)
  <2>1. Unnoticed(c)
    BY <1>4, <1>a DEF StartCollision, dirVars, Goto, Return, Faults, NoFault,
       Unnoticed, Tentative
  <2> QED
    BY <1>4, <2>1, QuietStep DEF Unnoticed
<1>5. ASSUME NEW c \in Starters, OthersKeep(c), StartClaimFails(c)
      PROVE  [Ledger!Next]_(Ledger!ledger)
  <2>1. Unnoticed(c)
    BY <1>5, <1>a DEF StartClaimFails, DropTemp, dirVars, Goto, Return,
       Faults, NoFault, Unnoticed, Tentative
  <2> QED
    BY <1>5, <2>1, QuietStep DEF Unnoticed
<1>6. ASSUME NEW c \in Starters, OthersKeep(c), StartSync(c)
      PROVE  [Ledger!Next]_(Ledger!ledger)
  <2>2. /\ UNCHANGED <<rec, tomb, out>> /\ Tentative(c) /\ VagueOut(c)
        /\ pc'[c] \in {"s.clean", "s.undo"} /\ pc[c] # "done"
    BY <1>6, <1>a DEF StartSync, Goto, Tentative, VagueOut
  <2>3. CASE Tentative(c)'
    BY <1>6, <2>2, <2>3, QuietStep
  <2>4. CASE ~Tentative(c)'
    BY <1>6, <2>2, <2>4, SettlingStep
  <2> QED
    BY <2>3, <2>4
<1>7. ASSUME NEW c \in Starters, OthersKeep(c), StartUndo(c)
      PROVE  [Ledger!Next]_(Ledger!ledger)
  <2>2. /\ UNCHANGED <<tomb, out>> /\ run[c] \in Runs /\ pc[c] = "s.undo"
        /\ rec' = [rec EXCEPT ![run[c]] = None]
        /\ (Tentative(c)' <=> FALSE) /\ (Tentative(c) <=> TRUE)
    BY <1>7, <1>a, <1>d DEF StartUndo, SetRecord, Goto, Tentative
  <2>3. \A r \in Runs : r # run[c] => RecordSeenSame(r)
    BY <1>7, <2>2, <1>a, RecordSeen
  <2>4. \A r \in Runs : TombSeenSame(r)
    BY <1>7, <2>2, TombSeen
  <2>5. \A r \in Runs : r = run[c] => RecordSeenSame(r)
    <3>1. rec[run[c]] = Draft(c)
      BY <2>2, <1>c DEF ClaimInv, StartOwnsClaim, Unsettled
    <3>2. rec[run[c]].origin = c /\ rec[run[c]].finish = None
      BY <3>1 DEF Draft
    <3>3. rec'[run[c]] = None
      BY <2>2, <1>a
    <3> QED
      BY <2>2, <3>2, <3>3 DEF RecordSeenSame, StartedIn, FinishedIn, Settled
  <2> QED
    BY <2>2, <2>3, <2>4, <2>5, LedgerStutters DEF LedgerSame
<1>8. ASSUME NEW c \in Starters, OthersKeep(c), StartUndoFails(c)
      PROVE  [Ledger!Next]_(Ledger!ledger)
  <2>1. Tentative(c) /\ ~Tentative(c)' /\ UNCHANGED <<rec, tomb>> /\ VagueOut(c)
    BY <1>8, <1>a DEF StartUndoFails, DropTemp, dirVars, Goto, Return,
       Faults, NoFault, Tentative, VagueOut
  <2> QED
    BY <1>8, <2>1, SettlingStep
<1>9. ASSUME NEW c \in Starters, OthersKeep(c), StartUndoSync(c)
      PROVE  [Ledger!Next]_(Ledger!ledger)
  <2>1. Unnoticed(c)
    BY <1>9, <1>a DEF StartUndoSync, DropTemp, SyncRecords, Goto, Return,
       Faults, NoFault, Unnoticed, Tentative
  <2> QED
    BY <1>9, <2>1, QuietStep DEF Unnoticed
<1>10. ASSUME NEW c \in Starters, OthersKeep(c), StartClean(c)
      PROVE  [Ledger!Next]_(Ledger!ledger)
  <2>2. /\ UNCHANGED <<rec, tomb>> /\ ~Tentative(c) /\ ~Tentative(c)'
        /\ pc[c] = "s.clean" /\ out' = [out EXCEPT ![c] = "ok"]
    BY <1>10, <1>a DEF StartClean, dirVars, Goto, Return, Tentative
  <2>3. run[c] \in Runs
    BY <2>2, <1>d
  <2>4. EffectIn(c, run[c])
    <3>1. rec[run[c]] # None /\ rec[run[c]].origin = c
      BY <2>2, <2>3, <1>c DEF CommitInv, StartCommitted, DiskHasRecord
    <3> QED
      BY <2>2, <3>1 DEF EffectIn, StartedIn, Settled
  <2> QED
    BY <1>10, <2>2, <2>3, <2>4, QuietStep
<1>11. ASSUME NEW c \in Transitions, OthersKeep(c), BeginTransition(c)
      PROVE  [Ledger!Next]_(Ledger!ledger)
  <2>1. Unnoticed(c)
    BY <1>11, <1>a DEF BeginTransition, dirVars, Goto, Return, Faults,
       NoFault, Unnoticed, Tentative
  <2> QED
    BY <1>11, <2>1, QuietStep DEF Unnoticed
<1>12. ASSUME NEW c \in Transitions, OthersKeep(c), OpenLock(c)
      PROVE  [Ledger!Next]_(Ledger!ledger)
  <2>1. Unnoticed(c)
    BY <1>12, <1>a DEF OpenLock, dirVars, Goto, Return, Faults, NoFault,
       Unnoticed, Tentative
  <2> QED
    BY <1>12, <2>1, QuietStep DEF Unnoticed
<1>13. ASSUME NEW c \in Transitions, OthersKeep(c), AcquireLock(c)
      PROVE  [Ledger!Next]_(Ledger!ledger)
  <2>1. Unnoticed(c)
    BY <1>13, <1>a DEF AcquireLock, dirVars, Goto, Return, Faults, NoFault,
       Unnoticed, Tentative
  <2> QED
    BY <1>13, <2>1, QuietStep DEF Unnoticed
<1>14. ASSUME NEW c \in Transitions, OthersKeep(c), OpenRecord(c)
      PROVE  [Ledger!Next]_(Ledger!ledger)
  <2>1. Unnoticed(c)
    BY <1>14, <1>a DEF OpenRecord, dirVars, Goto, Return, Faults, NoFault,
       Unnoticed, Tentative
  <2> QED
    BY <1>14, <2>1, QuietStep DEF Unnoticed
<1>15. ASSUME NEW c \in Transitions, OthersKeep(c), ReadRecord(c)
      PROVE  [Ledger!Next]_(Ledger!ledger)
  <2>1. Unnoticed(c)
    BY <1>15, <1>a DEF ReadRecord, dirVars, Goto, Return, Faults, NoFault,
       Unnoticed, Tentative
  <2> QED
    BY <1>15, <2>1, QuietStep DEF Unnoticed
<1>16. ASSUME NEW c \in Transitions, OthersKeep(c), RereadRecord(c)
      PROVE  [Ledger!Next]_(Ledger!ledger)
  <2>1. Unnoticed(c)
    BY <1>16, <1>a DEF RereadRecord, dirVars, Goto, Return, Faults, NoFault,
       Unnoticed, Tentative
  <2> QED
    BY <1>16, <2>1, QuietStep DEF Unnoticed
<1>17. ASSUME NEW c \in Transitions, OthersKeep(c), HeadFails(c)
      PROVE  [Ledger!Next]_(Ledger!ledger)
  <2>1. Unnoticed(c)
    BY <1>17, <1>a DEF HeadFails, dirVars, Goto, Return, Faults, NoFault,
       Unnoticed, Tentative
  <2> QED
    BY <1>17, <2>1, QuietStep DEF Unnoticed
<1>18. ASSUME NEW c \in Finishers, OthersKeep(c), FinishTemp(c)
      PROVE  [Ledger!Next]_(Ledger!ledger)
  <2>1. Unnoticed(c)
    BY <1>18, <1>a DEF FinishTemp, WriteTemp, WriteTempFails, dirVars, Goto,
       Return, Faults, NoFault, Unnoticed, Tentative
  <2> QED
    BY <1>18, <2>1, QuietStep DEF Unnoticed
<1>19. ASSUME NEW c \in Finishers, OthersKeep(c), FinishBackup(c)
      PROVE  [Ledger!Next]_(Ledger!ledger)
  <2>1. Unnoticed(c)
    BY <1>19, <1>a DEF FinishBackup, DropTemp, dirVars, Goto, Return, Faults,
       NoFault, Unnoticed, Tentative
  <2> QED
    BY <1>19, <2>1, QuietStep DEF Unnoticed
<1>20. ASSUME NEW c \in Finishers, OthersKeep(c), FinishReplace(c)
      PROVE  [Ledger!Next]_(Ledger!ledger)
  <2>2. /\ UNCHANGED <<tomb, out>> /\ run[c] \in Runs /\ pc[c] = "f.replace"
        /\ rec' = [rec EXCEPT ![run[c]] = Completed(recFd[c], c)]
        /\ (Tentative(c)' <=> TRUE) /\ (Tentative(c) <=> FALSE)
    BY <1>20, <1>a, <1>d DEF FinishReplace, SetRecord, Goto, Tentative
  <2>3. \A r \in Runs : r # run[c] => RecordSeenSame(r)
    BY <1>20, <2>2, <1>a, RecordSeen
  <2>4. \A r \in Runs : TombSeenSame(r)
    BY <1>20, <2>2, TombSeen
  <2>5. \A r \in Runs : r = run[c] => RecordSeenSame(r)
    <3>1. rec[run[c]] = recFd[c] /\ recFd[c] \in Version /\ recFd[c].finish = None
      BY <2>2, <1>c DEF FinishInv, FinishHasDraft, IsDraft, TypeInv,
         VersionKnown, HoldsRecord, FinishWriting
    <3>2. PICK o : o = recFd[c].origin
      OBVIOUS
    <3>3. o \in Calls \ {c} /\ (Tentative(o)' <=> Tentative(o))
      BY <1>20, <3>1, <3>2 DEF Version, OthersKeep, Tentative
    <3>4. rec[run[c]] # None /\ rec[run[c]].origin = o /\ rec[run[c]].finish = None
      BY <3>1, <3>2
    <3>5. /\ rec'[run[c]] # None /\ rec'[run[c]].origin = o
          /\ rec'[run[c]].finish = c
      BY <2>2, <3>1, <3>2, <1>a DEF Completed, Version
    <3> QED
      BY <2>2, <3>3, <3>4, <3>5 DEF RecordSeenSame, StartedIn, FinishedIn,
         Settled
  <2> QED
    BY <2>2, <2>3, <2>4, <2>5, LedgerStutters DEF LedgerSame
<1>21. ASSUME NEW c \in Finishers, OthersKeep(c), FinishReplaceFails(c)
      PROVE  [Ledger!Next]_(Ledger!ledger)
  <2>1. Unnoticed(c)
    BY <1>21, <1>a DEF FinishReplaceFails, DropTemp, dirVars, Goto, Return,
       Faults, NoFault, Unnoticed, Tentative
  <2> QED
    BY <1>21, <2>1, QuietStep DEF Unnoticed
<1>22. ASSUME NEW c \in Finishers, OthersKeep(c), FinishSync(c)
      PROVE  [Ledger!Next]_(Ledger!ledger)
  <2>2. /\ UNCHANGED <<rec, tomb, out>> /\ Tentative(c) /\ VagueOut(c)
        /\ pc'[c] \in {"f.clean", "f.undo"} /\ pc[c] # "done"
    BY <1>22, <1>a DEF FinishSync, Goto, Tentative, VagueOut
  <2>3. CASE Tentative(c)'
    BY <1>22, <2>2, <2>3, QuietStep
  <2>4. CASE ~Tentative(c)'
    BY <1>22, <2>2, <2>4, SettlingStep
  <2> QED
    BY <2>3, <2>4
<1>23. ASSUME NEW c \in Finishers, OthersKeep(c), FinishUndo(c)
      PROVE  [Ledger!Next]_(Ledger!ledger)
  <2>2. /\ UNCHANGED <<tomb, out>> /\ run[c] \in Runs /\ pc[c] = "f.undo"
        /\ rec' = [rec EXCEPT ![run[c]] = backup[c]]
        /\ (Tentative(c)' <=> FALSE) /\ (Tentative(c) <=> TRUE)
    BY <1>23, <1>a, <1>d DEF FinishUndo, SetRecord, Goto, Tentative
  <2>3. \A r \in Runs : r # run[c] => RecordSeenSame(r)
    BY <1>23, <2>2, <1>a, RecordSeen
  <2>4. \A r \in Runs : TombSeenSame(r)
    BY <1>23, <2>2, TombSeen
  <2>5. \A r \in Runs : r = run[c] => RecordSeenSame(r)
    <3>1. /\ rec[run[c]] = Completed(recFd[c], c) /\ recFd[c] \in Version
          /\ backup[c] = recFd[c] /\ recFd[c].finish = None
      BY <2>2, <1>c DEF FinishInv, FinishHasReplaced, BackupIsDraft, IsDraft,
         TypeInv, VersionKnown, HoldsRecord, FinishWriting
    <3>2. PICK o : o = recFd[c].origin
      OBVIOUS
    <3>3. o \in Calls \ {c} /\ (Tentative(o)' <=> Tentative(o))
      BY <1>23, <3>1, <3>2 DEF Version, OthersKeep, Tentative
    <3>4. /\ rec[run[c]] # None /\ rec[run[c]].origin = o
          /\ rec[run[c]].finish = c
      BY <3>1, <3>2 DEF Completed, Version
    <3>5. /\ rec'[run[c]] # None /\ rec'[run[c]].origin = o
          /\ rec'[run[c]].finish = None
      BY <2>2, <3>1, <3>2, <1>a
    <3> QED
      BY <2>2, <3>3, <3>4, <3>5 DEF RecordSeenSame, StartedIn, FinishedIn,
         Settled
  <2> QED
    BY <2>2, <2>3, <2>4, <2>5, LedgerStutters DEF LedgerSame
<1>24. ASSUME NEW c \in Finishers, OthersKeep(c), FinishUndoFails(c)
      PROVE  [Ledger!Next]_(Ledger!ledger)
  <2>1. Tentative(c) /\ ~Tentative(c)' /\ UNCHANGED <<rec, tomb>> /\ VagueOut(c)
    BY <1>24, <1>a DEF FinishUndoFails, dirVars, Goto, Return, Faults,
       NoFault, Tentative, VagueOut
  <2> QED
    BY <1>24, <2>1, SettlingStep
<1>25. ASSUME NEW c \in Finishers, OthersKeep(c), FinishUndoSync(c)
      PROVE  [Ledger!Next]_(Ledger!ledger)
  <2>1. Unnoticed(c)
    BY <1>25, <1>a DEF FinishUndoSync, SyncRecords, Goto, Return, Faults,
       NoFault, Unnoticed, Tentative
  <2> QED
    BY <1>25, <2>1, QuietStep DEF Unnoticed
<1>26. ASSUME NEW c \in Finishers, OthersKeep(c), FinishClean(c)
      PROVE  [Ledger!Next]_(Ledger!ledger)
  <2>2. /\ UNCHANGED <<rec, tomb>> /\ ~Tentative(c) /\ ~Tentative(c)'
        /\ pc[c] = "f.clean" /\ out' = [out EXCEPT ![c] = "ok"]
    BY <1>26, <1>a DEF FinishClean, dirVars, Goto, Return, Tentative
  <2>3. run[c] \in Runs
    BY <2>2, <1>d
  <2>4. EffectIn(c, run[c])
    <3>1. rec[run[c]] # None /\ rec[run[c]].finish = c
      BY <2>2, <2>3, <1>c DEF CommitInv, FinishCommitted
    <3> QED
      BY <2>2, <3>1 DEF EffectIn, FinishedIn, Settled
  <2> QED
    BY <1>26, <2>2, <2>3, <2>4, QuietStep
<1>27. ASSUME NEW c \in Invalidators, OthersKeep(c), InvalidateTemp(c)
      PROVE  [Ledger!Next]_(Ledger!ledger)
  <2>1. Unnoticed(c)
    BY <1>27, <1>a DEF InvalidateTemp, WriteTemp, WriteTempFails, Goto,
       Return, Faults, NoFault, Unnoticed, Tentative
  <2> QED
    BY <1>27, <2>1, QuietStep DEF Unnoticed
<1>28. ASSUME NEW c \in Invalidators, OthersKeep(c), InvalidateClaim(c)
      PROVE  [Ledger!Next]_(Ledger!ledger)
  <2>2. /\ UNCHANGED <<rec, out>> /\ run[c] \in Runs /\ pc[c] = "i.link"
        /\ tomb' = [tomb EXCEPT ![run[c]] = c]
        /\ (Tentative(c)' <=> TRUE) /\ (Tentative(c) <=> FALSE)
    BY <1>28, <1>a, <1>d DEF InvalidateClaim, SetTomb, Goto, Tentative
  <2>3. \A r \in Runs : r # run[c] => TombSeenSame(r)
    BY <1>28, <2>2, <1>a, TombSeen
  <2>4. \A r \in Runs : RecordSeenSame(r)
    BY <1>28, <2>2, RecordSeen
  <2>5. \A r \in Runs : r = run[c] => TombSeenSame(r)
    BY <1>28, <2>2, <1>a DEF InvalidateClaim, TombSeenSame, InvalidatedIn, Settled
  <2> QED
    BY <2>2, <2>3, <2>4, <2>5, LedgerStutters DEF LedgerSame
<1>29. ASSUME NEW c \in Invalidators, OthersKeep(c), InvalidateClaimFails(c)
      PROVE  [Ledger!Next]_(Ledger!ledger)
  <2>1. Unnoticed(c)
    BY <1>29, <1>a DEF InvalidateClaimFails, DropTemp, dirVars, Goto, Return,
       Faults, NoFault, Unnoticed, Tentative
  <2> QED
    BY <1>29, <2>1, QuietStep DEF Unnoticed
<1>30. ASSUME NEW c \in Invalidators, OthersKeep(c), InvalidateSync(c)
      PROVE  [Ledger!Next]_(Ledger!ledger)
  <2>2. /\ UNCHANGED <<rec, tomb, out>> /\ Tentative(c) /\ VagueOut(c)
        /\ pc'[c] \in {"i.clean", "i.undo"} /\ pc[c] # "done"
    BY <1>30, <1>a DEF InvalidateSync, Goto, Tentative, VagueOut
  <2>3. CASE Tentative(c)'
    BY <1>30, <2>2, <2>3, QuietStep
  <2>4. CASE ~Tentative(c)'
    BY <1>30, <2>2, <2>4, SettlingStep
  <2> QED
    BY <2>3, <2>4
<1>31. ASSUME NEW c \in Invalidators, OthersKeep(c), InvalidateUndo(c)
      PROVE  [Ledger!Next]_(Ledger!ledger)
  <2>2. /\ UNCHANGED <<rec, out>> /\ run[c] \in Runs /\ pc[c] = "i.undo"
        /\ tomb' = [tomb EXCEPT ![run[c]] = None]
        /\ (Tentative(c)' <=> FALSE) /\ (Tentative(c) <=> TRUE)
    BY <1>31, <1>a, <1>d DEF InvalidateUndo, SetTomb, Goto, Tentative
  <2>3. \A r \in Runs : r # run[c] => TombSeenSame(r)
    BY <1>31, <2>2, <1>a, TombSeen
  <2>4. \A r \in Runs : RecordSeenSame(r)
    BY <1>31, <2>2, RecordSeen
  <2>5. \A r \in Runs : r = run[c] => TombSeenSame(r)
    <3>1. tomb[run[c]] = c
      BY <2>2, <1>b DEF TombsInSight
    <3> QED
      BY <2>2, <3>1, <1>a DEF TombSeenSame, InvalidatedIn, Settled
  <2> QED
    BY <2>2, <2>3, <2>4, <2>5, LedgerStutters DEF LedgerSame
<1>32. ASSUME NEW c \in Invalidators, OthersKeep(c), InvalidateUndoFails(c)
      PROVE  [Ledger!Next]_(Ledger!ledger)
  <2>1. Tentative(c) /\ ~Tentative(c)' /\ UNCHANGED <<rec, tomb>> /\ VagueOut(c)
    BY <1>32, <1>a DEF InvalidateUndoFails, DropTemp, dirVars, Goto, Return,
       Faults, NoFault, Tentative, VagueOut
  <2> QED
    BY <1>32, <2>1, SettlingStep
<1>33. ASSUME NEW c \in Invalidators, OthersKeep(c), InvalidateUndoSync(c)
      PROVE  [Ledger!Next]_(Ledger!ledger)
  <2>1. Unnoticed(c)
    BY <1>33, <1>a DEF InvalidateUndoSync, DropTemp, SyncTombs, Goto, Return,
       Faults, NoFault, Unnoticed, Tentative
  <2> QED
    BY <1>33, <2>1, QuietStep DEF Unnoticed
<1>34. ASSUME NEW c \in Invalidators, OthersKeep(c), InvalidateClean(c)
      PROVE  [Ledger!Next]_(Ledger!ledger)
  <2>2. /\ UNCHANGED <<rec, tomb>> /\ ~Tentative(c) /\ ~Tentative(c)'
        /\ pc[c] = "i.clean" /\ out' = [out EXCEPT ![c] = "ok"]
    BY <1>34, <1>a DEF InvalidateClean, dirVars, Goto, Return, Tentative
  <2>3. run[c] \in Runs
    BY <2>2, <1>d
  <2>4. EffectIn(c, run[c])
    <3>1. tomb[run[c]] = c
      BY <2>2, <1>b DEF TombsInSight
    <3> QED
      BY <2>2, <3>1 DEF EffectIn, InvalidatedIn, Settled
  <2> QED
    BY <1>34, <2>2, <2>3, <2>4, QuietStep
<1>35. ASSUME NEW c \in Calls, OthersKeep(c), Kill(c)
      PROVE  [Ledger!Next]_(Ledger!ledger)
  <2>2. /\ UNCHANGED <<rec, tomb>> /\ ~Tentative(c)' /\ pc[c] # "done"
        /\ out' = [out EXCEPT ![c] = "killed"]
    BY <1>35, <1>a DEF Kill, Live, dirVars, Goto, Return, Tentative
  <2>3. CASE Tentative(c)
    BY <1>35, <2>2, <2>3, SettlingStep DEF VagueOut
  <2>4. CASE ~Tentative(c)
    BY <1>35, <2>2, <2>4, QuietStep
  <2> QED
    BY <2>3, <2>4
<1>36. ASSUME NEW r \in Runs PROVE ~SwapLock(r)
  BY <1>a DEF SwapLock
<1>37. ~Outage
  BY <1>a DEF Outage
<1>38. CASE UNCHANGED vars
  BY <1>38 DEF vars, Ledger!ledger, Settled, Tentative
<1> QED
  BY <1>1, <1>2, <1>3, <1>4, <1>5, <1>6, <1>7, <1>8, <1>9, <1>10, <1>11,
     <1>12, <1>13, <1>14, <1>15, <1>16, <1>17, <1>18, <1>19, <1>20, <1>21,
     <1>22, <1>23, <1>24, <1>25, <1>26, <1>27, <1>28, <1>29, <1>30, <1>31,
     <1>32, <1>33, <1>34, <1>35, <1>36, <1>37, <1>38, <1>i DEF Next,
     CallStep, StartStep, HeadStep, FinishStep, InvalidateStep, Terminated

(* Without early callers, while nobody replaces a lock file and no power   *)
(* is lost, the store implements RunLedger, however many calls fail, are   *)
(* killed or take their changes back: a run is started, finished and       *)
(* invalidated once, in this order, each by one call; what a call reports  *)
(* is what it did.                                                         *)
THEOREM StoreImplementsLedger ==
  ASSUME ~EarlyCallers, MaxSwaps = 0, MaxOutages = 0
  PROVE  Spec => ImplementsRunLedger
<1>1. Init => Ledger!Init
  BY DEF Init, Ledger!Init, Ledger!Calls, Settled
<1>2. LedgerInv /\ [Next]_vars => [Ledger!Next]_(Ledger!ledger)
  BY LedgerStep
<1> QED
  BY LedgerInvariant, <1>1, <1>2, PTL
  DEF Spec, ImplementsRunLedger, Ledger!Spec

-----------------------------------------------------------------------------
(* Readers.                                                                *)

(* A temporary is there for as long as its call may still take back what   *)
(* it linked.                                                              *)
TempStages == {"s.link", "s.sync", "s.undo", "s.undosync", "s.clean",
               "i.link", "i.sync", "i.undo", "i.undosync", "i.clean"}
TempsThere == \A c \in Calls : pc[c] \in TempStages => c \in temps

(* Without its directory there is no tombstone.                            *)
TombsHaveDir ==
  invDir = "absent" =>
    /\ \A r \in Runs : tombDisk[r] \subseteq {None}
    /\ \A c \in Invalidators : pc[c] \notin TempStages

CutInv == StandsInv /\ OwnInv /\ TempsThere /\ TombsHaveDir

-----------------------------------------------------------------------------
(* What is settled stays so for as long as there is power.                 *)

(* The run's record is v, or the final record made of it.                  *)
Persists(v, r) ==
  /\ rec[r] # None /\ rec[r].origin = v.origin /\ ~Tentative(v.origin)
  /\ v.finish # None => rec[r] = v /\ ~Tentative(v.finish)

(* A finish that had its version in place once does not do so again.       *)
Replaced == {"f.sync", "f.undo", "f.undosync", "f.clean", "done"}
Withdrawn == {"f.undosync", "done"}
Holds(f, r) == rec[r] # None /\ rec[r].finish = f
WasSeen(f, r) == pc[f] \in Replaced /\ (Holds(f, r) \/ pc[f] \in Withdrawn)
IsGone(f, r) == pc[f] \in Withdrawn /\ ~Holds(f, r)

TombPersists(c, r) == tomb[r] = c /\ ~Tentative(c)

(* No step takes any of this back.                                         *)
Keeping(r) ==
  /\ \A v \in Version : Persists(v, r) => Persists(v, r)'
  /\ \A f \in Finishers : /\ WasSeen(f, r) => WasSeen(f, r)'
                          /\ IsGone(f, r) => IsGone(f, r)'
  /\ \A c \in Invalidators : TombPersists(c, r) => TombPersists(c, r)'

-----------------------------------------------------------------------------
(* What a reader knows in the middle of its readings.                      *)
Peeks == [run : Runs, inode : Version \cup Invalidators]
ReaderTypes ==
  /\ at \in [Readers -> ReaderStages]
  /\ todo \in [Readers -> SUBSET Runs]
  /\ peek \in [Readers -> Peeks \cup {None}]
  /\ sawDir \in [Readers -> BOOLEAN]
  /\ got \in [Readers -> Image]
  /\ first \in [Readers -> Manifests \cup {None}]
  /\ shot \in [Readers -> Manifests \cup {None}]
  /\ mid \in [Readers -> Manifests \cup {None}]
Reading(x) == at[x] \notin {"idle", "list", "done"}
ReadingRecords(x) == at[x] \in {"records", "record"}
ReadingTombs(x) == at[x] \in {"tombs", "tomb"}
(* The run is listed and not read yet.                                     *)
ToRead(x, r) ==
  r \in todo[x] \/ (at[x] \in {"record", "tomb"} /\ r = peek[x].run)

Second(x) == Reading(x) /\ first[x] # None
Known(x) ==
  /\ at[x] \in {"record", "tomb"} => peek[x] \in Peeks
  /\ Second(x) => mid[x] \in Manifests
  /\ at[x] = "idle" => first[x] = None

(* Either reading: a final record was seen in place, a tombstone is        *)
(* settled, and so is one still to be read.                                *)
SeenRecord(v, r) == v # None => (v.finish # None => WasSeen(v.finish, r))
SeenTomb(c, r) == c # None => TombPersists(c, r)
GotOf(x) ==
  Reading(x) =>
    \A r \in Runs :
      /\ SeenRecord(got[x].rec[r], r) /\ SeenTomb(got[x].tomb[r], r)
      /\ ReadingTombs(x) /\ ToRead(x, r) =>
           tomb[r] # None /\ ~Tentative(tomb[r])
FirstOf(x) ==
  first[x] # None /\ at[x] \notin {"idle", "done"} =>
    \A r \in Selected :
      SeenRecord(first[x].rec[r], r) /\ SeenTomb(first[x].tomb[r], r)

(* The second reading, compared with the store when it began: nothing that *)
(* was not there is read ...                                               *)
NotThereOf(x) ==
  Second(x) =>
    \A r \in Selected : mid[x].rec[r] = None =>
      /\ got[x].rec[r] = None
      /\ ReadingRecords(x) => ~ToRead(x, r)
(* ... what was there is, or something made of it; ...                     *)
MadeOf(v, w) ==
  v # None /\ v.origin = w.origin /\ (w.finish # None => v = w)
ThereOf(x) ==
  Second(x) =>
    \A r \in Selected : mid[x].rec[r] # None =>
      /\ Persists(mid[x].rec[r], r)
      /\ (ReadingRecords(x) /\ ToRead(x, r))
           \/ MadeOf(got[x].rec[r], mid[x].rec[r])
(* ... what the first reading saw and was taken back is not seen again; ... *)
Other(v, f) == v = None \/ v.finish # f
GoneOf(x) ==
  Second(x) =>
    \A r \in Selected : \A f \in Finishers :
      /\ first[x].rec[r] # None /\ first[x].rec[r].finish = f
      /\ Other(mid[x].rec[r], f)
      => IsGone(f, r) /\ Other(got[x].rec[r], f)
(* ... and the tombstones that were settled are read.                      *)
TombsOf(x) ==
  Second(x) =>
    \A r \in Selected :
      /\ first[x].tomb[r] # None => mid[x].tomb[r] = first[x].tomb[r]
      /\ mid[x].tomb[r] # None =>
           /\ TombPersists(mid[x].tomb[r], r) /\ sawDir[x]
           /\ \/ ReadingRecords(x)
              \/ ReadingTombs(x) /\ ToRead(x, r)
              \/ got[x].tomb[r] # None
ShotOf(x) == shot[x] # None => at[x] = "done" /\ shot[x] = mid[x]

SnapOf(x) ==
  /\ Known(x) /\ GotOf(x) /\ FirstOf(x) /\ NotThereOf(x) /\ ThereOf(x)
  /\ GoneOf(x) /\ TombsOf(x) /\ ShotOf(x)
SnapInv == ReaderTypes /\ \A x \in Readers : SnapOf(x)
SnapshotInv == CutInv /\ SnapInv

-----------------------------------------------------------------------------
(* When no system call fails, what is settled stays even when the power    *)
(* goes: who removed its temporary, or its backup, has synchronised the    *)
(* directory before.                                                       *)
Sure(v, r) == \A d \in disk[r] : MadeOf(d, v)
StartsAreSure ==
  \A r \in Runs : rec[r] # None =>
    rec[r].origin \in temps
      \/ \A d \in disk[r] : d # None /\ d.origin = rec[r].origin
FinishesAreSure ==
  \A r \in Runs : rec[r] # None =>
    (rec[r].finish # None =>
       backup[rec[r].finish] # None \/ disk[r] = {rec[r]})
MidIsSure(x) ==
  Second(x) =>
    \A r \in Selected : mid[x].rec[r] # None => Sure(mid[x].rec[r], r)
ShotIsSure(x) ==
  shot[x] # None =>
    \A r \in Selected : shot[x].rec[r] # None => Sure(shot[x].rec[r], r)
SureInv ==
  /\ StartsAreSure /\ FinishesAreSure
  /\ \A x \in Readers : MidIsSure(x) /\ ShotIsSure(x)

(* What a published snapshot shows stands.                                 *)
ShotStands(x) ==
  shot[x] # None =>
    \A r \in Selected :
      /\ shot[x].rec[r] # None => Persists(shot[x].rec[r], r)
      /\ shot[x].tomb[r] # None =>
           TombPersists(shot[x].tomb[r], r) \/ budget.outages > 0
StandInv ==
  /\ \A x \in Readers : ShotStands(x)
  /\ MaxFaults = 0 => SureInv

-----------------------------------------------------------------------------
(* What a step of one call does to its run, for the readers.               *)

(* A record stays, is claimed, taken back, completed or restored.          *)
RecordRule(c, r) ==
  \/ rec'[r] = rec[r]
  \/ rec[r] = None /\ c \in Starters /\ c \in temps' /\ rec'[r] = Draft(c)
  \/ rec[r] = Draft(c) /\ pc[c] = "s.undo" /\ rec'[r] = None
  \/ /\ rec[r] # None /\ rec'[r] # None /\ rec'[r].origin = rec[r].origin
     /\ \/ /\ pc[c] = "f.replace" /\ backup'[c] # None
           /\ rec[r].finish = None /\ rec'[r].finish = c
        \/ /\ pc[c] = "f.undo" /\ pc'[c] = "f.undosync"
           /\ rec[r].finish = c /\ rec'[r].finish = None
(* A tombstone stays, or there was none, or its call takes it back.        *)
TombRule(c, r) ==
  \/ tomb'[r] = tomb[r] \/ tomb[r] = None
  \/ tomb[r] = c /\ pc[c] = "i.undo"
DiskRule(r) == disk'[r] \subseteq disk[r] \cup {rec'[r]}
RunRules(c) ==
  \A r \in Runs : RecordRule(c, r) /\ TombRule(c, r) /\ DiskRule(r)

StageRule(c) ==
  /\ pc[c] \in Replaced => pc'[c] \in Replaced
  /\ pc[c] \in Withdrawn => pc'[c] \in Withdrawn
  /\ SettlesForGood(c)
TempRule(c) == pc'[c] \in TempStages => c \in temps'
DirRule(c) ==
  invDir' = "absent" =>
    /\ invDir = "absent" /\ \A r \in Runs : tombDisk'[r] \subseteq {None}
    /\ c \in Invalidators => pc'[c] \notin TempStages
(* Where no system call fails, a start in sight drops its temporary, and a *)
(* finish its backup, once it is committed, or when the record goes back.  *)
DropRule(c) ==
  /\ c \in temps \ temps' => ~Shown(c) \/ pc[c] = "s.clean"
                               \/ c \notin Starters
  /\ backup[c] # None /\ backup'[c] = None =>
       ~Shown(c) \/ pc[c] = "f.clean" \/ pc'[c] = "f.undosync"

StoreRule(c) ==
  /\ RunRules(c) /\ StageRule(c) /\ TempRule(c) /\ DirRule(c)
  /\ MaxFaults = 0 => DropRule(c)
  /\ budget'.outages = budget.outages

(* Every operation, and a kill, keeps to these rules.                      *)
LEMMA CallRules ==
  ASSUME CutInv, NEW c \in Calls, CallStep(c) \/ Kill(c) PROVE StoreRule(c)
<1> USE CallsDisjoint, NoneIsNoVersion, BoundsAreNat
<1>a. /\ rec \in [Runs -> Version \cup {None}]
      /\ disk \in [Runs -> SUBSET (Version \cup {None})]
      /\ tomb \in [Runs -> Invalidators \cup {None}]
      /\ tombDisk \in [Runs -> SUBSET (Invalidators \cup {None})]
      /\ temps \in SUBSET Calls
      /\ backup \in [Calls -> Version \cup {None}]
      /\ pc \in [Calls -> Stages] /\ run \in [Calls -> Runs \cup {None}]
      /\ budget \in [faults : Nat, swaps : Nat, kills : Nat, outages : Nat]
  BY DEF CutInv, StandsInv, TypeInv, TypeOK
<1>b. /\ pc[c] \in TempStages => c \in temps
      /\ \A r \in Runs : rec[r] \in disk[r] /\ tomb[r] \in tombDisk[r]
  BY DEF CutInv, TempsThere, OwnInv, TombsInSight, StandsInv, CommitInv,
     DiskHasRecord
<1>c. invDir = "absent" =>
        /\ \A r \in Runs : tombDisk[r] \subseteq {None} /\ tomb[r] = None
        /\ c \in Invalidators => pc[c] \notin TempStages
  BY <1>b DEF CutInv, TombsHaveDir
<1>1. ASSUME c \in Starters, BeginStart(c)
      PROVE  StoreRule(c)
  <2>1. StageRule(c) /\ TempRule(c)
    BY <1>1, <1>a, <1>b DEF BeginStart, dirVars, Goto, Return, Faults,
       NoFault, StageRule, Replaced, Withdrawn, SettlesForGood, Tentative,
       Standing, Shown, TempRule, TempStages
  <2>2. MaxFaults = 0 => DropRule(c)
    BY <1>1, <1>a DEF BeginStart, dirVars, Goto, Return, Faults, NoFault,
       DropRule, Shown
  <2>3. RunRules(c)
    BY <1>1, <1>a, <1>b DEF BeginStart, dirVars, Goto, Return, Faults,
       NoFault, RunRules, RecordRule, TombRule, DiskRule
  <2>4. DirRule(c)
    BY <1>1, <1>a, <1>c DEF BeginStart, dirVars, Goto, Return, Faults,
       NoFault, DirRule, TempStages
  <2>5. budget'.outages = budget.outages
    BY <1>1, <1>a DEF BeginStart, dirVars, Goto, Return, Faults, NoFault,
       DropTemp, WriteTemp, WriteTempFails
  <2> QED
    BY <2>1, <2>2, <2>3, <2>4, <2>5 DEF StoreRule
<1>2. ASSUME c \in Starters, StartTemp(c)
      PROVE  StoreRule(c)
  <2>1. StageRule(c) /\ TempRule(c)
    BY <1>2, <1>a, <1>b DEF StartTemp, WriteTemp, WriteTempFails, dirVars,
       Goto, Return, Faults, NoFault, StageRule, Replaced, Withdrawn,
       SettlesForGood, Tentative, Standing, Shown, TempRule, TempStages
  <2>2. MaxFaults = 0 => DropRule(c)
    BY <1>2, <1>a DEF StartTemp, WriteTemp, WriteTempFails, dirVars, Goto,
       Return, Faults, NoFault, DropRule, Shown
  <2>3. RunRules(c)
    BY <1>2, <1>a, <1>b DEF StartTemp, WriteTemp, WriteTempFails, dirVars,
       Goto, Return, Faults, NoFault, RunRules, RecordRule, TombRule, DiskRule
  <2>4. DirRule(c)
    BY <1>2, <1>a, <1>c DEF StartTemp, WriteTemp, WriteTempFails, dirVars,
       Goto, Return, Faults, NoFault, DirRule, TempStages
  <2>5. budget'.outages = budget.outages
    BY <1>2, <1>a DEF StartTemp, WriteTemp, WriteTempFails, dirVars, Goto,
       Return, Faults, NoFault, DropTemp, WriteTemp, WriteTempFails
  <2> QED
    BY <2>1, <2>2, <2>3, <2>4, <2>5 DEF StoreRule
<1>3. ASSUME c \in Starters, StartClaim(c)
      PROVE  StoreRule(c)
  <2>1. StageRule(c) /\ TempRule(c)
    BY <1>3, <1>a, <1>b DEF StartClaim, SetRecord, Draft, Goto, Return,
       Faults, NoFault, StageRule, Replaced, Withdrawn, SettlesForGood,
       Tentative, Standing, Shown, TempRule, TempStages
  <2>2. MaxFaults = 0 => DropRule(c)
    BY <1>3, <1>a DEF StartClaim, SetRecord, Draft, Goto, Return, Faults,
       NoFault, DropRule, Shown
  <2>3. RunRules(c)
    <3>1. c \in temps'
      BY <1>3, <1>b DEF StartClaim, TempStages
    <3> QED
      BY <1>3, <3>1, <1>a, <1>b DEF StartClaim, SetRecord, RunRules,
         RecordRule, TombRule, DiskRule
  <2>4. DirRule(c)
    BY <1>3, <1>a, <1>c DEF StartClaim, SetRecord, Draft, Goto, Return,
       Faults, NoFault, DirRule, TempStages
  <2>5. budget'.outages = budget.outages
    BY <1>3, <1>a DEF StartClaim, SetRecord, Draft, Goto, Return, Faults,
       NoFault, DropTemp, WriteTemp, WriteTempFails
  <2> QED
    BY <2>1, <2>2, <2>3, <2>4, <2>5 DEF StoreRule
<1>4. ASSUME c \in Starters, StartCollision(c)
      PROVE  StoreRule(c)
  <2>1. StageRule(c) /\ TempRule(c)
    BY <1>4, <1>a, <1>b DEF StartCollision, dirVars, Goto, Return, Faults,
       NoFault, StageRule, Replaced, Withdrawn, SettlesForGood, Tentative,
       Standing, Shown, TempRule, TempStages
  <2>2. MaxFaults = 0 => DropRule(c)
    BY <1>4, <1>a DEF StartCollision, dirVars, Goto, Return, Faults, NoFault,
       DropRule, Shown
  <2>3. RunRules(c)
    BY <1>4, <1>a, <1>b DEF StartCollision, dirVars, Goto, Return, Faults,
       NoFault, RunRules, RecordRule, TombRule, DiskRule
  <2>4. DirRule(c)
    BY <1>4, <1>a, <1>c DEF StartCollision, dirVars, Goto, Return, Faults,
       NoFault, DirRule, TempStages
  <2>5. budget'.outages = budget.outages
    BY <1>4, <1>a DEF StartCollision, dirVars, Goto, Return, Faults, NoFault,
       DropTemp, WriteTemp, WriteTempFails
  <2> QED
    BY <2>1, <2>2, <2>3, <2>4, <2>5 DEF StoreRule
<1>5. ASSUME c \in Starters, StartClaimFails(c)
      PROVE  StoreRule(c)
  <2>1. StageRule(c) /\ TempRule(c)
    BY <1>5, <1>a, <1>b DEF StartClaimFails, DropTemp, dirVars, Goto, Return,
       Faults, NoFault, StageRule, Replaced, Withdrawn, SettlesForGood,
       Tentative, Standing, Shown, TempRule, TempStages
  <2>2. MaxFaults = 0 => DropRule(c)
    BY <1>5, <1>a DEF StartClaimFails, DropTemp, dirVars, Goto, Return,
       Faults, NoFault, DropRule, Shown
  <2>3. RunRules(c)
    BY <1>5, <1>a, <1>b DEF StartClaimFails, DropTemp, dirVars, Goto, Return,
       Faults, NoFault, RunRules, RecordRule, TombRule, DiskRule
  <2>4. DirRule(c)
    BY <1>5, <1>a, <1>c DEF StartClaimFails, DropTemp, dirVars, Goto, Return,
       Faults, NoFault, DirRule, TempStages
  <2>5. budget'.outages = budget.outages
    BY <1>5, <1>a DEF StartClaimFails, DropTemp, dirVars, Goto, Return,
       Faults, NoFault, DropTemp, WriteTemp, WriteTempFails
  <2> QED
    BY <2>1, <2>2, <2>3, <2>4, <2>5 DEF StoreRule
<1>6. ASSUME c \in Starters, StartSync(c)
      PROVE  StoreRule(c)
  <2>1. StageRule(c) /\ TempRule(c)
    BY <1>6, <1>a, <1>b DEF StartSync, SyncRecords, Goto, Return, Faults,
       NoFault, StageRule, Replaced, Withdrawn, SettlesForGood, Tentative,
       Standing, Shown, TempRule, TempStages
  <2>2. MaxFaults = 0 => DropRule(c)
    BY <1>6, <1>a DEF StartSync, SyncRecords, Goto, Return, Faults, NoFault,
       DropRule, Shown
  <2>3. RunRules(c)
    BY <1>6, <1>a, <1>b DEF StartSync, SyncRecords, Goto, Return, Faults,
       NoFault, RunRules, RecordRule, TombRule, DiskRule
  <2>4. DirRule(c)
    BY <1>6, <1>a, <1>c DEF StartSync, SyncRecords, Goto, Return, Faults,
       NoFault, DirRule, TempStages
  <2>5. budget'.outages = budget.outages
    BY <1>6, <1>a DEF StartSync, SyncRecords, Goto, Return, Faults, NoFault,
       DropTemp, WriteTemp, WriteTempFails
  <2> QED
    BY <2>1, <2>2, <2>3, <2>4, <2>5 DEF StoreRule
<1>7. ASSUME c \in Starters, StartUndo(c)
      PROVE  StoreRule(c)
  <2>1. StageRule(c) /\ TempRule(c)
    BY <1>7, <1>a, <1>b DEF StartUndo, SetRecord, Goto, Return, Faults,
       NoFault, StageRule, Replaced, Withdrawn, SettlesForGood, Tentative,
       Standing, Shown, TempRule, TempStages
  <2>2. MaxFaults = 0 => DropRule(c)
    BY <1>7, <1>a DEF StartUndo, SetRecord, Goto, Return, Faults, NoFault,
       DropRule, Shown
  <2>3. RunRules(c)
    <3>1. rec[run[c]] = Draft(c)
      BY <1>7 DEF StartUndo, CutInv, StandsInv, ClaimInv, StartOwnsClaim,
         Unsettled
    <3> QED
      BY <1>7, <3>1, <1>a DEF StartUndo, SetRecord, RunRules, RecordRule,
         TombRule, DiskRule
  <2>4. DirRule(c)
    BY <1>7, <1>a, <1>c DEF StartUndo, SetRecord, Goto, Return, Faults,
       NoFault, DirRule, TempStages
  <2>5. budget'.outages = budget.outages
    BY <1>7, <1>a DEF StartUndo, SetRecord, Goto, Return, Faults, NoFault,
       DropTemp, WriteTemp, WriteTempFails
  <2> QED
    BY <2>1, <2>2, <2>3, <2>4, <2>5 DEF StoreRule
<1>8. ASSUME c \in Starters, StartUndoFails(c)
      PROVE  StoreRule(c)
  <2>1. StageRule(c) /\ TempRule(c)
    BY <1>8, <1>a, <1>b DEF StartUndoFails, DropTemp, dirVars, Goto, Return,
       Faults, NoFault, StageRule, Replaced, Withdrawn, SettlesForGood,
       Tentative, Standing, Shown, TempRule, TempStages
  <2>2. MaxFaults = 0 => DropRule(c)
    <3>1. rec[run[c]] = Draft(c)
      BY <1>8 DEF StartUndoFails, CutInv, StandsInv, ClaimInv, StartOwnsClaim,
         Unsettled
    <3>2. DropTemp(c, 1) \/ rec[run[c]] = None
      BY <1>8 DEF StartUndoFails
    <3>3. Draft(c) # None
      BY <1>8 DEF Draft, Version
    <3> QED
      BY <3>1, <3>2, <3>3, <1>a DEF DropTemp, Faults
  <2>3. RunRules(c)
    BY <1>8, <1>a, <1>b DEF StartUndoFails, DropTemp, dirVars, Goto, Return,
       Faults, NoFault, RunRules, RecordRule, TombRule, DiskRule
  <2>4. DirRule(c)
    BY <1>8, <1>a, <1>c DEF StartUndoFails, DropTemp, dirVars, Goto, Return,
       Faults, NoFault, DirRule, TempStages
  <2>5. budget'.outages = budget.outages
    BY <1>8, <1>a DEF StartUndoFails, DropTemp, dirVars, Goto, Return,
       Faults, NoFault, DropTemp, WriteTemp, WriteTempFails
  <2> QED
    BY <2>1, <2>2, <2>3, <2>4, <2>5 DEF StoreRule
<1>9. ASSUME c \in Starters, StartUndoSync(c)
      PROVE  StoreRule(c)
  <2>1. StageRule(c) /\ TempRule(c)
    BY <1>9, <1>a, <1>b DEF StartUndoSync, DropTemp, SyncRecords, Goto,
       Return, Faults, NoFault, StageRule, Replaced, Withdrawn,
       SettlesForGood, Tentative, Standing, Shown, TempRule, TempStages
  <2>2. MaxFaults = 0 => DropRule(c)
    BY <1>9, <1>a DEF StartUndoSync, DropTemp, SyncRecords, Goto, Return,
       Faults, NoFault, DropRule, Shown
  <2>3. RunRules(c)
    BY <1>9, <1>a, <1>b DEF StartUndoSync, DropTemp, SyncRecords, Goto,
       Return, Faults, NoFault, RunRules, RecordRule, TombRule, DiskRule
  <2>4. DirRule(c)
    BY <1>9, <1>a, <1>c DEF StartUndoSync, DropTemp, SyncRecords, Goto,
       Return, Faults, NoFault, DirRule, TempStages
  <2>5. budget'.outages = budget.outages
    BY <1>9, <1>a DEF StartUndoSync, DropTemp, SyncRecords, Goto, Return,
       Faults, NoFault, DropTemp, WriteTemp, WriteTempFails
  <2> QED
    BY <2>1, <2>2, <2>3, <2>4, <2>5 DEF StoreRule
<1>10. ASSUME c \in Starters, StartClean(c)
      PROVE  StoreRule(c)
  <2>1. StageRule(c) /\ TempRule(c)
    BY <1>10, <1>a, <1>b DEF StartClean, DropTemp, dirVars, Goto, Return,
       Faults, NoFault, StageRule, Replaced, Withdrawn, SettlesForGood,
       Tentative, Standing, Shown, TempRule, TempStages
  <2>2. MaxFaults = 0 => DropRule(c)
    BY <1>10, <1>a DEF StartClean, DropTemp, dirVars, Goto, Return, Faults,
       NoFault, DropRule, Shown
  <2>3. RunRules(c)
    BY <1>10, <1>a, <1>b DEF StartClean, DropTemp, dirVars, Goto, Return,
       Faults, NoFault, RunRules, RecordRule, TombRule, DiskRule
  <2>4. DirRule(c)
    BY <1>10, <1>a, <1>c DEF StartClean, DropTemp, dirVars, Goto, Return,
       Faults, NoFault, DirRule, TempStages
  <2>5. budget'.outages = budget.outages
    BY <1>10, <1>a DEF StartClean, DropTemp, dirVars, Goto, Return, Faults,
       NoFault, DropTemp, WriteTemp, WriteTempFails
  <2> QED
    BY <2>1, <2>2, <2>3, <2>4, <2>5 DEF StoreRule
<1>11. ASSUME c \in Transitions, BeginTransition(c)
      PROVE  StoreRule(c)
  <2>1. StageRule(c) /\ TempRule(c)
    BY <1>11, <1>a, <1>b DEF BeginTransition, dirVars, Goto, Return, Faults,
       NoFault, StageRule, Replaced, Withdrawn, SettlesForGood, Tentative,
       Standing, Shown, TempRule, TempStages
  <2>2. MaxFaults = 0 => DropRule(c)
    BY <1>11, <1>a DEF BeginTransition, dirVars, Goto, Return, Faults,
       NoFault, DropRule, Shown
  <2>3. RunRules(c)
    BY <1>11, <1>a, <1>b DEF BeginTransition, dirVars, Goto, Return, Faults,
       NoFault, RunRules, RecordRule, TombRule, DiskRule
  <2>4. DirRule(c)
    BY <1>11, <1>a, <1>c DEF BeginTransition, dirVars, Goto, Return, Faults,
       NoFault, DirRule, TempStages
  <2>5. budget'.outages = budget.outages
    BY <1>11, <1>a DEF BeginTransition, dirVars, Goto, Return, Faults,
       NoFault, DropTemp, WriteTemp, WriteTempFails
  <2> QED
    BY <2>1, <2>2, <2>3, <2>4, <2>5 DEF StoreRule
<1>12. ASSUME c \in Transitions, OpenLock(c)
      PROVE  StoreRule(c)
  <2>1. StageRule(c) /\ TempRule(c)
    BY <1>12, <1>a, <1>b DEF OpenLock, dirVars, Goto, Return, Faults,
       NoFault, StageRule, Replaced, Withdrawn, SettlesForGood, Tentative,
       Standing, Shown, TempRule, TempStages
  <2>2. MaxFaults = 0 => DropRule(c)
    BY <1>12, <1>a DEF OpenLock, dirVars, Goto, Return, Faults, NoFault,
       DropRule, Shown
  <2>3. RunRules(c)
    BY <1>12, <1>a, <1>b DEF OpenLock, dirVars, Goto, Return, Faults,
       NoFault, RunRules, RecordRule, TombRule, DiskRule
  <2>4. DirRule(c)
    BY <1>12, <1>a, <1>c DEF OpenLock, dirVars, Goto, Return, Faults,
       NoFault, DirRule, TempStages
  <2>5. budget'.outages = budget.outages
    BY <1>12, <1>a DEF OpenLock, dirVars, Goto, Return, Faults, NoFault,
       DropTemp, WriteTemp, WriteTempFails
  <2> QED
    BY <2>1, <2>2, <2>3, <2>4, <2>5 DEF StoreRule
<1>13. ASSUME c \in Transitions, AcquireLock(c)
      PROVE  StoreRule(c)
  <2>1. StageRule(c) /\ TempRule(c)
    BY <1>13, <1>a, <1>b DEF AcquireLock, dirVars, Goto, Return, Faults,
       NoFault, StageRule, Replaced, Withdrawn, SettlesForGood, Tentative,
       Standing, Shown, TempRule, TempStages
  <2>2. MaxFaults = 0 => DropRule(c)
    BY <1>13, <1>a DEF AcquireLock, dirVars, Goto, Return, Faults, NoFault,
       DropRule, Shown
  <2>3. RunRules(c)
    BY <1>13, <1>a, <1>b DEF AcquireLock, dirVars, Goto, Return, Faults,
       NoFault, RunRules, RecordRule, TombRule, DiskRule
  <2>4. DirRule(c)
    BY <1>13, <1>a, <1>c DEF AcquireLock, dirVars, Goto, Return, Faults,
       NoFault, DirRule, TempStages
  <2>5. budget'.outages = budget.outages
    BY <1>13, <1>a DEF AcquireLock, dirVars, Goto, Return, Faults, NoFault,
       DropTemp, WriteTemp, WriteTempFails
  <2> QED
    BY <2>1, <2>2, <2>3, <2>4, <2>5 DEF StoreRule
<1>14. ASSUME c \in Transitions, OpenRecord(c)
      PROVE  StoreRule(c)
  <2>1. StageRule(c) /\ TempRule(c)
    BY <1>14, <1>a, <1>b DEF OpenRecord, dirVars, Goto, Return, Faults,
       NoFault, StageRule, Replaced, Withdrawn, SettlesForGood, Tentative,
       Standing, Shown, TempRule, TempStages
  <2>2. MaxFaults = 0 => DropRule(c)
    BY <1>14, <1>a DEF OpenRecord, dirVars, Goto, Return, Faults, NoFault,
       DropRule, Shown
  <2>3. RunRules(c)
    BY <1>14, <1>a, <1>b DEF OpenRecord, dirVars, Goto, Return, Faults,
       NoFault, RunRules, RecordRule, TombRule, DiskRule
  <2>4. DirRule(c)
    BY <1>14, <1>a, <1>c DEF OpenRecord, dirVars, Goto, Return, Faults,
       NoFault, DirRule, TempStages
  <2>5. budget'.outages = budget.outages
    BY <1>14, <1>a DEF OpenRecord, dirVars, Goto, Return, Faults, NoFault,
       DropTemp, WriteTemp, WriteTempFails
  <2> QED
    BY <2>1, <2>2, <2>3, <2>4, <2>5 DEF StoreRule
<1>15. ASSUME c \in Transitions, ReadRecord(c)
      PROVE  StoreRule(c)
  <2>1. StageRule(c) /\ TempRule(c)
    BY <1>15, <1>a, <1>b DEF ReadRecord, dirVars, Goto, Return, Faults,
       NoFault, StageRule, Replaced, Withdrawn, SettlesForGood, Tentative,
       Standing, Shown, TempRule, TempStages
  <2>2. MaxFaults = 0 => DropRule(c)
    BY <1>15, <1>a DEF ReadRecord, dirVars, Goto, Return, Faults, NoFault,
       DropRule, Shown
  <2>3. RunRules(c)
    BY <1>15, <1>a, <1>b DEF ReadRecord, dirVars, Goto, Return, Faults,
       NoFault, RunRules, RecordRule, TombRule, DiskRule
  <2>4. DirRule(c)
    BY <1>15, <1>a, <1>c DEF ReadRecord, dirVars, Goto, Return, Faults,
       NoFault, DirRule, TempStages
  <2>5. budget'.outages = budget.outages
    BY <1>15, <1>a DEF ReadRecord, dirVars, Goto, Return, Faults, NoFault,
       DropTemp, WriteTemp, WriteTempFails
  <2> QED
    BY <2>1, <2>2, <2>3, <2>4, <2>5 DEF StoreRule
<1>16. ASSUME c \in Transitions, RereadRecord(c)
      PROVE  StoreRule(c)
  <2>1. StageRule(c) /\ TempRule(c)
    BY <1>16, <1>a, <1>b DEF RereadRecord, dirVars, Goto, Return, Faults,
       NoFault, StageRule, Replaced, Withdrawn, SettlesForGood, Tentative,
       Standing, Shown, TempRule, TempStages
  <2>2. MaxFaults = 0 => DropRule(c)
    BY <1>16, <1>a DEF RereadRecord, dirVars, Goto, Return, Faults, NoFault,
       DropRule, Shown
  <2>3. RunRules(c)
    BY <1>16, <1>a, <1>b DEF RereadRecord, dirVars, Goto, Return, Faults,
       NoFault, RunRules, RecordRule, TombRule, DiskRule
  <2>4. DirRule(c)
    BY <1>16, <1>a, <1>c DEF RereadRecord, dirVars, Goto, Return, Faults,
       NoFault, DirRule, TempStages
  <2>5. budget'.outages = budget.outages
    BY <1>16, <1>a DEF RereadRecord, dirVars, Goto, Return, Faults, NoFault,
       DropTemp, WriteTemp, WriteTempFails
  <2> QED
    BY <2>1, <2>2, <2>3, <2>4, <2>5 DEF StoreRule
<1>17. ASSUME c \in Transitions, HeadFails(c)
      PROVE  StoreRule(c)
  <2>1. StageRule(c) /\ TempRule(c)
    BY <1>17, <1>a, <1>b DEF HeadFails, dirVars, Goto, Return, Faults,
       NoFault, StageRule, Replaced, Withdrawn, SettlesForGood, Tentative,
       Standing, Shown, TempRule, TempStages
  <2>2. MaxFaults = 0 => DropRule(c)
    BY <1>17, <1>a DEF HeadFails, dirVars, Goto, Return, Faults, NoFault,
       DropRule, Shown
  <2>3. RunRules(c)
    BY <1>17, <1>a, <1>b DEF HeadFails, dirVars, Goto, Return, Faults,
       NoFault, RunRules, RecordRule, TombRule, DiskRule
  <2>4. DirRule(c)
    BY <1>17, <1>a, <1>c DEF HeadFails, dirVars, Goto, Return, Faults,
       NoFault, DirRule, TempStages
  <2>5. budget'.outages = budget.outages
    BY <1>17, <1>a DEF HeadFails, dirVars, Goto, Return, Faults, NoFault,
       DropTemp, WriteTemp, WriteTempFails
  <2> QED
    BY <2>1, <2>2, <2>3, <2>4, <2>5 DEF StoreRule
<1>18. ASSUME c \in Finishers, FinishTemp(c)
      PROVE  StoreRule(c)
  <2>1. StageRule(c) /\ TempRule(c)
    BY <1>18, <1>a, <1>b DEF FinishTemp, WriteTemp, WriteTempFails, dirVars,
       Goto, Return, Faults, NoFault, StageRule, Replaced, Withdrawn,
       SettlesForGood, Tentative, Standing, Shown, TempRule, TempStages
  <2>2. MaxFaults = 0 => DropRule(c)
    BY <1>18, <1>a DEF FinishTemp, WriteTemp, WriteTempFails, dirVars, Goto,
       Return, Faults, NoFault, DropRule, Shown
  <2>3. RunRules(c)
    BY <1>18, <1>a, <1>b DEF FinishTemp, WriteTemp, WriteTempFails, dirVars,
       Goto, Return, Faults, NoFault, RunRules, RecordRule, TombRule, DiskRule
  <2>4. DirRule(c)
    BY <1>18, <1>a, <1>c DEF FinishTemp, WriteTemp, WriteTempFails, dirVars,
       Goto, Return, Faults, NoFault, DirRule, TempStages
  <2>5. budget'.outages = budget.outages
    BY <1>18, <1>a DEF FinishTemp, WriteTemp, WriteTempFails, dirVars, Goto,
       Return, Faults, NoFault, DropTemp, WriteTemp, WriteTempFails
  <2> QED
    BY <2>1, <2>2, <2>3, <2>4, <2>5 DEF StoreRule
<1>19. ASSUME c \in Finishers, FinishBackup(c)
      PROVE  StoreRule(c)
  <2>1. StageRule(c) /\ TempRule(c)
    BY <1>19, <1>a, <1>b DEF FinishBackup, DropTemp, dirVars, Goto, Return,
       Faults, NoFault, StageRule, Replaced, Withdrawn, SettlesForGood,
       Tentative, Standing, Shown, TempRule, TempStages
  <2>2. MaxFaults = 0 => DropRule(c)
    BY <1>19, <1>a DEF FinishBackup, DropTemp, dirVars, Goto, Return, Faults,
       NoFault, DropRule, Shown
  <2>3. RunRules(c)
    BY <1>19, <1>a, <1>b DEF FinishBackup, DropTemp, dirVars, Goto, Return,
       Faults, NoFault, RunRules, RecordRule, TombRule, DiskRule
  <2>4. DirRule(c)
    BY <1>19, <1>a, <1>c DEF FinishBackup, DropTemp, dirVars, Goto, Return,
       Faults, NoFault, DirRule, TempStages
  <2>5. budget'.outages = budget.outages
    BY <1>19, <1>a DEF FinishBackup, DropTemp, dirVars, Goto, Return, Faults,
       NoFault, DropTemp, WriteTemp, WriteTempFails
  <2> QED
    BY <2>1, <2>2, <2>3, <2>4, <2>5 DEF StoreRule
<1>20. ASSUME c \in Finishers, FinishReplace(c)
      PROVE  StoreRule(c)
  <2>1. StageRule(c) /\ TempRule(c)
    BY <1>20, <1>a, <1>b DEF FinishReplace, SetRecord, Completed, Goto,
       Return, Faults, NoFault, StageRule, Replaced, Withdrawn,
       SettlesForGood, Tentative, Standing, Shown, TempRule, TempStages
  <2>2. MaxFaults = 0 => DropRule(c)
    BY <1>20, <1>a DEF FinishReplace, SetRecord, Completed, Goto, Return,
       Faults, NoFault, DropRule, Shown
  <2>3. RunRules(c)
    <3>1. /\ rec[run[c]] = recFd[c] /\ recFd[c].finish = None
          /\ recFd[c] \in Version /\ backup[c] \in Version
      BY <1>20 DEF FinishReplace, CutInv, StandsInv, FinishInv, FinishHasDraft,
         TypeInv, VersionKnown, HoldsRecord, FinishWriting, IsDraft
    <3>2. Completed(recFd[c], c) # None
          /\ Completed(recFd[c], c).origin = recFd[c].origin
          /\ Completed(recFd[c], c).finish = c
      BY <1>20, <3>1 DEF Completed, Version
    <3> QED
      BY <1>20, <3>1, <3>2, <1>a DEF FinishReplace, SetRecord, RunRules,
         RecordRule, TombRule, DiskRule
  <2>4. DirRule(c)
    BY <1>20, <1>a, <1>c DEF FinishReplace, SetRecord, Completed, Goto,
       Return, Faults, NoFault, DirRule, TempStages
  <2>5. budget'.outages = budget.outages
    BY <1>20, <1>a DEF FinishReplace, SetRecord, Completed, Goto, Return,
       Faults, NoFault, DropTemp, WriteTemp, WriteTempFails
  <2> QED
    BY <2>1, <2>2, <2>3, <2>4, <2>5 DEF StoreRule
<1>21. ASSUME c \in Finishers, FinishReplaceFails(c)
      PROVE  StoreRule(c)
  <2>1. StageRule(c) /\ TempRule(c)
    BY <1>21, <1>a, <1>b DEF FinishReplaceFails, DropTemp, dirVars, Goto,
       Return, Faults, NoFault, StageRule, Replaced, Withdrawn,
       SettlesForGood, Tentative, Standing, Shown, TempRule, TempStages
  <2>2. MaxFaults = 0 => DropRule(c)
    BY <1>21, <1>a DEF FinishReplaceFails, DropTemp, dirVars, Goto, Return,
       Faults, NoFault, DropRule, Shown
  <2>3. RunRules(c)
    BY <1>21, <1>a, <1>b DEF FinishReplaceFails, DropTemp, dirVars, Goto,
       Return, Faults, NoFault, RunRules, RecordRule, TombRule, DiskRule
  <2>4. DirRule(c)
    BY <1>21, <1>a, <1>c DEF FinishReplaceFails, DropTemp, dirVars, Goto,
       Return, Faults, NoFault, DirRule, TempStages
  <2>5. budget'.outages = budget.outages
    BY <1>21, <1>a DEF FinishReplaceFails, DropTemp, dirVars, Goto, Return,
       Faults, NoFault, DropTemp, WriteTemp, WriteTempFails
  <2> QED
    BY <2>1, <2>2, <2>3, <2>4, <2>5 DEF StoreRule
<1>22. ASSUME c \in Finishers, FinishSync(c)
      PROVE  StoreRule(c)
  <2>1. StageRule(c) /\ TempRule(c)
    BY <1>22, <1>a, <1>b DEF FinishSync, SyncRecords, Goto, Return, Faults,
       NoFault, StageRule, Replaced, Withdrawn, SettlesForGood, Tentative,
       Standing, Shown, TempRule, TempStages
  <2>2. MaxFaults = 0 => DropRule(c)
    BY <1>22, <1>a DEF FinishSync, SyncRecords, Goto, Return, Faults,
       NoFault, DropRule, Shown
  <2>3. RunRules(c)
    BY <1>22, <1>a, <1>b DEF FinishSync, SyncRecords, Goto, Return, Faults,
       NoFault, RunRules, RecordRule, TombRule, DiskRule
  <2>4. DirRule(c)
    BY <1>22, <1>a, <1>c DEF FinishSync, SyncRecords, Goto, Return, Faults,
       NoFault, DirRule, TempStages
  <2>5. budget'.outages = budget.outages
    BY <1>22, <1>a DEF FinishSync, SyncRecords, Goto, Return, Faults,
       NoFault, DropTemp, WriteTemp, WriteTempFails
  <2> QED
    BY <2>1, <2>2, <2>3, <2>4, <2>5 DEF StoreRule
<1>23. ASSUME c \in Finishers, FinishUndo(c)
      PROVE  StoreRule(c)
  <2>1. StageRule(c) /\ TempRule(c)
    BY <1>23, <1>a, <1>b DEF FinishUndo, SetRecord, Goto, Return, Faults,
       NoFault, StageRule, Replaced, Withdrawn, SettlesForGood, Tentative,
       Standing, Shown, TempRule, TempStages
  <2>2. MaxFaults = 0 => DropRule(c)
    BY <1>23, <1>a DEF FinishUndo, SetRecord, Goto, Return, Faults, NoFault,
       DropRule, Shown
  <2>3. RunRules(c)
    <3>1. /\ rec[run[c]] = Completed(recFd[c], c)
          /\ backup[c] = recFd[c] /\ recFd[c].finish = None
          /\ recFd[c] \in Version
      BY <1>23 DEF FinishUndo, CutInv, StandsInv, FinishInv, FinishHasReplaced,
         BackupIsDraft, TypeInv, VersionKnown, HoldsRecord, FinishWriting,
         IsDraft
    <3>2. Completed(recFd[c], c) # None
          /\ Completed(recFd[c], c).origin = recFd[c].origin
          /\ Completed(recFd[c], c).finish = c
      BY <1>23, <3>1 DEF Completed, Version
    <3> QED
      BY <1>23, <3>1, <3>2, <1>a DEF FinishUndo, SetRecord, Goto, RunRules,
         RecordRule, TombRule, DiskRule
  <2>4. DirRule(c)
    BY <1>23, <1>a, <1>c DEF FinishUndo, SetRecord, Goto, Return, Faults,
       NoFault, DirRule, TempStages
  <2>5. budget'.outages = budget.outages
    BY <1>23, <1>a DEF FinishUndo, SetRecord, Goto, Return, Faults, NoFault,
       DropTemp, WriteTemp, WriteTempFails
  <2> QED
    BY <2>1, <2>2, <2>3, <2>4, <2>5 DEF StoreRule
<1>24. ASSUME c \in Finishers, FinishUndoFails(c)
      PROVE  StoreRule(c)
  <2>1. StageRule(c) /\ TempRule(c)
    BY <1>24, <1>a, <1>b DEF FinishUndoFails, dirVars, Goto, Return, Faults,
       NoFault, StageRule, Replaced, Withdrawn, SettlesForGood, Tentative,
       Standing, Shown, TempRule, TempStages
  <2>2. MaxFaults = 0 => DropRule(c)
    BY <1>24, <1>a DEF FinishUndoFails, dirVars, Goto, Return, Faults,
       NoFault, DropRule, Shown
  <2>3. RunRules(c)
    BY <1>24, <1>a, <1>b DEF FinishUndoFails, dirVars, Goto, Return, Faults,
       NoFault, RunRules, RecordRule, TombRule, DiskRule
  <2>4. DirRule(c)
    BY <1>24, <1>a, <1>c DEF FinishUndoFails, dirVars, Goto, Return, Faults,
       NoFault, DirRule, TempStages
  <2>5. budget'.outages = budget.outages
    BY <1>24, <1>a DEF FinishUndoFails, dirVars, Goto, Return, Faults,
       NoFault, DropTemp, WriteTemp, WriteTempFails
  <2> QED
    BY <2>1, <2>2, <2>3, <2>4, <2>5 DEF StoreRule
<1>25. ASSUME c \in Finishers, FinishUndoSync(c)
      PROVE  StoreRule(c)
  <2>1. StageRule(c) /\ TempRule(c)
    BY <1>25, <1>a, <1>b DEF FinishUndoSync, SyncRecords, Goto, Return,
       Faults, NoFault, StageRule, Replaced, Withdrawn, SettlesForGood,
       Tentative, Standing, Shown, TempRule, TempStages
  <2>2. MaxFaults = 0 => DropRule(c)
    BY <1>25, <1>a DEF FinishUndoSync, SyncRecords, Goto, Return, Faults,
       NoFault, DropRule, Shown
  <2>3. RunRules(c)
    BY <1>25, <1>a, <1>b DEF FinishUndoSync, SyncRecords, Goto, Return,
       Faults, NoFault, RunRules, RecordRule, TombRule, DiskRule
  <2>4. DirRule(c)
    BY <1>25, <1>a, <1>c DEF FinishUndoSync, SyncRecords, Goto, Return,
       Faults, NoFault, DirRule, TempStages
  <2>5. budget'.outages = budget.outages
    BY <1>25, <1>a DEF FinishUndoSync, SyncRecords, Goto, Return, Faults,
       NoFault, DropTemp, WriteTemp, WriteTempFails
  <2> QED
    BY <2>1, <2>2, <2>3, <2>4, <2>5 DEF StoreRule
<1>26. ASSUME c \in Finishers, FinishClean(c)
      PROVE  StoreRule(c)
  <2>1. StageRule(c) /\ TempRule(c)
    BY <1>26, <1>a, <1>b DEF FinishClean, SyncRecords, Goto, Return, Faults,
       NoFault, StageRule, Replaced, Withdrawn, SettlesForGood, Tentative,
       Standing, Shown, TempRule, TempStages
  <2>2. MaxFaults = 0 => DropRule(c)
    BY <1>26, <1>a DEF FinishClean, SyncRecords, Goto, Return, Faults,
       NoFault, DropRule, Shown
  <2>3. RunRules(c)
    BY <1>26, <1>a, <1>b DEF FinishClean, SyncRecords, Goto, Return, Faults,
       NoFault, RunRules, RecordRule, TombRule, DiskRule
  <2>4. DirRule(c)
    BY <1>26, <1>a, <1>c DEF FinishClean, SyncRecords, Goto, Return, Faults,
       NoFault, DirRule, TempStages
  <2>5. budget'.outages = budget.outages
    BY <1>26, <1>a DEF FinishClean, SyncRecords, Goto, Return, Faults,
       NoFault, DropTemp, WriteTemp, WriteTempFails
  <2> QED
    BY <2>1, <2>2, <2>3, <2>4, <2>5 DEF StoreRule
<1>27. ASSUME c \in Invalidators, InvalidateTemp(c)
      PROVE  StoreRule(c)
  <2>1. StageRule(c) /\ TempRule(c)
    BY <1>27, <1>a, <1>b DEF InvalidateTemp, WriteTemp, WriteTempFails, Goto,
       Return, Faults, NoFault, StageRule, Replaced, Withdrawn,
       SettlesForGood, Tentative, Standing, Shown, TempRule, TempStages
  <2>2. MaxFaults = 0 => DropRule(c)
    BY <1>27, <1>a DEF InvalidateTemp, WriteTemp, WriteTempFails, Goto,
       Return, Faults, NoFault, DropRule, Shown
  <2>3. RunRules(c)
    BY <1>27, <1>a, <1>b DEF InvalidateTemp, WriteTemp, WriteTempFails, Goto,
       Return, Faults, NoFault, RunRules, RecordRule, TombRule, DiskRule
  <2>4. DirRule(c)
    BY <1>27, <1>a, <1>c DEF InvalidateTemp, WriteTemp, WriteTempFails, Goto,
       Return, Faults, NoFault, DirRule, TempStages
  <2>5. budget'.outages = budget.outages
    BY <1>27, <1>a DEF InvalidateTemp, WriteTemp, WriteTempFails, Goto,
       Return, Faults, NoFault, DropTemp, WriteTemp, WriteTempFails
  <2> QED
    BY <2>1, <2>2, <2>3, <2>4, <2>5 DEF StoreRule
<1>28. ASSUME c \in Invalidators, InvalidateClaim(c)
      PROVE  StoreRule(c)
  <2>1. StageRule(c) /\ TempRule(c)
    BY <1>28, <1>a, <1>b DEF InvalidateClaim, SetTomb, Goto, Return, Faults,
       NoFault, StageRule, Replaced, Withdrawn, SettlesForGood, Tentative,
       Standing, Shown, TempRule, TempStages
  <2>2. MaxFaults = 0 => DropRule(c)
    BY <1>28, <1>a DEF InvalidateClaim, SetTomb, Goto, Return, Faults,
       NoFault, DropRule, Shown
  <2>3. RunRules(c)
    BY <1>28, <1>a, <1>b DEF InvalidateClaim, SetTomb, Goto, Return, Faults,
       NoFault, RunRules, RecordRule, TombRule, DiskRule
  <2>4. DirRule(c)
    BY <1>28, <1>a, <1>c DEF InvalidateClaim, SetTomb, Goto, Return, Faults,
       NoFault, DirRule, TempStages
  <2>5. budget'.outages = budget.outages
    BY <1>28, <1>a DEF InvalidateClaim, SetTomb, Goto, Return, Faults,
       NoFault, DropTemp, WriteTemp, WriteTempFails
  <2> QED
    BY <2>1, <2>2, <2>3, <2>4, <2>5 DEF StoreRule
<1>29. ASSUME c \in Invalidators, InvalidateClaimFails(c)
      PROVE  StoreRule(c)
  <2>1. StageRule(c) /\ TempRule(c)
    BY <1>29, <1>a, <1>b DEF InvalidateClaimFails, DropTemp, dirVars, Goto,
       Return, Faults, NoFault, StageRule, Replaced, Withdrawn,
       SettlesForGood, Tentative, Standing, Shown, TempRule, TempStages
  <2>2. MaxFaults = 0 => DropRule(c)
    BY <1>29, <1>a DEF InvalidateClaimFails, DropTemp, dirVars, Goto, Return,
       Faults, NoFault, DropRule, Shown
  <2>3. RunRules(c)
    BY <1>29, <1>a, <1>b DEF InvalidateClaimFails, DropTemp, dirVars, Goto,
       Return, Faults, NoFault, RunRules, RecordRule, TombRule, DiskRule
  <2>4. DirRule(c)
    BY <1>29, <1>a, <1>c DEF InvalidateClaimFails, DropTemp, dirVars, Goto,
       Return, Faults, NoFault, DirRule, TempStages
  <2>5. budget'.outages = budget.outages
    BY <1>29, <1>a DEF InvalidateClaimFails, DropTemp, dirVars, Goto, Return,
       Faults, NoFault, DropTemp, WriteTemp, WriteTempFails
  <2> QED
    BY <2>1, <2>2, <2>3, <2>4, <2>5 DEF StoreRule
<1>30. ASSUME c \in Invalidators, InvalidateSync(c)
      PROVE  StoreRule(c)
  <2>1. StageRule(c) /\ TempRule(c)
    BY <1>30, <1>a, <1>b DEF InvalidateSync, SyncTombs, Goto, Return, Faults,
       NoFault, StageRule, Replaced, Withdrawn, SettlesForGood, Tentative,
       Standing, Shown, TempRule, TempStages
  <2>2. MaxFaults = 0 => DropRule(c)
    BY <1>30, <1>a DEF InvalidateSync, SyncTombs, Goto, Return, Faults,
       NoFault, DropRule, Shown
  <2>3. RunRules(c)
    BY <1>30, <1>a, <1>b DEF InvalidateSync, SyncTombs, Goto, Return, Faults,
       NoFault, RunRules, RecordRule, TombRule, DiskRule
  <2>4. DirRule(c)
    BY <1>30, <1>a, <1>c DEF InvalidateSync, SyncTombs, Goto, Return, Faults,
       NoFault, DirRule, TempStages
  <2>5. budget'.outages = budget.outages
    BY <1>30, <1>a DEF InvalidateSync, SyncTombs, Goto, Return, Faults,
       NoFault, DropTemp, WriteTemp, WriteTempFails
  <2> QED
    BY <2>1, <2>2, <2>3, <2>4, <2>5 DEF StoreRule
<1>31. ASSUME c \in Invalidators, InvalidateUndo(c)
      PROVE  StoreRule(c)
  <2>1. StageRule(c) /\ TempRule(c)
    BY <1>31, <1>a, <1>b DEF InvalidateUndo, SetTomb, Goto, Return, Faults,
       NoFault, StageRule, Replaced, Withdrawn, SettlesForGood, Tentative,
       Standing, Shown, TempRule, TempStages
  <2>2. MaxFaults = 0 => DropRule(c)
    BY <1>31, <1>a DEF InvalidateUndo, SetTomb, Goto, Return, Faults,
       NoFault, DropRule, Shown
  <2>3. RunRules(c)
    <3>1. tomb[run[c]] = c
      BY <1>31 DEF InvalidateUndo, CutInv, OwnInv, TombsInSight
    <3> QED
      BY <1>31, <3>1, <1>a DEF InvalidateUndo, SetTomb, RunRules, RecordRule,
         TombRule, DiskRule
  <2>4. DirRule(c)
    BY <1>31, <1>a, <1>c DEF InvalidateUndo, SetTomb, Goto, Return, Faults,
       NoFault, DirRule, TempStages
  <2>5. budget'.outages = budget.outages
    BY <1>31, <1>a DEF InvalidateUndo, SetTomb, Goto, Return, Faults,
       NoFault, DropTemp, WriteTemp, WriteTempFails
  <2> QED
    BY <2>1, <2>2, <2>3, <2>4, <2>5 DEF StoreRule
<1>32. ASSUME c \in Invalidators, InvalidateUndoFails(c)
      PROVE  StoreRule(c)
  <2>1. StageRule(c) /\ TempRule(c)
    BY <1>32, <1>a, <1>b DEF InvalidateUndoFails, DropTemp, dirVars, Goto,
       Return, Faults, NoFault, StageRule, Replaced, Withdrawn,
       SettlesForGood, Tentative, Standing, Shown, TempRule, TempStages
  <2>2. MaxFaults = 0 => DropRule(c)
    BY <1>32, <1>a DEF InvalidateUndoFails, DropTemp, dirVars, Goto, Return,
       Faults, NoFault, DropRule, Shown
  <2>3. RunRules(c)
    BY <1>32, <1>a, <1>b DEF InvalidateUndoFails, DropTemp, dirVars, Goto,
       Return, Faults, NoFault, RunRules, RecordRule, TombRule, DiskRule
  <2>4. DirRule(c)
    BY <1>32, <1>a, <1>c DEF InvalidateUndoFails, DropTemp, dirVars, Goto,
       Return, Faults, NoFault, DirRule, TempStages
  <2>5. budget'.outages = budget.outages
    BY <1>32, <1>a DEF InvalidateUndoFails, DropTemp, dirVars, Goto, Return,
       Faults, NoFault, DropTemp, WriteTemp, WriteTempFails
  <2> QED
    BY <2>1, <2>2, <2>3, <2>4, <2>5 DEF StoreRule
<1>33. ASSUME c \in Invalidators, InvalidateUndoSync(c)
      PROVE  StoreRule(c)
  <2>1. StageRule(c) /\ TempRule(c)
    BY <1>33, <1>a, <1>b DEF InvalidateUndoSync, DropTemp, SyncTombs, Goto,
       Return, Faults, NoFault, StageRule, Replaced, Withdrawn,
       SettlesForGood, Tentative, Standing, Shown, TempRule, TempStages
  <2>2. MaxFaults = 0 => DropRule(c)
    BY <1>33, <1>a DEF InvalidateUndoSync, DropTemp, SyncTombs, Goto, Return,
       Faults, NoFault, DropRule, Shown
  <2>3. RunRules(c)
    BY <1>33, <1>a, <1>b DEF InvalidateUndoSync, DropTemp, SyncTombs, Goto,
       Return, Faults, NoFault, RunRules, RecordRule, TombRule, DiskRule
  <2>4. DirRule(c)
    BY <1>33, <1>a, <1>c DEF InvalidateUndoSync, DropTemp, SyncTombs, Goto,
       Return, Faults, NoFault, DirRule, TempStages
  <2>5. budget'.outages = budget.outages
    BY <1>33, <1>a DEF InvalidateUndoSync, DropTemp, SyncTombs, Goto, Return,
       Faults, NoFault, DropTemp, WriteTemp, WriteTempFails
  <2> QED
    BY <2>1, <2>2, <2>3, <2>4, <2>5 DEF StoreRule
<1>34. ASSUME c \in Invalidators, InvalidateClean(c)
      PROVE  StoreRule(c)
  <2>1. StageRule(c) /\ TempRule(c)
    BY <1>34, <1>a, <1>b DEF InvalidateClean, DropTemp, dirVars, Goto,
       Return, Faults, NoFault, StageRule, Replaced, Withdrawn,
       SettlesForGood, Tentative, Standing, Shown, TempRule, TempStages
  <2>2. MaxFaults = 0 => DropRule(c)
    BY <1>34, <1>a DEF InvalidateClean, DropTemp, dirVars, Goto, Return,
       Faults, NoFault, DropRule, Shown
  <2>3. RunRules(c)
    BY <1>34, <1>a, <1>b DEF InvalidateClean, DropTemp, dirVars, Goto,
       Return, Faults, NoFault, RunRules, RecordRule, TombRule, DiskRule
  <2>4. DirRule(c)
    BY <1>34, <1>a, <1>c DEF InvalidateClean, DropTemp, dirVars, Goto,
       Return, Faults, NoFault, DirRule, TempStages
  <2>5. budget'.outages = budget.outages
    BY <1>34, <1>a DEF InvalidateClean, DropTemp, dirVars, Goto, Return,
       Faults, NoFault, DropTemp, WriteTemp, WriteTempFails
  <2> QED
    BY <2>1, <2>2, <2>3, <2>4, <2>5 DEF StoreRule
<1>35. ASSUME c \in Calls, Kill(c)
      PROVE  StoreRule(c)
  <2>1. StageRule(c) /\ TempRule(c)
    BY <1>35, <1>a, <1>b DEF Kill, Live, dirVars, Goto, Return, Faults,
       NoFault, StageRule, Replaced, Withdrawn, SettlesForGood, Tentative,
       Standing, Shown, TempRule, TempStages
  <2>2. MaxFaults = 0 => DropRule(c)
    BY <1>35, <1>a DEF Kill, Live, dirVars, Goto, Return, Faults, NoFault,
       DropRule, Shown
  <2>3. RunRules(c)
    BY <1>35, <1>a, <1>b DEF Kill, Live, dirVars, Goto, Return, Faults,
       NoFault, RunRules, RecordRule, TombRule, DiskRule
  <2>4. DirRule(c)
    BY <1>35, <1>a, <1>c DEF Kill, Live, dirVars, Goto, Return, Faults,
       NoFault, DirRule, TempStages
  <2>5. budget'.outages = budget.outages
    BY <1>35, <1>a DEF Kill, Live, dirVars, Goto, Return, Faults, NoFault,
       DropTemp, WriteTemp, WriteTempFails
  <2> QED
    BY <2>1, <2>2, <2>3, <2>4, <2>5 DEF StoreRule
<1> QED
  BY <1>1, <1>2, <1>3, <1>4, <1>5, <1>6, <1>7, <1>8, <1>9, <1>10, <1>11,
     <1>12, <1>13, <1>14, <1>15, <1>16, <1>17, <1>18, <1>19, <1>20, <1>21,
     <1>22, <1>23, <1>24, <1>25, <1>26, <1>27, <1>28, <1>29, <1>30, <1>31,
     <1>32, <1>33, <1>34, <1>35 DEF CallStep, StartStep, HeadStep,
     FinishStep, InvalidateStep

-----------------------------------------------------------------------------
(* The store beside its readers.                                           *)

(* An empty store has no temporaries to miss.                              *)
LEMMA CutInit == Init => CutInv
<1>1. Init => TempsThere /\ TombsHaveDir
  BY DEF Init, TempsThere, TombsHaveDir, TempStages
<1> QED
  BY <1>1, StandsInit, OwnInit DEF CutInv

(* Temporaries are there as long as they are needed, and the directory of  *)
(* the tombstones is, through power losses too.                            *)
LEMMA CutStep ==
  ASSUME ~EarlyCallers, CutInv, [Next]_vars PROVE CutInv'
<1> USE CallsDisjoint, NoneIsNoVersion
<1>a. TypeInv
  BY DEF CutInv, StandsInv
<1>1. StandsInv' /\ OwnInv'
  BY StandsStep, OwnStep DEF CutInv
<1>2. ASSUME NEW c \in Calls, CallStep(c) \/ Kill(c)
      PROVE  TempsThere' /\ TombsHaveDir'
  <2>1. OthersKeep(c) /\ StoreRule(c)
    BY <1>2, <1>a, OneMoves, CallRules
  <2>2. TempsThere'
    BY <2>1 DEF StoreRule, TempRule, OthersKeep, CutInv, TempsThere
  <2>3. TombsHaveDir'
    BY <2>1 DEF StoreRule, DirRule, OthersKeep, CutInv, TombsHaveDir
  <2> QED
    BY <2>2, <2>3
<1>3. ASSUME NEW r \in Runs, SwapLock(r)
      PROVE  TempsThere' /\ TombsHaveDir'
  BY <1>3 DEF SwapLock, dirVars, CutInv, TempsThere, TombsHaveDir
<1>4. ASSUME Outage PROVE TempsThere' /\ TombsHaveDir'
  <2>1. \A c \in Calls : pc'[c] \in {"idle", "done"}
    BY <1>4 DEF Outage, Live
  <2>2. invDir' = "absent" => \A r \in Runs : tomb'[r] = None
    BY <1>4 DEF Outage, CutInv, TombsHaveDir
  <2>3. \A r \in Runs : tombDisk'[r] = {tomb'[r]}
    BY <1>4 DEF Outage
  <2> QED
    BY <2>1, <2>2, <2>3 DEF TempsThere, TombsHaveDir, TempStages
<1>5. ASSUME UNCHANGED vars PROVE TempsThere' /\ TombsHaveDir'
  BY <1>5 DEF vars, CutInv, TempsThere, TombsHaveDir
<1> QED
  BY <1>1, <1>2, <1>3, <1>4, <1>5 DEF Next, Terminated, CutInv

(* What a record in place says of the calls that made it.                  *)
LEMMA RecordShown ==
  ASSUME StandsInv, OwnInv, NEW r \in Runs, rec[r] # None
  PROVE  /\ rec[r] \in Version /\ rec[r].origin \in Starters
         /\ rec[r].finish \in Finishers \cup {None}
         /\ Shown(rec[r].origin) /\ run[rec[r].origin] = r
         /\ rec[r].finish # None =>
              /\ Shown(rec[r].finish) /\ pc[rec[r].finish] \in Replaced
              /\ pc[rec[r].finish] # "f.undosync" /\ run[rec[r].finish] = r
<1>1. rec[r] \in Version
  BY DEF StandsInv, TypeInv, TypeOK
<1>2. Owned(rec[r], r) /\ InSight(rec[r])
  BY DEF StandsInv, CommitInv, DiskHasRecord, OwnInv, RecordsOwned,
     RecordsInSight
<1> QED
  BY <1>1, <1>2 DEF Version, Owned, InSight, Shown, Replaced

(* What was settled is not unsettled, what was seen stays or is taken back *)
(* for good, in every step of a call and when a lock file is replaced.     *)
LEMMA RulesKeep ==
  ASSUME CutInv, NEW c \in Calls, OthersKeep(c), StoreRule(c), NEW r \in Runs
  PROVE  Keeping(r)
<1> USE CallsDisjoint, NoneIsNoVersion
<1>a. RecordRule(c, r) /\ TombRule(c, r) /\ StageRule(c)
  BY DEF StoreRule, RunRules
<1>b. \A d \in Calls : Standing(d) /\ ~Tentative(d) => ~Tentative(d)'
  BY <1>a DEF StageRule, SettlesForGood, OthersKeep, Tentative
<1>c. \A f \in Finishers : /\ pc[f] \in Replaced => pc'[f] \in Replaced
                           /\ pc[f] \in Withdrawn => pc'[f] \in Withdrawn
  BY <1>a DEF StageRule, OthersKeep
<1>d. rec[r] # None =>
        /\ rec[r] \in Version /\ rec[r].origin \in Starters
        /\ rec[r].finish \in Finishers \cup {None}
        /\ Standing(rec[r].origin)
        /\ rec[r].finish # None => Standing(rec[r].finish)
  BY RecordShown DEF CutInv, Standing
<1>1. ASSUME NEW v \in Version, Persists(v, r) PROVE Persists(v, r)'
  <2>1. /\ rec[r] # None /\ rec[r].origin = v.origin /\ ~Tentative(v.origin)
        /\ v.finish # None => rec[r] = v /\ ~Tentative(v.finish)
    BY <1>1 DEF Persists
  <2>2. /\ ~Tentative(v.origin)'
        /\ v.finish # None => ~Tentative(v.finish)'
    BY <2>1, <1>b, <1>d
  <2>3. /\ rec'[r] # None /\ rec'[r].origin = v.origin
        /\ v.finish # None => rec'[r] = v
    <3>1. CASE rec'[r] = rec[r]
      BY <3>1, <2>1
    <3>2. CASE rec[r] = Draft(c) /\ pc[c] = "s.undo"
      BY <3>2, <2>1 DEF Draft, Tentative
    <3>3. CASE rec'[r] # None /\ rec'[r].origin = rec[r].origin
               /\ (rec[r].finish = None
                     \/ (rec[r].finish = c /\ pc[c] = "f.undo"))
      BY <3>3, <2>1 DEF Tentative
    <3> QED
      BY <3>1, <3>2, <3>3, <2>1, <1>a DEF RecordRule
  <2> QED
    BY <2>2, <2>3 DEF Persists
<1>2. ASSUME NEW f \in Finishers, WasSeen(f, r) PROVE WasSeen(f, r)'
  <2>1. CASE pc[f] \in Withdrawn
    BY <2>1, <1>2, <1>c DEF WasSeen
  <2>2. CASE Holds(f, r) /\ pc[f] \notin Withdrawn
    <3>1. rec'[r] = rec[r] \/ (c = f /\ pc'[f] = "f.undosync")
      BY <2>2, <1>a DEF RecordRule, Holds, Draft
    <3> QED
      BY <3>1, <2>2, <1>2, <1>c DEF WasSeen, Holds, Withdrawn
  <2> QED
    BY <2>1, <2>2, <1>2 DEF WasSeen
<1>3. ASSUME NEW f \in Finishers, IsGone(f, r) PROVE IsGone(f, r)'
  <2>1. pc'[f] \in Withdrawn
    BY <1>3, <1>c DEF IsGone
  <2>2. ~Holds(f, r)'
    BY <1>3, <1>a DEF RecordRule, Holds, IsGone, Draft, Withdrawn
  <2> QED
    BY <2>1, <2>2 DEF IsGone
<1>4. ASSUME NEW d \in Invalidators, TombPersists(d, r)
      PROVE  TombPersists(d, r)'
  <2>1. tomb[r] = d /\ ~Tentative(d) /\ d # None
    BY <1>4 DEF TombPersists
  <2>2. TombOwned(d, r)
    BY <2>1 DEF CutInv, OwnInv, TombsOwned, TombsInSight
  <2>3. ~Tentative(d)'
    BY <2>1, <2>2, <1>b DEF TombOwned, Standing, Shown
  <2>4. tomb'[r] = d
    BY <2>1, <1>a DEF TombRule, Tentative
  <2> QED
    BY <2>3, <2>4 DEF TombPersists
<1> QED
  BY <1>1, <1>2, <1>3, <1>4 DEF Keeping

(* So each step of the store keeps what readers go by.                     *)
LEMMA StoreKeeps ==
  ASSUME CutInv, StoreStep \/ UNCHANGED vars PROVE \A r \in Runs : Keeping(r)
<1>1. ASSUME NEW c \in Calls, CallStep(c) \/ Kill(c)
      PROVE  \A r \in Runs : Keeping(r)
  <2>1. OthersKeep(c) /\ StoreRule(c)
    BY <1>1, OneMoves, CallRules DEF CutInv, StandsInv
  <2> QED
    BY <2>1, RulesKeep
<1>2. CASE UNCHANGED <<rec, tomb, pc>>
  BY <1>2 DEF Keeping, Persists, WasSeen, IsGone, Holds, TombPersists,
     Tentative
<1> QED
  BY <1>1, <1>2 DEF StoreStep, SwapLock, dirVars, vars

-----------------------------------------------------------------------------
(* The readers beside the store.                                           *)

(* What a reader has noted is of records and tombstones.                   *)
LEMMA ReaderData ==
  ASSUME ReaderTypes, NEW x \in Readers
  PROVE  /\ \A r \in Runs : /\ got[x].rec[r] \in Version \cup {None}
                            /\ got[x].tomb[r] \in Invalidators \cup {None}
         /\ {first[x], shot[x], mid[x]} \subseteq Manifests \cup {None}
         /\ \A m \in Manifests : \A r \in Selected :
              /\ m.rec[r] \in Version \cup {None}
              /\ m.tomb[r] \in Invalidators \cup {None}
  BY DEF ReaderTypes, Image, Manifests

(* A reader that does not move keeps what it knows.                        *)
LEMMA ReaderKeeps ==
  ASSUME ReaderTypes, NEW x \in Readers, SnapOf(x),
         tomb \in [Runs -> Invalidators \cup {None}],
         \A r \in Runs : Keeping(r),
         at'[x] = at[x], todo'[x] = todo[x], peek'[x] = peek[x],
         sawDir'[x] = sawDir[x], got'[x] = got[x], first'[x] = first[x],
         shot'[x] = shot[x], mid'[x] = mid[x]
  PROVE  SnapOf(x)'
<1> USE NoneIsNoVersion, SelectedAreRuns
<1>a. /\ Reading(x)' <=> Reading(x)
      /\ Second(x)' <=> Second(x)
      /\ ReadingRecords(x)' <=> ReadingRecords(x)
      /\ ReadingTombs(x)' <=> ReadingTombs(x)
      /\ \A r \in Runs : ToRead(x, r)' <=> ToRead(x, r)
  BY DEF Reading, Second, ReadingRecords, ReadingTombs, ToRead
<1>b. \A r \in Runs : \A v \in Version \cup {None} :
        SeenRecord(v, r) => SeenRecord(v, r)'
  BY DEF SeenRecord, Keeping, Version
<1>c. \A r \in Runs : \A c \in Invalidators \cup {None} :
        SeenTomb(c, r) => SeenTomb(c, r)'
  BY DEF SeenTomb, Keeping
<1>d. \A r \in Runs : tomb[r] # None /\ ~Tentative(tomb[r])
                        => tomb'[r] # None /\ ~Tentative(tomb[r])'
  <2> SUFFICES ASSUME NEW r \in Runs, tomb[r] # None, ~Tentative(tomb[r])
               PROVE  tomb'[r] # None /\ ~Tentative(tomb[r])'
    OBVIOUS
  <2>1. PICK c \in Invalidators : c = tomb[r]
    OBVIOUS
  <2>2. TombPersists(c, r)'
    BY <2>1 DEF TombPersists, Keeping
  <2> QED
    BY <2>1, <2>2 DEF TombPersists
<1>1. Known(x)'
  BY <1>a DEF SnapOf, Known
<1>2. GotOf(x)'
  <2>1. Reading(x) => \A r \in Runs :
          /\ SeenRecord(got[x].rec[r], r)' /\ SeenTomb(got[x].tomb[r], r)'
          /\ ReadingTombs(x) /\ ToRead(x, r) =>
               tomb'[r] # None /\ ~Tentative(tomb[r])'
    BY <1>b, <1>c, <1>d, ReaderData DEF SnapOf, GotOf
  <2> QED
    BY <2>1, <1>a DEF GotOf
<1>3. FirstOf(x)'
  BY <1>b, <1>c, ReaderData DEF SnapOf, FirstOf
<1>4. NotThereOf(x)'
  BY <1>a DEF SnapOf, NotThereOf
<1>5. ThereOf(x)'
  <2>1. ASSUME Second(x), NEW r \in Selected, mid[x].rec[r] # None
        PROVE  /\ Persists(mid[x].rec[r], r)'
               /\ (ReadingRecords(x) /\ ToRead(x, r))
                    \/ MadeOf(got[x].rec[r], mid[x].rec[r])
    <3>1. PICK v \in Version : v = mid[x].rec[r]
      BY <2>1, ReaderData DEF SnapOf, Known
    <3>2. /\ Persists(v, r)
          /\ (ReadingRecords(x) /\ ToRead(x, r))
               \/ MadeOf(got[x].rec[r], mid[x].rec[r])
      BY <2>1, <3>1 DEF SnapOf, ThereOf
    <3>3. Persists(v, r)'
      BY <3>2 DEF Keeping
    <3> QED
      BY <3>1, <3>2, <3>3 DEF Persists
  <2> QED
    BY <2>1, <1>a DEF ThereOf, MadeOf
<1>6. GoneOf(x)'
  BY <1>a, ReaderData DEF SnapOf, GoneOf, Keeping
<1>7. TombsOf(x)'
  <2>1. ASSUME Second(x), NEW r \in Selected, mid[x].tomb[r] # None
        PROVE  TombPersists(mid[x].tomb[r], r)'
    <3>1. PICK c \in Invalidators : c = mid[x].tomb[r]
      BY <2>1, ReaderData DEF SnapOf, Known
    <3>2. TombPersists(c, r)'
      BY <2>1, <3>1 DEF SnapOf, TombsOf, Keeping
    <3> QED
      BY <3>1, <3>2 DEF TombPersists
  <2> QED
    BY <2>1, <1>a DEF SnapOf, TombsOf
<1>8. ShotOf(x)'
  BY DEF SnapOf, ShotOf
<1> QED
  BY <1>1, <1>2, <1>3, <1>4, <1>5, <1>6, <1>7, <1>8 DEF SnapOf

(* A reader that ends, or has not begun to read, knows nothing.            *)
LEMMA ReaderEnds ==
  ASSUME NEW x \in Readers, at'[x] = "done",
         shot'[x] = None \/ shot'[x] = mid'[x]
  PROVE  SnapOf(x)'
  BY DEF SnapOf, Known, GotOf, FirstOf, NotThereOf, ThereOf, GoneOf, TombsOf,
     ShotOf, Reading, Second

-----------------------------------------------------------------------------
(* The steps of a reader.                                                  *)

(* A strict listing of the records shows settled ones only: who may still  *)
(* take a record back has a temporary or a backup in the directory.        *)
LEMMA ListedIsSettled ==
  ASSUME CutInv, ~RecordLitter, NEW r \in Runs
  PROVE  /\ SettledStore.rec[r] = rec[r]
         /\ rec[r] # None => Persists(rec[r], r)
<1> USE CallsDisjoint, NoneIsNoVersion
<1>1. CASE rec[r] = None
  BY <1>1 DEF SettledStore
<1>2. CASE rec[r] # None
  <2>1. /\ rec[r] \in Version /\ rec[r].origin \in Starters
        /\ rec[r].finish \in Finishers \cup {None}
    BY <1>2, RecordShown DEF CutInv
  <2>2. \A s \in Starters : ~Tentative(s)
    BY DEF CutInv, StandsInv, TypeInv, OwnStages, StartStages, TempsThere,
       TempStages, RecordLitter, Tentative
  <2>3. \A f \in Finishers : ~Tentative(f)
    BY DEF CutInv, StandsInv, TypeInv, OwnStages, FinishWriting, VersionKnown,
       RecordLitter, Tentative
  <2>4. Settled(rec[r].finish) = rec[r].finish
    BY <2>1, <2>3 DEF Settled
  <2>5. SettledStore.rec[r] = [rec[r] EXCEPT !.finish = rec[r].finish]
    BY <1>2, <2>1, <2>2, <2>4 DEF SettledStore, Settled
  <2>6. [rec[r] EXCEPT !.finish = rec[r].finish] = rec[r]
    BY <2>1 DEF Version
  <2>7. Persists(rec[r], r)
    BY <1>2, <2>1, <2>2, <2>3 DEF Persists
  <2> QED
    BY <2>5, <2>6, <2>7
<1> QED
  BY <1>1, <1>2

(* A strict listing of the tombstones shows settled ones only.             *)
LEMMA ListedTombs ==
  ASSUME CutInv, ~TombLitter, NEW r \in Runs, tomb[r] # None
  PROVE  ~Tentative(tomb[r])
<1>1. tomb[r] \in Invalidators /\ TombOwned(tomb[r], r)
  BY DEF CutInv, StandsInv, TypeInv, TypeOK, OwnInv, TombsOwned, TombsInSight
<1> QED
  BY <1>1 DEF TombOwned, Tentative, TombLitter, CutInv, TempsThere, TempStages

(* A reader's step changes nothing in the store and nothing of the others. *)
LEMMA ReaderAlone ==
  ASSUME ReaderTypes, NEW x \in Readers, ReaderStep(x)
  PROVE  /\ UNCHANGED vars
         /\ \A y \in Readers \ {x} :
              /\ at'[y] = at[y] /\ todo'[y] = todo[y] /\ peek'[y] = peek[y]
              /\ sawDir'[y] = sawDir[y] /\ got'[y] = got[y]
              /\ first'[y] = first[y] /\ shot'[y] = shot[y]
              /\ mid'[y] = mid[y]
<1> USE DEF ReaderTypes, Proceed, Give
<1>1. CASE Begin(x)
  BY <1>1 DEF Begin
<1>2. CASE ListRecords(x)
  BY <1>2 DEF ListRecords
<1>3. CASE StatRecord(x)
  BY <1>3 DEF StatRecord
<1>4. CASE ReadDocument(x)
  BY <1>4 DEF ReadDocument
<1>5. CASE ListTombs(x)
  BY <1>5 DEF ListTombs
<1>6. CASE StatTomb(x)
  BY <1>6 DEF StatTomb
<1>7. CASE ReadTomb(x)
  BY <1>7 DEF ReadTomb
<1>8. CASE EndReading(x)
  BY <1>8 DEF EndReading
<1> QED
  BY <1>1, <1>2, <1>3, <1>4, <1>5, <1>6, <1>7, <1>8 DEF ReaderStep

(* What was read, with one more entry, is an image of the store.           *)
LEMMA ImageRecord ==
  ASSUME NEW g \in Image, NEW r \in Runs, NEW v \in Version \cup {None}
  PROVE  [g EXCEPT !.rec[r] = v] \in Image
<1>1. [g.rec EXCEPT ![r] = v] \in [Runs -> Version \cup {None}]
  BY DEF Image
<1>2. [g EXCEPT !.rec[r] = v]
        = [rec |-> [g.rec EXCEPT ![r] = v], tomb |-> g.tomb]
  BY DEF Image
<1> QED
  BY <1>1, <1>2 DEF Image

(* A reading stays an image when a tombstone is noted.                     *)
LEMMA ImageTomb ==
  ASSUME NEW g \in Image, NEW r \in Runs, NEW c \in Invalidators \cup {None}
  PROVE  [g EXCEPT !.tomb[r] = c] \in Image
<1>1. [g.tomb EXCEPT ![r] = c] \in [Runs -> Invalidators \cup {None}]
  BY DEF Image
<1>2. [g EXCEPT !.tomb[r] = c]
        = [rec |-> g.rec, tomb |-> [g.tomb EXCEPT ![r] = c]]
  BY DEF Image
<1> QED
  BY <1>1, <1>2 DEF Image

(* The settled store is an image of a store, and has a manifest.           *)
LEMMA SettledIsManifest ==
  ASSUME CutInv PROVE Manifest(SettledStore) \in Manifests
<1>1. /\ rec \in [Runs -> Version \cup {None}]
      /\ tomb \in [Runs -> Invalidators \cup {None}]
  BY DEF CutInv, StandsInv, TypeInv, TypeOK
<1>2. SettledStore \in Image
  BY <1>1, NoneIsNoVersion DEF SettledStore, Settled, Image, Version
<1> QED
  BY <1>2, SelectedAreRuns DEF Image, Manifest, Manifests

(* What a reader remembers keeps its types.                                *)
LEMMA ReaderTypesStep ==
  ASSUME CutInv, ReaderTypes, NEW x \in Readers, Known(x), ReaderStep(x)
  PROVE  ReaderTypes'
<1> USE SelectedAreRuns, NoneIsNoVersion
<1>a. /\ rec \in [Runs -> Version \cup {None}]
      /\ tomb \in [Runs -> Invalidators \cup {None}]
  BY DEF CutInv, StandsInv, TypeInv, TypeOK
<1>b. Blank \in Image
  BY DEF Blank, Image
<1>c. \A image \in Image : Manifest(image) \in Manifests
  BY DEF Image, Manifest, Manifests
<1>1. CASE Begin(x)
  BY <1>1 DEF Begin, Proceed, ReaderTypes, ReaderStages
<1>2. CASE ListRecords(x)
  <2>1. Manifest(SettledStore) \in Manifests
    BY SettledIsManifest
  <2> QED
    BY <1>2, <2>1, <1>b DEF ListRecords, Proceed, Give, ReaderTypes,
       ReaderStages
<1>3. CASE StatRecord(x)
  <2>1. PICK r \in todo[x] :
          /\ todo' = [todo EXCEPT ![x] = @ \ {r}]
          /\ \/ /\ rec[r] # None
                /\ peek' = [peek EXCEPT ![x] = [run |-> r, inode |-> rec[r]]]
                /\ Proceed(x, "record")
             \/ rec[r] = None /\ Give(x, "unstable") /\ UNCHANGED peek
    BY <1>3 DEF StatRecord
  <2>2. r \in Runs
    BY <2>1 DEF ReaderTypes
  <2>3. rec[r] # None => [run |-> r, inode |-> rec[r]] \in Peeks
    BY <2>2, <1>a DEF Peeks
  <2> QED
    BY <1>3, <2>1, <2>3 DEF StatRecord, Proceed, Give, ReaderTypes,
       ReaderStages
<1>4. CASE ReadDocument(x)
  <2>1. PICK r \in Runs : r = peek[x].run
    BY <1>4 DEF ReadDocument, Known, Peeks
  <2>2. [got[x] EXCEPT !.rec[r] = rec[r]] \in Image
    BY <2>1, <1>a, ImageRecord DEF ReaderTypes
  <2> QED
    BY <1>4, <2>1, <2>2 DEF ReadDocument, Proceed, Give, ReaderTypes,
       ReaderStages
<1>5. CASE ListTombs(x)
  BY <1>5 DEF ListTombs, Proceed, Give, ReaderTypes, ReaderStages
<1>6. CASE StatTomb(x)
  <2>1. CASE todo[x] = {} /\ Proceed(x, "end") /\ UNCHANGED <<todo, peek>>
    BY <1>6, <2>1 DEF StatTomb, Proceed, ReaderTypes, ReaderStages
  <2>2. ASSUME NEW r \in todo[x],
               /\ todo' = [todo EXCEPT ![x] = @ \ {r}]
               /\ \/ /\ tomb[r] # None
                     /\ peek' =
                          [peek EXCEPT ![x] = [run |-> r, inode |-> tomb[r]]]
                     /\ Proceed(x, "tomb")
                  \/ tomb[r] = None /\ Give(x, "unstable") /\ UNCHANGED peek
        PROVE  ReaderTypes'
    <3>1. r \in Runs
      BY <2>2 DEF ReaderTypes
    <3>2. tomb[r] # None => [run |-> r, inode |-> tomb[r]] \in Peeks
      BY <3>1, <1>a DEF Peeks
    <3> QED
      BY <1>6, <2>2, <3>2 DEF StatTomb, Proceed, Give, ReaderTypes,
         ReaderStages
  <2> QED
    BY <1>6, <2>1, <2>2 DEF StatTomb
<1>7. CASE ReadTomb(x)
  <2>1. PICK r \in Runs : r = peek[x].run
    BY <1>7 DEF ReadTomb, Known, Peeks
  <2>2. [got[x] EXCEPT !.tomb[r] = tomb[r]] \in Image
    BY <2>1, <1>a, ImageTomb DEF ReaderTypes
  <2> QED
    BY <1>7, <2>1, <2>2 DEF ReadTomb, Proceed, Give, ReaderTypes,
       ReaderStages
<1>8. CASE EndReading(x)
  <2>1. Manifest(got[x]) \in Manifests
    BY <1>c DEF ReaderTypes
  <2> QED
    BY <1>8, <2>1 DEF EndReading, Proceed, Give, ReaderTypes, ReaderStages
<1> QED
  BY <1>1, <1>2, <1>3, <1>4, <1>5, <1>6, <1>7, <1>8 DEF ReaderStep

(* A step that moves a name from the list to the one being read.           *)
LEMMA ReaderLooks ==
  ASSUME ReaderTypes, NEW x \in Readers, SnapOf(x), UNCHANGED vars, Known(x)',
         Reading(x), Reading(x)',
         ReadingRecords(x)' <=> ReadingRecords(x),
         ReadingTombs(x)' <=> ReadingTombs(x),
         \A r \in Runs : ToRead(x, r)' <=> ToRead(x, r),
         sawDir'[x] = sawDir[x], got'[x] = got[x], first'[x] = first[x],
         shot'[x] = shot[x], mid'[x] = mid[x]
  PROVE  SnapOf(x)'
<1> USE NoneIsNoVersion, SelectedAreRuns
<1>a. UNCHANGED <<rec, tomb, pc>>
  BY DEF vars
<1>b. Second(x)' <=> Second(x)
  BY DEF Second
<1> USE DEF SnapOf
<1>1. GotOf(x)'
  BY <1>a DEF GotOf, SeenRecord, SeenTomb, WasSeen, Holds, TombPersists,
     Tentative
<1>2. FirstOf(x)'
  BY <1>a DEF FirstOf, SeenRecord, SeenTomb, WasSeen, Holds, TombPersists,
     Tentative, Reading
<1>3. NotThereOf(x)'
  BY <1>b DEF NotThereOf
<1>4. ThereOf(x)'
  BY <1>a, <1>b DEF ThereOf, Persists, Tentative, MadeOf
<1>5. GoneOf(x)'
  BY <1>a, <1>b DEF GoneOf, IsGone, Holds, Other
<1>6. TombsOf(x)'
  BY <1>a, <1>b DEF TombsOf, TombPersists, Tentative
<1>7. ShotOf(x)'
  BY DEF ShotOf, Reading
<1> QED
  BY <1>1, <1>2, <1>3, <1>4, <1>5, <1>6, <1>7

(* The listing of the records is the cut of a reading: nothing shown there *)
(* is taken back.                                                          *)
LEMMA ListRecordsKnows ==
  ASSUME CutInv, ReaderTypes, NEW x \in Readers, SnapOf(x), ListRecords(x)
  PROVE  SnapOf(x)'
<1> USE NoneIsNoVersion, SelectedAreRuns
<1>1. CASE RecordLitter
  <2>1. at'[x] = "done" /\ shot'[x] = None
    BY <1>1 DEF ListRecords, Give, ReaderTypes, SnapOf, ShotOf
  <2> QED
    BY <2>1, ReaderEnds
<1>2. CASE ~RecordLitter
  <2>a. /\ at[x] = "list" /\ at'[x] = "records"
        /\ todo'[x] = {r \in Runs : rec[r] # None}
        /\ sawDir'[x] = (invDir # "absent")
        /\ got'[x] = Blank /\ first'[x] = first[x] /\ shot'[x] = shot[x]
    BY <1>2 DEF ListRecords, Proceed, ReaderTypes
  <2>b. first[x] # None => mid'[x] = Manifest(SettledStore)
    BY DEF ListRecords, ReaderTypes
  <2>c. UNCHANGED <<rec, tomb, pc>>
    BY DEF ListRecords, vars
  <2>e. \A r \in Runs : /\ Blank.rec[r] = None /\ Blank.tomb[r] = None
                        /\ (ToRead(x, r)' <=> rec[r] # None)
    BY <2>a DEF Blank, ToRead
  <2>f. Reading(x)' /\ ReadingRecords(x)' /\ ~ReadingTombs(x)'
        /\ (Second(x)' <=> first[x] # None)
    BY <2>a DEF Reading, ReadingRecords, ReadingTombs, Second
  <2>g. \A r \in Selected : first[x] # None =>
          /\ mid'[x].rec[r] = rec[r] /\ mid'[x].tomb[r] = Settled(tomb[r])
          /\ rec[r] # None => Persists(rec[r], r)
    <3> SUFFICES ASSUME NEW r \in Selected, first[x] # None
                 PROVE  /\ mid'[x].rec[r] = rec[r]
                        /\ mid'[x].tomb[r] = Settled(tomb[r])
                        /\ rec[r] # None => Persists(rec[r], r)
      OBVIOUS
    <3>1. /\ mid'[x].rec[r] = SettledStore.rec[r]
          /\ mid'[x].tomb[r] = SettledStore.tomb[r]
      BY <2>b DEF Manifest
    <3>2. SettledStore.tomb[r] = Settled(tomb[r])
      BY DEF SettledStore
    <3> QED
      BY <1>2, <3>1, <3>2, ListedIsSettled
  <2>h. first[x] # None => FirstOf(x) /\ \A r \in Selected :
          SeenRecord(first[x].rec[r], r) /\ SeenTomb(first[x].tomb[r], r)
    BY <2>a DEF SnapOf, FirstOf
  <2>1. Known(x)'
    BY <2>a, <2>b, <2>f, SettledIsManifest DEF Known
  <2>2. GotOf(x)'
    BY <2>a, <2>e, <2>f DEF GotOf, SeenRecord, SeenTomb
  <2>3. FirstOf(x)'
    BY <2>a, <2>c, <2>h DEF FirstOf, SeenRecord, SeenTomb, WasSeen, Holds,
       TombPersists, Tentative
  <2>4. NotThereOf(x)'
    BY <2>a, <2>e, <2>f, <2>g DEF NotThereOf
  <2>5. ThereOf(x)'
    BY <2>c, <2>e, <2>f, <2>g DEF ThereOf, Persists, Tentative
  <2>6. GoneOf(x)'
    BY <2>a, <2>c, <2>e, <2>f, <2>g, <2>h DEF GoneOf, SeenRecord, WasSeen,
       IsGone, Holds, Other
  <2>7. TombsOf(x)'
    <3>1. ASSUME NEW r \in Selected, first[x] # None, first[x].tomb[r] # None
          PROVE  mid'[x].tomb[r] = first[x].tomb[r]
      BY <3>1, <2>g, <2>h DEF SeenTomb, TombPersists, Settled
    <3>2. ASSUME NEW r \in Selected, first[x] # None, mid'[x].tomb[r] # None
          PROVE  TombPersists(mid[x].tomb[r], r)' /\ sawDir'[x]
      <4>1. mid'[x].tomb[r] = tomb[r] /\ tomb[r] # None /\ ~Tentative(tomb[r])
        BY <3>2, <2>g DEF Settled
      <4>2. tomb[r] \in tombDisk[r]
        BY DEF CutInv, OwnInv, TombsInSight
      <4>3. invDir # "absent"
        BY <4>1, <4>2 DEF CutInv, TombsHaveDir
      <4> QED
        BY <4>1, <4>3, <2>a, <2>c DEF TombPersists, Tentative
    <3> QED
      BY <3>1, <3>2, <2>a, <2>f DEF TombsOf
  <2>8. ShotOf(x)'
    BY <2>a DEF SnapOf, ShotOf
  <2> QED
    BY <2>1, <2>2, <2>3, <2>4, <2>5, <2>6, <2>7, <2>8 DEF SnapOf
<1> QED
  BY <1>1, <1>2

(* A record is read: it is the one at the cut, or made of it.              *)
LEMMA ReadDocumentKnows ==
  ASSUME CutInv, ReaderTypes, NEW x \in Readers, SnapOf(x), ReadDocument(x)
  PROVE  SnapOf(x)'
<1> USE NoneIsNoVersion, SelectedAreRuns
<1>1. CASE Give(x, "unstable")
  <2>1. at'[x] = "done" /\ shot'[x] = None
    BY <1>1 DEF ReadDocument, Give, ReaderTypes, SnapOf, ShotOf
  <2> QED
    BY <2>1, ReaderEnds
<1>2. CASE Proceed(x, "records")
  <2>0. PICK r \in Runs : r = peek[x].run
    BY DEF ReadDocument, SnapOf, Known, Peeks
  <2>a. /\ at[x] = "record" /\ at'[x] = "records"
        /\ todo'[x] = todo[x] /\ peek'[x] = peek[x] /\ sawDir'[x] = sawDir[x]
        /\ first'[x] = first[x] /\ shot'[x] = shot[x] /\ mid'[x] = mid[x]
    BY <1>2 DEF ReadDocument, Proceed, ReaderTypes
  <2>b. /\ got' = [got EXCEPT ![x].rec[r] = rec[r]]
        /\ UNCHANGED <<rec, tomb, pc>>
    BY <1>2, <2>0 DEF ReadDocument, Proceed, Give, ReaderTypes, vars
  <2>c. /\ \A q \in Runs : /\ got'[x].rec[q] = IF q = r THEN rec[r]
                                               ELSE got[x].rec[q]
                           /\ got'[x].tomb[q] = got[x].tomb[q]
    BY <2>b DEF ReaderTypes, Image
  <2>d. \A q \in Runs : /\ ToRead(x, r)
                        /\ q # r => (ToRead(x, q)' <=> ToRead(x, q))
                        /\ ToRead(x, q)' => ToRead(x, q)
    BY <2>0, <2>a DEF ToRead
  <2>e. /\ Reading(x) /\ Reading(x)' /\ ReadingRecords(x)
        /\ ReadingRecords(x)' /\ ~ReadingTombs(x)'
        /\ (Second(x)' <=> Second(x))
    BY <2>a DEF Reading, ReadingRecords, ReadingTombs, Second
  <2>f. SeenRecord(rec[r], r)
    BY RecordShown DEF CutInv, SeenRecord, WasSeen, Holds
  <2>g. rec[r] \in Version \cup {None} /\ rec[r] # None => rec[r] \in Version
    BY DEF CutInv, StandsInv, TypeInv, TypeOK
  <2>1. Known(x)'
    BY <2>a, <2>e DEF SnapOf, Known
  <2>2. GotOf(x)'
    BY <2>b, <2>c, <2>e, <2>f DEF SnapOf, GotOf, SeenRecord, SeenTomb,
       WasSeen, Holds, TombPersists, Tentative
  <2>3. FirstOf(x)'
    BY <2>a, <2>b DEF SnapOf, FirstOf, SeenRecord, SeenTomb, WasSeen, Holds,
       TombPersists, Tentative
  <2>4. NotThereOf(x)'
    BY <2>a, <2>c, <2>d, <2>e DEF SnapOf, NotThereOf
  <2>5. ThereOf(x)'
    <3> SUFFICES ASSUME NEW q \in Selected, Second(x), mid[x].rec[q] # None
                 PROVE  /\ Persists(mid[x].rec[q], q)'
                        /\ (ReadingRecords(x)' /\ ToRead(x, q)')
                             \/ MadeOf(got'[x].rec[q], mid[x].rec[q])
      BY <2>a, <2>e DEF ThereOf, MadeOf
    <3>1. /\ Persists(mid[x].rec[q], q)
          /\ ToRead(x, q) \/ MadeOf(got[x].rec[q], mid[x].rec[q])
      BY DEF SnapOf, ThereOf
    <3>2. Persists(mid[x].rec[q], q)'
      BY <3>1, <2>a, <2>b DEF Persists, Tentative
    <3>3. CASE q = r
      <4>1. MadeOf(rec[r], mid[x].rec[q])
        BY <3>1, <3>3 DEF Persists, MadeOf
      <4> QED
        BY <3>2, <3>3, <4>1, <2>c
    <3>4. CASE q # r
      BY <3>1, <3>2, <3>4, <2>c, <2>d, <2>e
    <3> QED
      BY <3>3, <3>4
  <2>6. GoneOf(x)'
    <3> SUFFICES ASSUME NEW q \in Selected, NEW f \in Finishers, Second(x),
                        first[x].rec[q] # None, first[x].rec[q].finish = f,
                        Other(mid[x].rec[q], f)
                 PROVE  IsGone(f, q)' /\ Other(got'[x].rec[q], f)
      BY <2>a, <2>e DEF GoneOf, Other
    <3>1. IsGone(f, q) /\ Other(got[x].rec[q], f)
      BY DEF SnapOf, GoneOf
    <3>2. q = r => Other(rec[r], f)
      BY <3>1 DEF IsGone, Holds, Other
    <3> QED
      BY <3>1, <3>2, <2>b, <2>c DEF IsGone, Holds, Other
  <2>7. TombsOf(x)'
    BY <2>a, <2>b, <2>c, <2>e DEF SnapOf, TombsOf, TombPersists, Tentative
  <2>8. ShotOf(x)'
    BY <2>a DEF SnapOf, ShotOf
  <2> QED
    BY <2>1, <2>2, <2>3, <2>4, <2>5, <2>6, <2>7, <2>8 DEF SnapOf
<1> QED
  BY <1>1, <1>2 DEF ReadDocument

(* A reader goes from one directory to the next, with nothing left to read *)
(* in the first.                                                           *)
LEMMA ReaderTurns ==
  ASSUME ReaderTypes, NEW x \in Readers, SnapOf(x), UNCHANGED vars,
         Reading(x), Reading(x)', ~ReadingRecords(x)',
         at'[x] \notin {"record", "tomb"},
         \A r \in Runs : ~(ReadingRecords(x) /\ ToRead(x, r)),
         \A r \in Runs : ReadingTombs(x)' /\ ToRead(x, r)' =>
                           tomb[r] # None /\ ~Tentative(tomb[r]),
         Second(x) => \A r \in Selected : mid[x].tomb[r] # None =>
           \/ ReadingTombs(x)' /\ ToRead(x, r)'
           \/ got[x].tomb[r] # None,
         sawDir'[x] = sawDir[x], got'[x] = got[x], first'[x] = first[x],
         shot'[x] = shot[x], mid'[x] = mid[x]
  PROVE  SnapOf(x)'
<1> USE NoneIsNoVersion, SelectedAreRuns
<1>a. UNCHANGED <<rec, tomb, pc>>
  BY DEF vars
<1>b. Second(x)' <=> Second(x)
  BY DEF Second
<1> USE DEF SnapOf
<1>1. Known(x)'
  BY <1>b DEF Known, Reading
<1>2. GotOf(x)'
  BY <1>a DEF GotOf, SeenRecord, SeenTomb, WasSeen, Holds, TombPersists,
     Tentative
<1>3. FirstOf(x)'
  BY <1>a DEF FirstOf, SeenRecord, SeenTomb, WasSeen, Holds, TombPersists,
     Tentative, Reading
<1>4. NotThereOf(x)'
  BY <1>b DEF NotThereOf
<1>5. ThereOf(x)'
  BY <1>a, <1>b DEF ThereOf, Persists, Tentative, MadeOf
<1>6. GoneOf(x)'
  BY <1>a, <1>b DEF GoneOf, IsGone, Holds, Other
<1>7. TombsOf(x)'
  BY <1>a, <1>b DEF TombsOf, TombPersists, Tentative
<1>8. ShotOf(x)'
  BY DEF ShotOf, Reading
<1> QED
  BY <1>1, <1>2, <1>3, <1>4, <1>5, <1>6, <1>7, <1>8

(* A stat of a record adds nothing to what its reader knows,               *)
LEMMA StatRecordKnows ==
  ASSUME CutInv, ReaderTypes, NEW x \in Readers, SnapOf(x), StatRecord(x)
  PROVE  SnapOf(x)'
<1>1. PICK r \in todo[x] :
        /\ todo' = [todo EXCEPT ![x] = @ \ {r}]
        /\ \/ /\ rec[r] # None
              /\ peek' = [peek EXCEPT ![x] = [run |-> r, inode |-> rec[r]]]
              /\ Proceed(x, "record")
           \/ rec[r] = None /\ Give(x, "unstable") /\ UNCHANGED peek
  BY DEF StatRecord
<1>2. r \in Runs /\ rec[r] \in Version \cup {None}
  BY <1>1 DEF ReaderTypes, CutInv, StandsInv, TypeInv, TypeOK
<1>3. CASE Give(x, "unstable")
  <2>1. at'[x] = "done" /\ shot'[x] = None
    BY <1>3 DEF StatRecord, Give, ReaderTypes, SnapOf, ShotOf
  <2> QED
    BY <2>1, ReaderEnds
<1>4. CASE ~Give(x, "unstable")
  <2>1. /\ rec[r] # None /\ Proceed(x, "record")
        /\ peek' = [peek EXCEPT ![x] = [run |-> r, inode |-> rec[r]]]
    BY <1>1, <1>4
  <2>2. /\ at[x] = "records" /\ at'[x] = "record"
        /\ peek'[x] = [run |-> r, inode |-> rec[r]]
        /\ todo'[x] = todo[x] \ {r} /\ UNCHANGED vars
        /\ sawDir'[x] = sawDir[x] /\ got'[x] = got[x]
        /\ first'[x] = first[x] /\ shot'[x] = shot[x] /\ mid'[x] = mid[x]
    BY <1>1, <2>1 DEF StatRecord, Proceed, ReaderTypes
  <2>3. peek'[x] \in Peeks /\ peek'[x].run = r
    BY <1>2, <2>1, <2>2 DEF Peeks
  <2>4. \A q \in Runs : ToRead(x, q)' <=> ToRead(x, q)
    BY <1>1, <2>2, <2>3 DEF ToRead
  <2>5. /\ Reading(x) /\ Reading(x)' /\ ReadingRecords(x)
        /\ ReadingRecords(x)' /\ ~ReadingTombs(x) /\ ~ReadingTombs(x)'
    BY <2>2 DEF Reading, ReadingRecords, ReadingTombs
  <2>6. Known(x)'
    BY <2>2, <2>3, <2>5 DEF SnapOf, Known, Second
  <2> QED
    BY <2>2, <2>4, <2>5, <2>6, ReaderLooks
<1> QED
  BY <1>3, <1>4

(* The tombstones are listed after the records were read.                  *)
LEMMA ListTombsKnows ==
  ASSUME CutInv, ReaderTypes, NEW x \in Readers, SnapOf(x), ListTombs(x)
  PROVE  SnapOf(x)'
<1>a. /\ at[x] = "records" /\ todo[x] = {} /\ UNCHANGED vars
      /\ sawDir'[x] = sawDir[x] /\ got'[x] = got[x]
      /\ first'[x] = first[x] /\ shot'[x] = shot[x] /\ mid'[x] = mid[x]
  BY DEF ListTombs
<1>b. Reading(x) /\ \A r \in Runs : ~ToRead(x, r)
  BY <1>a DEF Reading, ToRead
<1>1. CASE ~sawDir[x] /\ Proceed(x, "end") /\ UNCHANGED todo
  <2>1. at'[x] = "end"
    BY <1>1 DEF Proceed, ReaderTypes
  <2>2. Reading(x)' /\ ~ReadingRecords(x)' /\ ~ReadingTombs(x)'
    BY <2>1 DEF Reading, ReadingRecords, ReadingTombs
  <2>3. Second(x) => \A r \in Selected : mid[x].tomb[r] = None
    BY <1>1 DEF SnapOf, TombsOf
  <2> QED
    BY <1>a, <1>b, <2>1, <2>2, <2>3, ReaderTurns
<1>2. CASE sawDir[x] /\ TombLitter
  <2>1. at'[x] = "done" /\ shot'[x] = None
    BY <1>2 DEF ListTombs, Give, ReaderTypes, SnapOf, ShotOf
  <2> QED
    BY <2>1, ReaderEnds
<1>3. CASE sawDir[x] /\ ~TombLitter
  <2>1. at'[x] = "tombs" /\ todo'[x] = {r \in Runs : tomb[r] # None}
    BY <1>3 DEF ListTombs, Proceed, ReaderTypes
  <2>2. Reading(x)' /\ ~ReadingRecords(x)' /\ ReadingTombs(x)'
    BY <2>1 DEF Reading, ReadingRecords, ReadingTombs
  <2>3. \A r \in Runs : ToRead(x, r)' <=> tomb[r] # None
    BY <2>1 DEF ToRead
  <2>4. Second(x) => \A r \in Selected : mid[x].tomb[r] # None
                                           => ToRead(x, r)'
    BY <2>3, SelectedAreRuns DEF SnapOf, TombsOf, TombPersists
  <2> QED
    BY <1>3, <1>a, <1>b, <2>1, <2>2, <2>3, <2>4, ListedTombs, ReaderTurns
<1> QED
  BY <1>1, <1>2, <1>3 DEF ListTombs

(* and neither does the stat of a tombstone.                               *)
LEMMA StatTombKnows ==
  ASSUME CutInv, ReaderTypes, NEW x \in Readers, SnapOf(x), StatTomb(x)
  PROVE  SnapOf(x)'
<1>a. /\ at[x] = "tombs" /\ UNCHANGED vars
      /\ sawDir'[x] = sawDir[x] /\ got'[x] = got[x]
      /\ first'[x] = first[x] /\ shot'[x] = shot[x] /\ mid'[x] = mid[x]
  BY DEF StatTomb
<1>b. Reading(x) /\ ~ReadingRecords(x) /\ ReadingTombs(x)
  BY <1>a DEF Reading, ReadingRecords, ReadingTombs
<1>1. CASE todo[x] = {} /\ Proceed(x, "end") /\ UNCHANGED <<todo, peek>>
  <2>1. at'[x] = "end"
    BY <1>1 DEF Proceed, ReaderTypes
  <2>2. Reading(x)' /\ ~ReadingRecords(x)' /\ ~ReadingTombs(x)'
    BY <2>1 DEF Reading, ReadingRecords, ReadingTombs
  <2>3. \A r \in Runs : ~ToRead(x, r)
    BY <1>1, <1>a DEF ToRead
  <2>4. Second(x) => \A r \in Selected : mid[x].tomb[r] # None
                                           => got[x].tomb[r] # None
    BY <1>b, <2>3, SelectedAreRuns DEF SnapOf, TombsOf
  <2> QED
    BY <1>a, <1>b, <2>1, <2>2, <2>4, ReaderTurns
<1>2. ASSUME NEW r \in todo[x], todo' = [todo EXCEPT ![x] = @ \ {r}],
             tomb[r] # None, Proceed(x, "tomb"),
             peek' = [peek EXCEPT ![x] = [run |-> r, inode |-> tomb[r]]]
      PROVE  SnapOf(x)'
  <2>1. r \in Runs /\ tomb[r] \in Invalidators
    BY <1>2 DEF ReaderTypes, CutInv, StandsInv, TypeInv, TypeOK
  <2>2. /\ at'[x] = "tomb" /\ todo'[x] = todo[x] \ {r}
        /\ peek'[x] = [run |-> r, inode |-> tomb[r]]
    BY <1>2 DEF Proceed, ReaderTypes
  <2>3. peek'[x] \in Peeks /\ peek'[x].run = r
    BY <2>1, <2>2 DEF Peeks
  <2>4. \A q \in Runs : ToRead(x, q)' <=> ToRead(x, q)
    BY <1>2, <1>a, <2>2, <2>3 DEF ToRead
  <2>5. Reading(x)' /\ ~ReadingRecords(x)' /\ ReadingTombs(x)'
    BY <2>2 DEF Reading, ReadingRecords, ReadingTombs
  <2>6. Known(x)'
    BY <1>a, <1>b, <2>2, <2>3, <2>5 DEF SnapOf, Known, Second
  <2> QED
    BY <1>a, <1>b, <2>4, <2>5, <2>6, ReaderLooks
<1>3. CASE Give(x, "unstable")
  <2>1. at'[x] = "done" /\ shot'[x] = None
    BY <1>3, <1>a DEF Give, ReaderTypes, SnapOf, ShotOf
  <2> QED
    BY <2>1, ReaderEnds
<1> QED
  BY <1>1, <1>2, <1>3 DEF StatTomb

(* A tombstone is read: it was settled when it was listed.                 *)
LEMMA ReadTombKnows ==
  ASSUME CutInv, ReaderTypes, NEW x \in Readers, SnapOf(x), ReadTomb(x)
  PROVE  SnapOf(x)'
<1> USE NoneIsNoVersion, SelectedAreRuns
<1>0. PICK r \in Runs : r = peek[x].run
  BY DEF ReadTomb, SnapOf, Known, Peeks
<1>1. CASE Give(x, "unstable") \/ Give(x, "dangling")
  <2>1. at'[x] = "done" /\ shot'[x] = None
    BY <1>1 DEF ReadTomb, Give, ReaderTypes, SnapOf, ShotOf
  <2> QED
    BY <2>1, ReaderEnds
<1>2. CASE Proceed(x, "tombs")
          /\ got' = [got EXCEPT ![x].tomb[peek[x].run] = tomb[peek[x].run]]
  <2>a. /\ at[x] = "tomb" /\ at'[x] = "tombs" /\ UNCHANGED <<rec, tomb, pc>>
        /\ todo'[x] = todo[x] /\ peek'[x] = peek[x] /\ sawDir'[x] = sawDir[x]
        /\ first'[x] = first[x] /\ shot'[x] = shot[x] /\ mid'[x] = mid[x]
    BY <1>2 DEF ReadTomb, Proceed, ReaderTypes, vars
  <2>b. got' = [got EXCEPT ![x].tomb[r] = tomb[r]]
    BY <1>0, <1>2
  <2>c. /\ \A q \in Runs : /\ got'[x].tomb[q] = IF q = r THEN tomb[r]
                                                ELSE got[x].tomb[q]
                           /\ got'[x].rec[q] = got[x].rec[q]
    BY <2>b DEF ReaderTypes, Image
  <2>d. \A q \in Runs : /\ ToRead(x, r)
                        /\ q # r => (ToRead(x, q)' <=> ToRead(x, q))
                        /\ ToRead(x, q)' => ToRead(x, q)
    BY <1>0, <2>a DEF ToRead
  <2>e. /\ Reading(x) /\ Reading(x)' /\ ReadingTombs(x)
        /\ ReadingTombs(x)' /\ ~ReadingRecords(x) /\ ~ReadingRecords(x)'
        /\ (Second(x)' <=> Second(x))
    BY <2>a DEF Reading, ReadingRecords, ReadingTombs, Second
  <2>f. tomb[r] # None /\ ~Tentative(tomb[r])
    BY <2>d, <2>e DEF SnapOf, GotOf
  <2>1. Known(x)'
    BY <2>a, <2>e DEF SnapOf, Known
  <2>2. GotOf(x)'
    BY <2>a, <2>c, <2>d, <2>e, <2>f DEF SnapOf, GotOf, SeenRecord, SeenTomb,
       WasSeen, Holds, TombPersists, Tentative
  <2>3. FirstOf(x)'
    BY <2>a DEF SnapOf, FirstOf, SeenRecord, SeenTomb, WasSeen, Holds,
       TombPersists, Tentative
  <2>4. NotThereOf(x)'
    BY <2>a, <2>c, <2>e DEF SnapOf, NotThereOf
  <2>5. ThereOf(x)'
    BY <2>a, <2>c, <2>e DEF SnapOf, ThereOf, Persists, Tentative, MadeOf
  <2>6. GoneOf(x)'
    BY <2>a, <2>c, <2>e DEF SnapOf, GoneOf, IsGone, Holds, Other
  <2>7. TombsOf(x)'
    <3>1. Second(x) => \A q \in Selected : mid[x].tomb[q] # None =>
            \/ ReadingTombs(x)' /\ ToRead(x, q)'
            \/ got'[x].tomb[q] # None
      BY <2>c, <2>d, <2>e, <2>f DEF SnapOf, TombsOf
    <3> QED
      BY <3>1, <2>a, <2>e DEF SnapOf, TombsOf, TombPersists, Tentative
  <2>8. ShotOf(x)'
    BY <2>a DEF SnapOf, ShotOf
  <2> QED
    BY <2>1, <2>2, <2>3, <2>4, <2>5, <2>6, <2>7, <2>8 DEF SnapOf
<1> QED
  BY <1>1, <1>2 DEF ReadTomb

(* Two readings with one manifest: it is that of the cut of the second.    *)
LEMMA SameIsCut ==
  ASSUME ReaderTypes, NEW x \in Readers, SnapOf(x), at[x] = "end",
         first[x] # None, first[x] = Manifest(got[x])
  PROVE  mid[x] = first[x]
<1> USE NoneIsNoVersion, SelectedAreRuns
<1>a. /\ Second(x) /\ ~ReadingRecords(x) /\ ~ReadingTombs(x)
      /\ first[x] \in Manifests /\ mid[x] \in Manifests
  BY DEF Second, Reading, ReadingRecords, ReadingTombs, SnapOf, Known,
     ReaderTypes
<1>b. \A r \in Selected : /\ first[x].rec[r] = got[x].rec[r]
                          /\ first[x].tomb[r] = got[x].tomb[r]
  BY DEF Manifest
<1>c. \A r \in Selected : /\ mid[x].rec[r] \in Version \cup {None}
                          /\ got[x].rec[r] \in Version \cup {None}
  BY <1>a, ReaderData
<1>1. ASSUME NEW r \in Selected PROVE mid[x].rec[r] = got[x].rec[r]
  <2>1. CASE mid[x].rec[r] = None
    BY <2>1, <1>a DEF SnapOf, NotThereOf
  <2>2. CASE mid[x].rec[r] # None
    <3>1. MadeOf(got[x].rec[r], mid[x].rec[r])
      BY <2>2, <1>a DEF SnapOf, ThereOf
    <3>2. CASE mid[x].rec[r].finish # None
      BY <3>1, <3>2 DEF MadeOf
    <3>3. CASE mid[x].rec[r].finish = None
      <4>1. /\ got[x].rec[r] \in Version /\ mid[x].rec[r] \in Version
            /\ got[x].rec[r].origin = mid[x].rec[r].origin
        BY <3>1, <2>2, <1>c DEF MadeOf
      <4>2. got[x].rec[r].finish \in Finishers \cup {None}
        BY <4>1 DEF Version
      <4>3. ASSUME NEW f \in Finishers, got[x].rec[r].finish = f PROVE FALSE
        <5>1. Other(mid[x].rec[r], f)
          BY <3>3 DEF Other
        <5>2. Other(got[x].rec[r], f)
          BY <5>1, <4>1, <4>3, <1>a, <1>b DEF SnapOf, GoneOf
        <5> QED
          BY <5>2, <4>1, <4>3 DEF Other
      <4> QED
        BY <4>1, <4>2, <4>3, <3>3 DEF Version
    <3> QED
      BY <3>2, <3>3
  <2> QED
    BY <2>1, <2>2
<1>2. ASSUME NEW r \in Selected PROVE mid[x].tomb[r] = got[x].tomb[r]
  BY <1>a, <1>b DEF SnapOf, TombsOf
<1> QED
  BY <1>1, <1>2, <1>a, <1>b DEF Manifests

(* Two equal readings make what is known the published snapshot.           *)
LEMMA EndReadingKnows ==
  ASSUME CutInv, ReaderTypes, NEW x \in Readers, SnapOf(x), EndReading(x)
  PROVE  SnapOf(x)'
<1> USE NoneIsNoVersion, SelectedAreRuns
<1>a. /\ at[x] = "end" /\ UNCHANGED <<rec, tomb, pc>> /\ shot[x] = None
      /\ mid'[x] = mid[x]
  BY DEF EndReading, vars, SnapOf, ShotOf
<1>1. CASE /\ first[x] = None
           /\ first' = [first EXCEPT ![x] = Manifest(got[x])]
           /\ Proceed(x, "list") /\ UNCHANGED shot
  <2>1. at'[x] = "list" /\ first'[x] = Manifest(got[x]) /\ shot'[x] = None
    BY <1>1, <1>a DEF Proceed, ReaderTypes
  <2>2. \A r \in Selected :
          /\ SeenRecord(got[x].rec[r], r) /\ SeenTomb(got[x].tomb[r], r)
          /\ first'[x].rec[r] = got[x].rec[r]
          /\ first'[x].tomb[r] = got[x].tomb[r]
    BY <1>a, <2>1 DEF SnapOf, GotOf, Reading, Manifest
  <2>3. FirstOf(x)'
    BY <1>a, <2>2 DEF FirstOf, SeenRecord, SeenTomb, WasSeen, Holds,
       TombPersists, Tentative
  <2>4. ~Reading(x)' /\ ~Second(x)'
    BY <2>1 DEF Reading, Second
  <2> QED
    BY <2>1, <2>3, <2>4 DEF SnapOf, Known, GotOf, NotThereOf, ThereOf,
       GoneOf, TombsOf, ShotOf
<1>2. CASE /\ first[x] = Manifest(got[x]) /\ Give(x, "ok")
           /\ shot' = [shot EXCEPT ![x] = first[x]]
  <2>1. at'[x] = "done" /\ shot'[x] = first[x]
    BY <1>2 DEF Give, ReaderTypes
  <2>2. first[x] = None \/ mid[x] = first[x]
    BY <1>2, <1>a, SameIsCut
  <2> QED
    BY <2>1, <2>2, <1>a, ReaderEnds
<1>3. CASE Give(x, "changed") /\ UNCHANGED shot
  <2>1. at'[x] = "done" /\ shot'[x] = None
    BY <1>3, <1>a DEF Give, ReaderTypes
  <2> QED
    BY <2>1, ReaderEnds
<1> QED
  BY <1>1, <1>2, <1>3 DEF EndReading

(* The step of a reader keeps what it knows.                               *)
LEMMA ReaderKnows ==
  ASSUME CutInv, ReaderTypes, NEW x \in Readers, SnapOf(x), ReaderStep(x)
  PROVE  SnapOf(x)'
<1>1. CASE Begin(x)
  <2>1. /\ at[x] = "idle" /\ at'[x] = "list" /\ first'[x] = first[x]
        /\ shot'[x] = shot[x]
    BY <1>1 DEF Begin, Proceed, ReaderTypes
  <2>2. first[x] = None /\ shot[x] = None
    BY <2>1 DEF SnapOf, Known, ShotOf
  <2> QED
    BY <2>1, <2>2 DEF SnapOf, Known, GotOf, FirstOf, NotThereOf, ThereOf,
       GoneOf, TombsOf, ShotOf, Reading, Second
<1> QED
  BY <1>1, ListRecordsKnows, StatRecordKnows, ReadDocumentKnows,
     ListTombsKnows, StatTombKnows, ReadTombKnows, EndReadingKnows
  DEF ReaderStep

-----------------------------------------------------------------------------
(* A published snapshot shows the store as it was at one moment.           *)

(* The store does not notice its readers.                                  *)
LEMMA StoreOfReaders == [ReadersNext]_<<vars, readers>> => [Next]_vars
<1>1. \A x \in Readers : ReaderStep(x) => UNCHANGED vars
  BY DEF ReaderStep, Begin, ListRecords, StatRecord, ReadDocument, ListTombs,
     StatTomb, ReadTomb, EndReading
<1> QED
  BY <1>1 DEF ReadersNext, StoreStep, PowerLoss, AllDone, Next

(* Nothing has been read at first.                                         *)
LEMMA SnapshotInit == ReadersInit => SnapshotInv
<1>1. ReadersInit => ReaderTypes
  BY DEF ReadersInit, ReaderTypes, ReaderStages, Blank, Image
<1>2. ReadersInit => \A x \in Readers : SnapOf(x)
  BY DEF ReadersInit, SnapOf, Known, GotOf, FirstOf, NotThereOf, ThereOf,
     GoneOf, TombsOf, ShotOf, Reading, Second
<1> QED
  BY <1>1, <1>2, CutInit DEF ReadersInit, SnapshotInv, SnapInv

(* Each step of the store and of a reader keeps what readers know.         *)
LEMMA SnapshotStep ==
  ASSUME ~EarlyCallers, SnapshotInv, [ReadersNext]_<<vars, readers>>
  PROVE  SnapshotInv'
<1>a. /\ CutInv /\ ReaderTypes /\ \A x \in Readers : SnapOf(x)
      /\ tomb \in [Runs -> Invalidators \cup {None}]
  BY DEF SnapshotInv, SnapInv, CutInv, StandsInv, TypeInv, TypeOK
<1>1. CutInv'
  BY <1>a, StoreOfReaders, CutStep
<1>2. CASE (StoreStep \/ UNCHANGED vars) /\ UNCHANGED readers
  <2>1. ReaderTypes'
    BY <1>a, <1>2 DEF readers, ReaderTypes
  <2>2. \A r \in Runs : Keeping(r)
    BY <1>a, <1>2, StoreKeeps
  <2>3. ASSUME NEW x \in Readers PROVE SnapOf(x)'
    BY <1>a, <1>2, <2>2, ReaderKeeps DEF readers
  <2> QED
    BY <1>1, <2>1, <2>3 DEF SnapshotInv, SnapInv
<1>3. ASSUME NEW x \in Readers, ReaderStep(x) PROVE SnapshotInv'
  <2>1. ReaderTypes'
    BY <1>a, <1>3, ReaderTypesStep DEF SnapOf
  <2>2. SnapOf(x)'
    BY <1>a, <1>3, ReaderKnows
  <2>3. ASSUME NEW y \in Readers \ {x} PROVE SnapOf(y)'
    <3>1. UNCHANGED vars
      BY <1>a, <1>3, ReaderAlone
    <3>2. \A r \in Runs : Keeping(r)
      BY <1>a, <3>1, StoreKeeps
    <3>3. /\ at'[y] = at[y] /\ todo'[y] = todo[y] /\ peek'[y] = peek[y]
          /\ sawDir'[y] = sawDir[y] /\ got'[y] = got[y]
          /\ first'[y] = first[y] /\ shot'[y] = shot[y] /\ mid'[y] = mid[y]
      BY <1>a, <1>3, ReaderAlone
    <3> QED
      BY <1>a, <3>2, <3>3, ReaderKeeps
  <2> QED
    BY <1>1, <2>1, <2>2, <2>3 DEF SnapshotInv, SnapInv
<1>4. CASE PowerLoss
  <2>1. /\ \A x \in Readers : at'[x] = IF at[x] = "idle" THEN "idle"
                                       ELSE "done"
        /\ UNCHANGED <<todo, peek, sawDir, got, first, shot, mid>>
    BY <1>4 DEF PowerLoss
  <2>2. ReaderTypes'
    BY <1>a, <1>4, <2>1 DEF PowerLoss, ReaderTypes, ReaderStages
  <2>3. ASSUME NEW x \in Readers, at[x] = "idle" PROVE SnapOf(x)'
    <3>1. at'[x] = "idle" /\ first'[x] = None /\ shot'[x] = None
      BY <1>a, <2>1, <2>3 DEF SnapOf, Known, ShotOf
    <3> QED
      BY <3>1 DEF SnapOf, Known, GotOf, FirstOf, NotThereOf, ThereOf, GoneOf,
         TombsOf, ShotOf, Reading, Second
  <2>4. ASSUME NEW x \in Readers, at[x] # "idle" PROVE SnapOf(x)'
    <3>1. at'[x] = "done" /\ (shot'[x] = None \/ shot'[x] = mid'[x])
      BY <1>a, <2>1, <2>4 DEF SnapOf, ShotOf
    <3> QED
      BY <3>1, ReaderEnds
  <2> QED
    BY <1>1, <2>2, <2>3, <2>4 DEF SnapshotInv, SnapInv
<1> QED
  BY <1>2, <1>3, <1>4 DEF ReadersNext, AllDone, StoreStep

(* A published snapshot shows, for every query, the store as it was at one *)
(* moment: when the second reading of prepare_snapshot listed the records. *)
(* It holds through any number of calls, kills, failing system calls and   *)
(* power losses, as long as no run is finished before its start returned.  *)
THEOREM SnapshotOfOne ==
  ASSUME ~EarlyCallers PROVE ReadersSpec => []SnapshotOfOneStore
<1>1. SnapshotInv => SnapshotOfOneStore
  BY DEF SnapshotInv, SnapInv, SnapOf, ShotOf, SnapshotOfOneStore
<1>2. SnapshotInv /\ [ReadersNext]_<<vars, readers>> => SnapshotInv'
  BY SnapshotStep
<1> QED
  BY <1>1, <1>2, SnapshotInit, PTL DEF ReadersSpec

-----------------------------------------------------------------------------
(* What a published snapshot shows is not taken back.                      *)

(* What is sure of a record stays so in every step of a call.              *)
LEMMA SureKeeps ==
  ASSUME NEW v \in Version, NEW r \in Runs, Sure(v, r), Persists(v, r)',
         disk'[r] \subseteq disk[r] \cup {rec'[r]}
  PROVE  Sure(v, r)'
  BY DEF Sure, MadeOf, Persists

(* Where no system call fails, a start drops its temporary when durable,   *)
LEMMA StartsStaySure ==
  ASSUME MaxFaults = 0, CutInv, CutInv', StartsAreSure, NEW c \in Calls,
         OthersKeep(c), StoreRule(c)
  PROVE  StartsAreSure'
<1> USE CallsDisjoint, NoneIsNoVersion
<1> SUFFICES ASSUME NEW r \in Runs, rec'[r] # None
             PROVE  \/ rec'[r].origin \in temps'
                    \/ \A d \in disk'[r] :
                         d # None /\ d.origin = rec'[r].origin
  BY DEF StartsAreSure
<1>a. RecordRule(c, r) /\ DiskRule(r) /\ DropRule(c)
  BY DEF StoreRule, RunRules
<1>1. CASE rec[r] = None /\ c \in temps' /\ rec'[r] = Draft(c)
  BY <1>1 DEF Draft
<1>2. CASE rec[r] # None /\ rec'[r].origin = rec[r].origin
  <2>1. PICK s \in Starters : s = rec[r].origin
    BY <1>2, RecordShown DEF CutInv
  <2>2. Shown(s) /\ run[s] = r
    BY <1>2, <2>1, RecordShown DEF CutInv
  <2>3. CASE s \in temps'
    BY <1>2, <2>1, <2>3
  <2>4. CASE s \in temps /\ s \notin temps'
    <3>1. c = s /\ pc[s] = "s.clean"
      BY <2>2, <2>4, <1>a DEF OthersKeep, DropRule
    <3>2. \A d \in disk[r] : d # None /\ d.origin = s
      BY <2>2, <3>1 DEF CutInv, StandsInv, CommitInv, StartCommitted
    <3> QED
      BY <3>2, <1>2, <1>a, <2>1 DEF DiskRule
  <2>5. CASE s \notin temps
    <3>1. \A d \in disk[r] : d # None /\ d.origin = s
      BY <1>2, <2>1, <2>5 DEF StartsAreSure
    <3> QED
      BY <3>1, <1>2, <1>a, <2>1 DEF DiskRule
  <2> QED
    BY <2>3, <2>4, <2>5
<1> QED
  BY <1>1, <1>2, <1>a DEF RecordRule

(* and a finish its backup.                                                *)
LEMMA FinishesStaySure ==
  ASSUME MaxFaults = 0, CutInv, CutInv', FinishesAreSure, NEW c \in Calls,
         OthersKeep(c), StoreRule(c)
  PROVE  FinishesAreSure'
<1> USE CallsDisjoint, NoneIsNoVersion
<1> SUFFICES ASSUME NEW r \in Runs, rec'[r] # None, rec'[r].finish # None
             PROVE  \/ backup'[rec'[r].finish] # None
                    \/ disk'[r] = {rec'[r]}
  BY DEF FinishesAreSure
<1>a. RecordRule(c, r) /\ DiskRule(r) /\ DropRule(c)
  BY DEF StoreRule, RunRules
<1>b. rec'[r] \in disk'[r]
  BY DEF CutInv, StandsInv, CommitInv, DiskHasRecord
<1>1. CASE rec'[r] = rec[r]
  <2>1. PICK f \in Finishers : f = rec[r].finish
    BY <1>1, RecordShown DEF CutInv
  <2>2. Shown(f) /\ run[f] = r /\ pc[f] # "f.undosync"
    BY <1>1, <2>1, RecordShown DEF CutInv
  <2>3. InSight(rec[r])'
    BY <1>1 DEF CutInv, OwnInv, RecordsInSight
  <2>4. pc'[f] # "f.undosync"
    BY <2>1, <2>3, <1>1 DEF InSight
  <2>5. CASE disk[r] = {rec[r]}
    BY <2>5, <1>1, <1>a, <1>b DEF DiskRule
  <2>6. CASE backup[f] # None /\ backup'[f] = None
    <3>1. c = f /\ pc[f] = "f.clean"
      BY <2>2, <2>4, <2>6, <1>a DEF OthersKeep, DropRule
    <3>2. disk[r] = {rec[r]}
      BY <2>2, <3>1 DEF CutInv, StandsInv, CommitInv, FinishCommitted
    <3> QED
      BY <3>2, <2>5
  <2>7. backup[f] # None \/ disk[r] = {rec[r]}
    BY <1>1, <2>1 DEF FinishesAreSure
  <2> QED
    BY <2>1, <2>5, <2>6, <2>7, <1>1
<1>2. CASE pc[c] = "f.replace" /\ backup'[c] # None /\ rec'[r].finish = c
  BY <1>2
<1>3. CASE rec'[r] = Draft(c)
  BY <1>3 DEF Draft
<1> QED
  BY <1>1, <1>2, <1>3, <1>a DEF RecordRule

(* In a strict listing every record is the one the disk will have.         *)
LEMMA ListedIsSure ==
  ASSUME CutInv, StartsAreSure, FinishesAreSure, ~RecordLitter,
         NEW r \in Runs, rec[r] # None
  PROVE  Sure(rec[r], r)
<1>1. /\ rec[r].origin \in Starters
      /\ rec[r].finish \in Finishers \cup {None}
  BY RecordShown DEF CutInv
<1>2. \A d \in disk[r] : d # None /\ d.origin = rec[r].origin
  BY <1>1 DEF StartsAreSure, RecordLitter
<1>3. rec[r].finish # None => disk[r] = {rec[r]}
  BY <1>1 DEF FinishesAreSure, RecordLitter
<1> QED
  BY <1>2, <1>3 DEF Sure, MadeOf

(* Only a listing of the records begins to compare, and only the end of a  *)
(* second reading publishes.                                               *)
LEMMA ReaderMoves ==
  ASSUME CutInv, ReaderTypes, NEW x \in Readers, SnapOf(x), ReaderStep(x)
  PROVE  /\ \/ ListRecords(x)
            \/ mid'[x] = mid[x] /\ (Second(x)' => Second(x))
         /\ \/ shot'[x] = shot[x]
            \/ shot'[x] # None => Second(x) /\ shot'[x] = mid[x]
<1>1. CASE Begin(x)
  BY <1>1 DEF Begin, Proceed, Second, Reading, ReaderTypes
<1>2. CASE ListRecords(x)
  BY <1>2 DEF ListRecords
<1>3. CASE StatRecord(x)
  BY <1>3 DEF StatRecord, Second, Reading
<1>4. CASE ReadDocument(x)
  BY <1>4 DEF ReadDocument, Second, Reading
<1>5. CASE ListTombs(x)
  BY <1>5 DEF ListTombs, Second, Reading
<1>6. CASE StatTomb(x)
  BY <1>6 DEF StatTomb, Second, Reading
<1>7. CASE ReadTomb(x)
  BY <1>7 DEF ReadTomb, Second, Reading
<1>8. CASE EndReading(x)
  <2>1. at[x] = "end" /\ mid'[x] = mid[x]
    BY <1>8 DEF EndReading
  <2>2. CASE at'[x] = "list" /\ shot'[x] = shot[x]
    BY <2>1, <2>2 DEF Second, Reading
  <2>3. CASE /\ first[x] = Manifest(got[x]) /\ Give(x, "ok")
             /\ shot' = [shot EXCEPT ![x] = first[x]]
    <3>1. at'[x] = "done" /\ shot'[x] = first[x]
      BY <2>3 DEF Give, ReaderTypes
    <3>2. first[x] # None => Second(x) /\ mid[x] = first[x]
      BY <2>1, <2>3, SameIsCut DEF Second, Reading
    <3> QED
      BY <2>1, <3>1, <3>2 DEF Second, Reading
  <2>4. CASE Give(x, "changed") /\ shot'[x] = shot[x]
    BY <2>1, <2>4 DEF Give, Second, Reading, ReaderTypes
  <2> QED
    BY <1>8, <2>2, <2>3, <2>4 DEF EndReading, Proceed, ReaderTypes
<1> QED
  BY <1>1, <1>2, <1>3, <1>4, <1>5, <1>6, <1>7, <1>8 DEF ReaderStep

(* Nothing has been published at first.                                    *)
LEMMA StandInit == ReadersInit => StandInv
  BY DEF ReadersInit, Init, StandInv, ShotStands, SureInv, StartsAreSure,
     FinishesAreSure, MidIsSure, ShotIsSure, Second, Reading

(* Beside the store's own steps.                                           *)
LEMMA StandStoreStep ==
  ASSUME SnapshotInv, SnapshotInv', StandInv, UNCHANGED readers,
         \A r \in Runs : Keeping(r), budget'.outages = budget.outages,
         MaxFaults = 0 => /\ StartsAreSure' /\ FinishesAreSure'
                          /\ \A r \in Runs : DiskRule(r)
  PROVE  StandInv'
<1> USE NoneIsNoVersion, SelectedAreRuns
<1>a. CutInv /\ ReaderTypes /\ \A x \in Readers : SnapOf(x) /\ SnapOf(x)'
  BY DEF SnapshotInv, SnapInv
<1>b. UNCHANGED <<at, first, mid, shot>>
  BY DEF readers
<1>1. ASSUME NEW x \in Readers PROVE ShotStands(x)'
  <2> SUFFICES ASSUME NEW r \in Selected, shot[x] # None
               PROVE  /\ shot[x].rec[r] # None =>
                           Persists(shot[x].rec[r], r)'
                      /\ shot[x].tomb[r] # None =>
                           \/ TombPersists(shot[x].tomb[r], r)'
                           \/ budget'.outages > 0
    BY <1>b DEF ShotStands, Persists, TombPersists
  <2>1. /\ shot[x].rec[r] \in Version \cup {None}
        /\ shot[x].tomb[r] \in Invalidators \cup {None}
    BY <1>a, ReaderData
  <2>2. /\ shot[x].rec[r] # None => Persists(shot[x].rec[r], r)
        /\ shot[x].tomb[r] # None =>
             TombPersists(shot[x].tomb[r], r) \/ budget.outages > 0
    BY DEF StandInv, ShotStands
  <2>3. PICK v \in Version \cup {None}, d \in Invalidators \cup {None} :
          v = shot[x].rec[r] /\ d = shot[x].tomb[r]
    BY <2>1
  <2>4. /\ v # None => Persists(v, r)'
        /\ d # None => TombPersists(d, r)' \/ budget'.outages > 0
    BY <2>2, <2>3 DEF Keeping
  <2>5. /\ shot'[x].rec[r] = v /\ shot'[x].tomb[r] = d
    BY <2>3, <1>b
  <2> QED
    BY <2>3, <2>4, <2>5, <1>b DEF Persists, TombPersists
<1>2. ASSUME MaxFaults = 0, NEW x \in Readers
      PROVE  MidIsSure(x)' /\ ShotIsSure(x)'
  <2>a. MidIsSure(x) /\ ShotIsSure(x)
    BY <1>2 DEF StandInv, SureInv
  <2>b. Second(x)' <=> Second(x)
    BY <1>b DEF Second, Reading
  <2>c. \A v \in Version : \A r \in Runs :
          Sure(v, r) /\ Persists(v, r) => Sure(v, r)'
    BY <1>2, SureKeeps DEF DiskRule, Keeping
  <2>1. ASSUME NEW r \in Selected, Second(x), mid[x].rec[r] # None
        PROVE  Sure(mid[x].rec[r], r)'
    <3>1. PICK v \in Version : v = mid[x].rec[r]
      BY <2>1, <1>a, ReaderData DEF SnapOf, Known
    <3>2. Sure(v, r) /\ Persists(v, r)
      BY <2>1, <2>a, <3>1, <1>a DEF MidIsSure, SnapOf, ThereOf
    <3>3. Sure(v, r)' /\ mid'[x].rec[r] = v
      BY <2>c, <3>1, <3>2, <1>b
    <3> QED
      BY <3>3 DEF Sure
  <2>2. ASSUME NEW r \in Selected, shot[x] # None, shot[x].rec[r] # None
        PROVE  Sure(shot[x].rec[r], r)'
    <3>1. PICK v \in Version : v = shot[x].rec[r]
      BY <2>2, <1>a, ReaderData
    <3>2. Sure(v, r) /\ Persists(v, r)
      BY <2>2, <2>a, <3>1 DEF ShotIsSure, StandInv, ShotStands
    <3>3. Sure(v, r)' /\ shot'[x].rec[r] = v
      BY <2>c, <3>1, <3>2, <1>b
    <3> QED
      BY <3>3 DEF Sure
  <2>3. MidIsSure(x)'
    BY <2>1, <2>b, <1>b DEF MidIsSure, Sure
  <2>4. ShotIsSure(x)'
    BY <2>2, <1>b DEF ShotIsSure, Sure
  <2> QED
    BY <2>3, <2>4
<1> QED
  BY <1>1, <1>2 DEF StandInv, SureInv

(* A step of a reader: what it publishes was settled and sure at the cut.  *)
LEMMA StandReaderStep ==
  ASSUME SnapshotInv, StandInv, NEW x \in Readers, ReaderStep(x)
  PROVE  StandInv'
<1> USE NoneIsNoVersion, SelectedAreRuns
<1>a. CutInv /\ ReaderTypes /\ SnapOf(x)
  BY DEF SnapshotInv, SnapInv
<1>b. /\ UNCHANGED <<rec, disk, tomb, temps, backup, pc, budget>>
      /\ \A y \in Readers \ {x} :
           /\ at'[y] = at[y] /\ first'[y] = first[y] /\ shot'[y] = shot[y]
           /\ mid'[y] = mid[y]
  BY <1>a, ReaderAlone DEF vars
<1>c. /\ \/ ListRecords(x)
         \/ mid'[x] = mid[x] /\ (Second(x)' => Second(x))
      /\ \/ shot'[x] = shot[x]
         \/ shot'[x] # None => Second(x) /\ shot'[x] = mid[x]
  BY <1>a, ReaderMoves
<1>1. ASSUME NEW y \in Readers PROVE ShotStands(y)'
  <2>1. CASE shot'[y] = shot[y]
    BY <2>1, <1>b DEF StandInv, ShotStands, Persists, TombPersists, Tentative
  <2>2. CASE shot'[y] # shot[y]
    <3>1. y = x /\ (shot'[x] # None => Second(x) /\ shot'[x] = mid[x])
      BY <2>2, <1>b, <1>c
    <3>2. Second(x) => \A r \in Selected :
            /\ mid[x].rec[r] # None => Persists(mid[x].rec[r], r)
            /\ mid[x].tomb[r] # None => TombPersists(mid[x].tomb[r], r)
      BY <1>a DEF SnapOf, ThereOf, TombsOf
    <3> QED
      BY <3>1, <3>2, <1>b DEF ShotStands, Persists, TombPersists, Tentative
  <2> QED
    BY <2>1, <2>2
<1>2. ASSUME MaxFaults = 0 PROVE SureInv'
  <2>a. SureInv
    BY <1>2 DEF StandInv
  <2>1. StartsAreSure' /\ FinishesAreSure'
    BY <2>a, <1>b DEF SureInv, StartsAreSure, FinishesAreSure
  <2>2. ASSUME NEW y \in Readers PROVE MidIsSure(y)'
    <3>1. CASE mid'[y] = mid[y] /\ (Second(y)' => Second(y))
      BY <3>1, <2>a, <1>b DEF SureInv, MidIsSure, Sure, MadeOf
    <3>2. CASE y = x /\ ListRecords(x)
      <4>1. CASE RecordLitter
        BY <3>2, <4>1, <1>a DEF ListRecords, Give, ReaderTypes, MidIsSure,
           Second, Reading
      <4>2. CASE ~RecordLitter
        <5>1. first'[x] # None => mid'[x] = Manifest(SettledStore)
          BY <3>2, <1>a DEF ListRecords, ReaderTypes
        <5>2. ASSUME NEW r \in Selected, first'[x] # None
              PROVE  mid'[x].rec[r] = rec[r]
                     /\ (rec[r] # None => Sure(rec[r], r))
          <6>1. mid'[x].rec[r] = SettledStore.rec[r]
            BY <5>1, <5>2 DEF Manifest
          <6>2. SettledStore.rec[r] = rec[r]
            BY <4>2, <1>a, ListedIsSettled
          <6>3. rec[r] # None => Sure(rec[r], r)
            BY <4>2, <1>a, <2>a, ListedIsSure DEF SureInv
          <6> QED
            BY <6>1, <6>2, <6>3
        <5> QED
          BY <5>2, <3>2, <1>b DEF MidIsSure, Second, Sure, MadeOf
      <4> QED
        BY <4>1, <4>2
    <3>3. y # x => mid'[y] = mid[y] /\ (Second(y)' => Second(y))
      BY <1>b DEF Second, Reading
    <3> QED
      BY <3>1, <3>2, <3>3, <1>c
  <2>3. ASSUME NEW y \in Readers PROVE ShotIsSure(y)'
    <3>1. CASE shot'[y] = shot[y]
      BY <3>1, <2>a, <1>b DEF SureInv, ShotIsSure, Sure, MadeOf
    <3>2. CASE shot'[y] # shot[y]
      <4>1. y = x /\ (shot'[x] # None => Second(x) /\ shot'[x] = mid[x])
        BY <3>2, <1>b, <1>c
      <4> QED
        BY <4>1, <2>a, <1>b DEF SureInv, MidIsSure, ShotIsSure, Sure, MadeOf
    <3> QED
      BY <3>1, <3>2
  <2> QED
    BY <2>1, <2>2, <2>3 DEF SureInv
<1> QED
  BY <1>1, <1>2 DEF StandInv

(* A power loss, when no system call has failed before.                    *)
LEMMA StandOutage ==
  ASSUME MaxFaults = 0, SnapshotInv, StandInv, PowerLoss PROVE StandInv'
<1> USE NoneIsNoVersion, SelectedAreRuns
<1>a. /\ CutInv /\ ReaderTypes /\ SureInv /\ \A x \in Readers : SnapOf(x)
      /\ budget \in [faults : Nat, swaps : Nat, kills : Nat, outages : Nat]
  BY DEF SnapshotInv, SnapInv, StandInv, CutInv, StandsInv, TypeInv, TypeOK
<1>1. /\ \A r \in Runs : rec'[r] \in disk[r] /\ disk'[r] = {rec'[r]}
      /\ budget'.outages > 0
      /\ \A x \in Readers : at'[x] \in {"idle", "done"}
      /\ shot' = shot
  BY <1>a DEF PowerLoss, Outage
<1>2. \A c : c \in Calls => ~Tentative(c)'
  BY DEF PowerLoss, Outage, Live, Tentative
<1>3. ASSUME NEW v \in Version, NEW r \in Runs, Sure(v, r), Persists(v, r)
      PROVE  Persists(v, r)' /\ Sure(v, r)'
  <2>1. MadeOf(rec'[r], v)
    BY <1>1, <1>3 DEF Sure
  <2>2. ~Tentative(v.origin)' /\ (v.finish # None => ~Tentative(v.finish)')
    BY <1>2 DEF Version
  <2> QED
    BY <1>1, <2>1, <2>2 DEF Persists, Sure, MadeOf
<1>4. StartsAreSure' /\ FinishesAreSure'
  BY <1>1 DEF StartsAreSure, FinishesAreSure
<1>5. ASSUME NEW x \in Readers
      PROVE  MidIsSure(x)' /\ ShotIsSure(x)' /\ ShotStands(x)'
  <2>1. ~Second(x)'
    BY <1>1 DEF Second, Reading
  <2>2. ASSUME NEW r \in Selected, shot[x] # None, shot[x].rec[r] # None
        PROVE  Persists(shot[x].rec[r], r)' /\ Sure(shot[x].rec[r], r)'
    <3>1. PICK v \in Version : v = shot[x].rec[r]
      BY <2>2, <1>a, ReaderData
    <3>2. Sure(v, r) /\ Persists(v, r)
      BY <2>2, <3>1, <1>a DEF SureInv, ShotIsSure, StandInv, ShotStands
    <3>3. Persists(v, r)' /\ Sure(v, r)' /\ shot'[x].rec[r] = v
      BY <1>1, <1>3, <3>1, <3>2
    <3> QED
      BY <3>3 DEF Persists, Sure
  <2>3. ShotIsSure(x)'
    BY <2>2, <1>1 DEF ShotIsSure, Sure
  <2>4. ShotStands(x)'
    BY <2>2, <1>1 DEF ShotStands, Persists
  <2> QED
    BY <2>1, <2>3, <2>4 DEF MidIsSure
<1> QED
  BY <1>4, <1>5 DEF StandInv, SureInv

(* Each step keeps what was published in place.                            *)
LEMMA StandStep ==
  ASSUME ~EarlyCallers, MaxFaults = 0 \/ MaxOutages = 0,
         SnapshotInv, StandInv, [ReadersNext]_<<vars, readers>>
  PROVE  StandInv'
<1>a. CutInv /\ SnapshotInv' /\ CutInv'
  BY SnapshotStep DEF SnapshotInv
<1>1. ASSUME NEW c \in Calls, CallStep(c) \/ Kill(c), UNCHANGED readers
      PROVE  StandInv'
  <2>1. OthersKeep(c) /\ StoreRule(c)
    BY <1>1, <1>a, OneMoves, CallRules DEF CutInv, StandsInv
  <2>2. \A r \in Runs : Keeping(r)
    BY <2>1, <1>a, RulesKeep
  <2>3. MaxFaults = 0 => /\ StartsAreSure' /\ FinishesAreSure'
                         /\ \A r \in Runs : DiskRule(r)
    BY <2>1, <1>a, StartsStaySure, FinishesStaySure
    DEF StandInv, SureInv, StoreRule, RunRules
  <2> QED
    BY <1>1, <1>a, <2>1, <2>2, <2>3, StandStoreStep DEF StoreRule
<1>2. ASSUME /\ UNCHANGED <<rec, disk, tomb, temps, backup, pc, readers>>
             /\ \A r \in Runs : Keeping(r)
             /\ budget'.outages = budget.outages
      PROVE  StandInv'
  <2>1. MaxFaults = 0 => /\ StartsAreSure' /\ FinishesAreSure'
                         /\ \A r \in Runs : DiskRule(r)
    BY <1>2 DEF StandInv, SureInv, StartsAreSure, FinishesAreSure, DiskRule
  <2> QED
    BY <1>2, <1>a, <2>1, StandStoreStep
<1>3. ASSUME NEW r \in Runs, SwapLock(r), UNCHANGED readers PROVE StandInv'
  <2>1. budget'.outages = budget.outages
    BY <1>3 DEF SwapLock, CutInv, StandsInv, TypeInv, TypeOK, SnapshotInv
  <2>2. \A q \in Runs : Keeping(q)
    BY <1>3, <1>a, StoreKeeps DEF StoreStep
  <2> QED
    BY <1>2, <1>3, <2>1, <2>2 DEF SwapLock, dirVars
<1>4. ASSUME UNCHANGED <<vars, readers>> PROVE StandInv'
  <2>1. \A r \in Runs : Keeping(r)
    BY <1>4, <1>a, StoreKeeps
  <2> QED
    BY <1>2, <1>4, <2>1 DEF vars
<1>5. ASSUME NEW x \in Readers, ReaderStep(x) PROVE StandInv'
  BY <1>5, StandReaderStep
<1>6. ASSUME PowerLoss PROVE StandInv'
  <2>1. MaxOutages # 0
    BY <1>6, <1>a DEF PowerLoss, Outage, CutInv, StandsInv, TypeInv, TypeOK
  <2> QED
    BY <1>6, <2>1, StandOutage
<1> QED
  BY <1>1, <1>3, <1>4, <1>5, <1>6 DEF ReadersNext, StoreStep, AllDone

(* Nothing of a published snapshot is taken back, not even by a power loss *)
(* but for a tombstone that goes with its directory: either no system call *)
(* fails or the power stays.  With a failing fsync and a failing roll-back *)
(* before a power loss it is not so: a start that reported that its record *)
(* may remain has dropped its temporary, and the record is not durable.    *)
THEOREM SnapshotsStand ==
  ASSUME ~EarlyCallers, MaxFaults = 0 \/ MaxOutages = 0
  PROVE  ReadersSpec => []SnapshotStands
<1>1. ASSUME StandInv PROVE SnapshotStands
  BY <1>1 DEF StandInv, ShotStands, Persists, TombPersists, IsDraft,
     SnapshotStands
<1>2. SnapshotInv /\ StandInv /\ [ReadersNext]_<<vars, readers>>
        => SnapshotInv' /\ StandInv'
  BY SnapshotStep, StandStep
<1> QED
  BY <1>1, <1>2, SnapshotInit, StandInit, PTL DEF ReadersSpec

=============================================================================
