------------------------- MODULE SnapshotPublication -------------------------
(***************************************************************************)
(* The publication of one learning snapshot by several processes at once   *)
(* (create_learning_snapshot, after its two readings were found equal).    *)
(* The name of the artifact is a hash of what is in it, so all publishers  *)
(* of this module want the same file <snapshot id>.json: one creates it,   *)
(* the others find it and reuse it.                                        *)
(*                                                                         *)
(* An artifact is identified with the publisher that wrote its inode.  The *)
(* inode has the publisher's temporary name as a second link until that is *)
(* removed, which a reader notices by the ctime.                           *)
(***************************************************************************)
EXTENDS Naturals

CONSTANTS
  Publishers,   (* the calls of create_learning_snapshot                   *)
  None,         (* "no entry"                                              *)
  FreshHome,    (* may learning/snapshots be missing in the beginning?     *)
  MaxFaults,    (* bound: failing system calls                             *)
  MaxKills,     (* bound: processes killed                                 *)
  MaxOutages    (* bound: power losses                                     *)

ASSUME NoneIsNoPublisher == None \notin Publishers
ASSUME PublicationBounds ==
  /\ FreshHome \in BOOLEAN
  /\ MaxFaults \in Nat /\ MaxKills \in Nat /\ MaxOutages \in Nat

VARIABLES
  dir,       (* the directories: learning is 1, learning/snapshots is 2    *)
  file,      (* the inode that <snapshot id>.json names, or None           *)
  fileDisk,  (* the entries it may have after a power loss                 *)
  temps,     (* the publishers whose .snapshot-*.tmp exists                *)
  tempDisk,  (* those of which it may be there after a power loss          *)
  pc,        (* where each publisher is                                    *)
  made,      (* did its link create the artifact?                          *)
  seen,      (* the identity of the artifact when its read began           *)
  rereads,   (* reads that it had to begin again                           *)
  out,       (* what it reported                                           *)
  budget     (* faults, kills and outages so far                           *)

files == <<dir, file, fileDisk, temps, tempDisk>>
vars == <<dir, file, fileDisk, temps, tempDisk, pc, made, seen, rereads, out,
          budget>>

Levels == {1, 2}
Stages == {"idle", "look1", "make1", "sync1", "look2", "make2", "sync2",
           "temp", "link", "sync", "drop", "dropsync", "undo", "undosync",
           "stat", "read", "done"}
Outcomes ==
  {"none", "created", "reused", "failed", "changed", "late", "killed"}

(* _stat_identity: the inode, and whether it still has its second link.    *)
Identity == <<file, file \in temps>>

TypeOK ==
  /\ dir \in [Levels -> {"absent", "volatile", "durable"}]
  /\ file \in Publishers \cup {None}
  /\ fileDisk \in SUBSET (Publishers \cup {None})
  /\ temps \in SUBSET Publishers
  /\ tempDisk \in SUBSET Publishers
  /\ pc \in [Publishers -> Stages]
  /\ made \in [Publishers -> BOOLEAN]
  /\ seen \in [Publishers -> (Publishers \cup {None}) \X BOOLEAN]
  /\ rereads \in [Publishers -> Nat]
  /\ out \in [Publishers -> Outcomes]
  /\ budget \in [faults : Nat, kills : Nat, outages : Nat]
  /\ \A p \in Publishers :
       /\ pc[p] \in {"link", "sync", "drop"} => p \in temps
       /\ p \in temps => pc[p] \in {"link", "sync", "drop", "undo", "done"}
       /\ p \in tempDisk => pc[p] # "idle"

Init ==
  /\ \/ dir = [l \in Levels |-> "durable"]
     \/ FreshHome /\ dir = [l \in Levels |-> "absent"]
  /\ file = None
  /\ fileDisk = {None}
  /\ temps = {}
  /\ tempDisk = {}
  /\ pc = [p \in Publishers |-> "idle"]
  /\ made = [p \in Publishers |-> FALSE]
  /\ seen = [p \in Publishers |-> <<None, FALSE>>]
  /\ rereads = [p \in Publishers |-> 0]
  /\ out = [p \in Publishers |-> "none"]
  /\ budget = [faults |-> 0, kills |-> 0, outages |-> 0]

-----------------------------------------------------------------------------
Goto(p, stage) == pc' = [pc EXCEPT ![p] = stage] /\ UNCHANGED out
Return(p, outcome) ==
  /\ pc' = [pc EXCEPT ![p] = "done"]
  /\ out' = [out EXCEPT ![p] = outcome]
Fault ==
  /\ budget.faults < MaxFaults
  /\ budget' = [budget EXCEPT !.faults = @ + 1]
NoFault == UNCHANGED budget

(* Mutant: fsync of the snapshot directory does nothing.                   *)
SyncNothing == UNCHANGED <<fileDisk, tempDisk>>
SyncFile == fileDisk' = {file} /\ tempDisk' = temps

Begin(p) ==
  /\ pc[p] = "idle"
  /\ Goto(p, "look1")
  /\ UNCHANGED <<files, made, seen, rereads, budget>>

(* _open_snapshot_directory, for each of the two directories: a stat, a    *)
(* mkdir when there was none, and an fsync of the parent by the process    *)
(* whose mkdir created it.                                                 *)
LookForDirectory(p, l, look, make, next) ==
  /\ pc[p] = look
  /\ Goto(p, IF dir[l] = "absent" THEN make ELSE next)
  /\ UNCHANGED <<files, made, seen, rereads, budget>>
MakeDirectory(p, l, make, sync, next) ==
  /\ pc[p] = make
  /\ \/ /\ dir[l] = "absent"
        /\ dir' = [dir EXCEPT ![l] = "volatile"]
        /\ Goto(p, sync)
        /\ NoFault
     \/ /\ dir[l] # "absent"
        /\ Goto(p, next)
        /\ UNCHANGED dir /\ NoFault
     \/ Fault /\ Return(p, "failed") /\ UNCHANGED dir
  /\ UNCHANGED <<file, fileDisk, temps, tempDisk, made, seen, rereads>>
SyncParent(p, l, sync, next) ==
  /\ pc[p] = sync
  /\ \/ dir' = [dir EXCEPT ![l] = "durable"] /\ Goto(p, next) /\ NoFault
     \/ Fault /\ Return(p, "failed") /\ UNCHANGED dir
  /\ UNCHANGED <<file, fileDisk, temps, tempDisk, made, seen, rereads>>
OpenDirectories(p) ==
  \/ LookForDirectory(p, 1, "look1", "make1", "look2")
  \/ MakeDirectory(p, 1, "make1", "sync1", "look2")
  \/ SyncParent(p, 1, "sync1", "look2")
  \/ LookForDirectory(p, 2, "look2", "make2", "temp")
  \/ MakeDirectory(p, 2, "make2", "sync2", "temp")
  \/ SyncParent(p, 2, "sync2", "temp")

(* The artifact goes to a temporary file, complete and synchronised; from  *)
(* here on an error first removes that file again.                         *)
WriteTemp(p) ==
  /\ pc[p] = "temp"
  /\ \/ temps' = temps \cup {p} /\ Goto(p, "link") /\ NoFault
     \/ temps' = temps \cup {p} /\ Goto(p, "undo") /\ Fault
     \/ UNCHANGED temps /\ Return(p, "failed") /\ Fault
  /\ tempDisk' = tempDisk \cup {p}
  /\ UNCHANGED <<dir, file, fileDisk, made, seen, rereads>>

(* Mutant: the artifact is renamed over one that may be there.             *)
LinkByRename(p) ==
  /\ pc[p] = "link"
  /\ file' = p
  /\ fileDisk' = fileDisk \cup {p}
  /\ temps' = temps \ {p}
  /\ made' = [made EXCEPT ![p] = TRUE]
  /\ Goto(p, "sync")
  /\ UNCHANGED <<dir, tempDisk, seen, rereads, budget>>
(* os.link without clobber.                                                *)
Link(p) ==
  /\ pc[p] = "link"
  /\ \/ /\ file = None
        /\ file' = p
        /\ fileDisk' = fileDisk \cup {p}
        /\ made' = [made EXCEPT ![p] = TRUE]
        /\ Goto(p, "sync")
        /\ NoFault
     \/ /\ file # None
        /\ Goto(p, "drop")
        /\ NoFault /\ UNCHANGED <<file, fileDisk, made>>
     \/ Goto(p, "undo") /\ Fault /\ UNCHANGED <<file, fileDisk, made>>
  /\ UNCHANGED <<dir, temps, tempDisk, seen, rereads>>

SyncLink(p) ==
  /\ pc[p] = "sync"
  /\ \/ SyncFile /\ Goto(p, "drop") /\ NoFault
     \/ /\ Goto(p, "undo") /\ Fault
        /\ SyncFile \/ UNCHANGED <<fileDisk, tempDisk>>
  /\ UNCHANGED <<dir, file, temps, made, seen, rereads>>

(* Mutant: the temporary file is left in the directory.                    *)
KeepTemp(p) ==
  /\ pc[p] = "drop"
  /\ Goto(p, "dropsync")
  /\ UNCHANGED <<files, made, seen, rereads, budget>>
(* _remove_temporary: unlink and fsync; when one of them fails, both are   *)
(* tried once more on the way out.                                         *)
DropTemp(p) ==
  /\ pc[p] = "drop"
  /\ \/ temps' = temps \ {p} /\ Goto(p, "dropsync") /\ NoFault
     \/ UNCHANGED temps /\ Goto(p, "undo") /\ Fault
  /\ UNCHANGED <<dir, file, fileDisk, tempDisk, made, seen, rereads>>
SyncDrop(p) ==
  /\ pc[p] = "dropsync"
  /\ \/ SyncFile /\ Goto(p, "stat") /\ NoFault
     \/ /\ Goto(p, "undo") /\ Fault
        /\ SyncFile \/ UNCHANGED <<fileDisk, tempDisk>>
  /\ UNCHANGED <<dir, file, temps, made, seen, rereads>>

(* The error path: an artifact that was linked stays.                      *)
UndoTemp(p) ==
  /\ pc[p] = "undo"
  /\ \/ temps' = temps \ {p} /\ Goto(p, "undosync") /\ NoFault
     \/ UNCHANGED temps /\ Return(p, "failed") /\ Fault
  /\ UNCHANGED <<dir, file, fileDisk, tempDisk, made, seen, rereads>>
UndoSync(p) ==
  /\ pc[p] = "undosync"
  /\ Return(p, "failed")
  /\ \/ SyncFile /\ NoFault
     \/ Fault /\ (SyncFile \/ UNCHANGED <<fileDisk, tempDisk>>)
  /\ UNCHANGED <<dir, file, temps, made, seen, rereads>>

(* _read_learning_artifact_from_fd.                                        *)
StatArtifact(p) ==
  /\ pc[p] = "stat"
  /\ \/ /\ file # None
        /\ seen' = [seen EXCEPT ![p] = Identity]
        /\ Goto(p, "read")
        /\ NoFault
     \/ Fault /\ Return(p, "failed") /\ UNCHANGED seen
  /\ UNCHANGED <<files, made, rereads>>

(* Mutant: the second try compares with the stat of the first, and the     *)
(* loop has no deadline.                                                   *)
ReadWithoutStat(p) ==
  /\ pc[p] = "read"
  /\ \/ /\ seen[p] = Identity
        /\ Return(p, IF made[p] THEN "created" ELSE "reused")
     \/ seen[p] # Identity /\ UNCHANGED <<pc, out>>
  /\ UNCHANGED <<files, made, seen, rereads, budget>>
(* What was read counts when the identity did not change.  A creator gives *)
(* up otherwise; a reuser tries again, unless five seconds are over.       *)
ReadArtifact(p) ==
  /\ pc[p] = "read"
  /\ \/ /\ seen[p] = Identity
        /\ Return(p, IF made[p] THEN "created" ELSE "reused")
        /\ UNCHANGED rereads /\ NoFault
     \/ /\ seen[p] # Identity /\ made[p]
        /\ Return(p, "changed")
        /\ UNCHANGED rereads /\ NoFault
     \/ /\ seen[p] # Identity /\ ~made[p]
        /\ rereads' = [rereads EXCEPT ![p] = @ + 1]
        /\ Goto(p, "stat")
        /\ NoFault
     \/ /\ seen[p] # Identity /\ ~made[p]
        /\ Return(p, "late")
        /\ UNCHANGED rereads /\ NoFault
     \/ Fault /\ Return(p, "failed") /\ UNCHANGED rereads
  /\ UNCHANGED <<files, made, seen>>

-----------------------------------------------------------------------------
Live(p) == pc[p] \notin {"idle", "done"}

Kill(p) ==
  /\ Live(p)
  /\ budget.kills < MaxKills
  /\ budget' = [budget EXCEPT !.kills = @ + 1]
  /\ Return(p, "killed")
  /\ UNCHANGED <<files, made, seen, rereads>>

(* Power loss: an entry that was not synchronised may be gone, a temporary *)
(* whose removal was not may be back, and what is in a directory goes with *)
(* it.                                                                     *)
Outage ==
  /\ budget.outages < MaxOutages
  /\ budget' = [budget EXCEPT !.outages = @ + 1]
  /\ \E lost \in SUBSET {l \in Levels : dir[l] = "volatile"} :
       /\ dir' = [l \in Levels |->
                    IF dir[l] = "absent" \/ \E k \in lost : k <= l
                    THEN "absent" ELSE "durable"]
       /\ IF dir'[2] = "absent"
          THEN file' = None /\ temps' = {}
          ELSE file' \in fileDisk /\ temps' \in SUBSET tempDisk
  /\ fileDisk' = {file'}
  /\ tempDisk' = temps'
  /\ pc' = [p \in Publishers |-> IF Live(p) THEN "done" ELSE pc[p]]
  /\ out' = [p \in Publishers |-> IF Live(p) THEN "killed" ELSE out[p]]
  /\ UNCHANGED <<made, seen, rereads>>

Terminated ==
  /\ \A p \in Publishers : pc[p] = "done"
  /\ UNCHANGED vars

PublishStep(p) ==
  \/ Begin(p) \/ OpenDirectories(p) \/ WriteTemp(p) \/ Link(p) \/ SyncLink(p)
  \/ DropTemp(p) \/ SyncDrop(p) \/ UndoTemp(p) \/ UndoSync(p)
  \/ StatArtifact(p) \/ ReadArtifact(p)

Next ==
  \/ \E p \in Publishers : PublishStep(p) \/ Kill(p)
  \/ Outage
  \/ Terminated

Spec == Init /\ [][Next]_vars
FairSpec ==
  Spec /\ \A p \in Publishers : WF_vars(pc[p] # "idle" /\ PublishStep(p))

-----------------------------------------------------------------------------
(* An artifact in place is never replaced by another, whoever publishes    *)
(* it again; only a power loss can take it away.                           *)
NeverOverwritten ==
  [][file # None /\ file' # file => budget'.outages > budget.outages]_vars

(* In a home that is itself durable, a power loss does not take away an    *)
(* artifact that somebody reported, created or only found there.           *)
Reported(p) == out[p] \in {"created", "reused"}
ReportedArtifactStands ==
  [][\A p \in Publishers :
       /\ Reported(p) /\ file = seen[p][1]
       /\ \A l \in Levels : dir[l] = "durable"
       => file' = file]_vars

(* A reported artifact survives a power loss, whatever the home was before *)
(* ("directory creation is ... parent durable").                           *)
ReportedArtifactIsDurable ==
  \A p \in Publishers : Reported(p) =>
    /\ file # None /\ fileDisk = {file}
    /\ \A l \in Levels : dir[l] = "durable"

(* Who reports that it created the artifact wrote the one that is there,   *)
(* as long as no power loss took it; who reports that it reused one did    *)
(* not write that.                                                         *)
ReportsAreTrue ==
  \A p \in Publishers :
    /\ out[p] = "created" =>
         seen[p][1] = p /\ (file = p \/ budget.outages > 0)
    /\ out[p] = "reused" => seen[p][1] \notin {p, None}

(* Every publisher that began comes to an end.                             *)
EveryPublisherReturns == <>[](\A p \in Publishers : ~Live(p))
=============================================================================
