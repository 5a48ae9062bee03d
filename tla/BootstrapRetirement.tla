------------------------ MODULE BootstrapRetirement ------------------------
(***************************************************************************)
(* The credentials of a parallel run.  A coordinator copies them into the  *)
(* run's auth-bootstrap directory, after it has recorded whose directory   *)
(* that is; when the run is over it empties the directory, leaves a        *)
(* tombstone, removes the directory and writes the teardown receipt.  A    *)
(* coordinator that resumes a run that was torn down must have credentials *)
(* again.  It first retires the proofs of the old ones: a transaction      *)
(* record names them, they are moved into an archive one after the other,  *)
(* and a second record says that they all are.                             *)
(*                                                                         *)
(* A coordinator may be killed between any two durable changes, and whoever*)
(* is started next knows only the files.  He may resume the run or start   *)
(* it afresh in the same place, and only a resume looks into the archive.  *)
(* What happens to the cases in the meantime is in CaseAttempts, where all *)
(* of a retirement is one step.                                            *)
(***************************************************************************)
EXTENDS Naturals, Sequences

CONSTANTS
  Inodes,   (* the numbers the file system may give to a new directory or  *)
            (* a replaced file; one it has taken back may come again       *)
  MaxRecords, (* how many files an archive may hold                        *)
  MaxRuns,  (* bound: coordinators of this run, one after the other        *)
  MaxKills  (* bound: coordinators that are killed                         *)

ASSUME RetirementConstants ==
  /\ Inodes \subseteq Nat \ {0} /\ MaxRecords \in Nat
  /\ MaxRuns \in Nat /\ MaxKills \in Nat

(* bootstrap-ownership.json, bootstrap-tombstone.json, teardown.json and   *)
(* stop-launches.json.  The first three name a bootstrap by its inode.     *)
Proofs == {"own", "tomb", "tear", "stop"}

VARIABLES
  boot,     (* the inode of the directory auth-bootstrap, 0 for none       *)
  auth,     (* the credentials in it: "none", "partial" or "whole"         *)
  file,     (* file[p]: what an active proof names, 0 where there is none; *)
            (* of the stop marker, which is replaced, its own inode        *)
  litter,   (* is a temporary file left in the cleanup directory?          *)
  archive,  (* is the directory retired-proofs there?                      *)
  stored,   (* how many files are in it: retired proofs and records        *)
  torn,     (* is a half-written record left in it?                        *)
  txn,      (* the transaction that is not complete: its phase, the proofs *)
            (* it retires in their order, how many of them are archived,   *)
            (* and the inode of the stop marker it has recorded            *)
  cpc,      (* where the coordinator is, "down" between two of them        *)
  resumes,  (* was it started to resume the run?                           *)
  held,     (* does it hold a quiescent authority?                         *)
  result,   (* how the last coordinator ended                              *)
  crossed,  (* was one started afresh over an open transaction? (history)  *)
  used      (* used[b]: what is used up of the bounds                      *)

disk == <<boot, auth, file, litter, archive, stored, torn, txn>>
memory == <<cpc, resumes, held, result>>
vars == <<disk, memory, crossed, used>>

NoTxn == [phase |-> "none", members |-> << >>, moved |-> 0, stop |-> 0]
Opening == {"reconcile", "flags", "mkdir", "own", "copy", "arm", "rearm",
            "publish", "retire"}
Closing == {"cancel", "recover", "scrub", "entomb", "remove", "receipt"}

TypeOK ==
  /\ boot \in Inodes \cup {0} /\ auth \in {"none", "partial", "whole"}
  /\ file \in [Proofs -> Inodes \cup {0}]
  /\ litter \in BOOLEAN /\ archive \in BOOLEAN /\ torn \in BOOLEAN
  /\ stored \in 0 .. MaxRecords
  /\ txn.phase \in {"none", "temp", "prepared"}
  /\ \A i \in 1 .. Len(txn.members) : txn.members[i] \in Proofs
  /\ txn.moved \in 0 .. Len(txn.members) /\ txn.stop \in Inodes \cup {0}
  /\ cpc \in {"down", "running", "decide"} \cup Opening \cup Closing
  /\ resumes \in BOOLEAN /\ held \in BOOLEAN /\ crossed \in BOOLEAN
  /\ result \in {"none", "torn down", "refused", "killed"}
  /\ used \in [{"runs", "kills"} -> Nat]

Init ==
  /\ boot = 0 /\ auth = "none" /\ file = [p \in Proofs |-> 0]
  /\ litter = FALSE /\ archive = FALSE /\ stored = 0 /\ torn = FALSE
  /\ txn = NoTxn
  /\ cpc = "down" /\ resumes = FALSE /\ held = FALSE /\ result = "none"
  /\ crossed = FALSE /\ used = [b \in {"runs", "kills"} |-> 0]

Active(p) == file[p] # 0
Spend(b, max) == used[b] < max /\ used' = [used EXCEPT ![b] = @ + 1]

(* The step goes on to another stage and leaves the rest of memory alone.  *)
Enter(stage) ==
  /\ cpc' = stage
  /\ UNCHANGED <<resumes, held, result, crossed, used>>
DiskKept == UNCHANGED disk

(* An error ends the coordinator.  Before it holds an authority it still   *)
(* cancels and cleans up, and comes to an end there.                       *)
Refuse ==
  /\ cpc' = "down" /\ result' = "refused"
  /\ UNCHANGED <<resumes, held, crossed, used>>
Fail == IF held THEN Refuse ELSE Enter("cancel")

-----------------------------------------------------------------------------
(* A coordinator is started.  A resume of a run with an archive begins     *)
(* with the transactions in it.                                            *)

Start ==
  /\ cpc = "down" /\ Spend("runs", MaxRuns)
  /\ resumes' \in BOOLEAN
  /\ held' = (resumes' /\ archive)
  /\ cpc' = IF held' THEN "reconcile" ELSE "flags"
  /\ result' = "none"
  /\ crossed' = (crossed \/ (~resumes' /\ txn # NoTxn))
  /\ DiskKept

(* _validate_retired_proof_archive: n more files may be added.             *)
Fits(n) == stored + n <= MaxRecords

(* _decode_retirement_transaction: a transaction retires the receipt, the  *)
(* stop marker if there is one, and the two proofs of the cleanup, and in  *)
(* this order.                                                             *)
SourceSets ==
  {<<"tear", "own", "tomb">>, <<"tear", "stop", "own", "tomb">>}
Decodable == txn = NoTxn \/ txn.members \in SourceSets

(* _retain_retirement_phase_record: a record cut short is not JSON.        *)
ArchiveRefuses ==
  /\ cpc = "reconcile" /\ (torn \/ ~Decodable)
  /\ Refuse /\ DiskKept

NothingToReconcile ==
  /\ cpc = "reconcile" /\ ~torn /\ txn = NoTxn
  /\ Enter("flags") /\ DiskKept

(* _promote_retirement_phase_temps: a whole one that was not renamed yet   *)
(* is taken for the record.  A retirement renames its own.                 *)
Promote ==
  /\ cpc \in {"reconcile", "retire"} /\ ~torn /\ txn.phase = "temp"
  /\ txn' = [txn EXCEPT !.phase = "prepared"]
  /\ Enter(cpc)
  /\ UNCHANGED <<boot, auth, file, litter, archive, stored, torn>>

(* _reconcile_retirement_member, for the first that is not archived: the   *)
(* active proof must be the file the transaction has recorded.  Only a     *)
(* stop marker may have been replaced since by another one.                *)
Moving(stages) == cpc \in stages /\ ~torn /\ txn.phase = "prepared"
AllMoved == txn.moved = Len(txn.members)
Member == txn.members[txn.moved + 1]
AsRecorded(p) == Active(p) /\ (p = "stop" => file[p] = txn.stop)
(* _rename_exclusive_at: gone from the one place, there in the other, and  *)
(* nothing is replaced.                                                    *)
IsArchived(p) == file' = [file EXCEPT ![p] = 0] /\ stored' = stored + 1

MoveMember ==
  /\ Moving({"reconcile", "retire"}) /\ ~AllMoved /\ AsRecorded(Member)
  /\ IsArchived(Member)
  /\ txn' = [txn EXCEPT !.moved = @ + 1]
  /\ Enter(cpc) /\ UNCHANGED <<boot, auth, litter, archive, torn>>

MemberChanged ==
  /\ Moving({"reconcile"}) /\ ~AllMoved /\ ~AsRecorded(Member)
  /\ Refuse /\ DiskKept

(* The second record: the transaction is complete, and no later coordinator*)
(* will find any of its members active again.                              *)
Complete ==
  /\ Moving({"reconcile", "retire"}) /\ AllMoved
  /\ IF Fits(1)
     THEN /\ txn' = NoTxn /\ stored' = stored + 1
          /\ Enter(IF cpc = "retire" THEN "mkdir" ELSE "flags")
     ELSE Refuse /\ UNCHANGED <<txn, stored>>
  /\ UNCHANGED <<boot, auth, file, litter, archive, torn>>

-----------------------------------------------------------------------------
(* What to do is decided from the active proofs.                           *)

(* _parallel_recovery_is_cleanup_only                                      *)
CleanupOnly ==
  \/ Active("tomb") /\ ~Active("tear")
  \/ Active("stop") /\ ~Active("tear")
  \/ Active("own") /\ ~resumes

OpenForCleanup ==
  /\ cpc = "flags" /\ CleanupOnly
  /\ IF ~Active("own") THEN Fail
     ELSE Enter(IF held THEN "recover" ELSE "cancel")
  /\ DiskKept

(* _reopen_auth_bootstrap: all must be as prepare_auth_bootstrap leaves it.*)
Reopenable == ~litter /\ boot = file["own"] /\ auth = "whole"
Reopen ==
  /\ cpc = "flags" /\ ~CleanupOnly /\ Active("own") /\ ~Active("tomb")
  /\ IF Reopenable THEN Enter("arm") ELSE Fail
  /\ DiskKept

OpenUnarmed ==
  /\ cpc = "flags" /\ ~CleanupOnly /\ ~Active("own")
  /\ Enter("mkdir") /\ DiskKept

OpenTornDown ==
  /\ cpc = "flags" /\ ~CleanupOnly /\ Active("own") /\ Active("tomb")
  /\ Enter("arm") /\ DiskKept

(* prepare_auth_bootstrap: a directory of the name must not be there.      *)
(* Mutant: the credentials are copied before the ownership is recorded.    *)
MakeBootstrapAndCopy ==
  /\ cpc = "mkdir"
  /\ IF boot # 0 THEN Fail /\ UNCHANGED boot
     ELSE boot' \in Inodes /\ Enter("copy")
  /\ UNCHANGED <<auth, file, litter, archive, stored, torn, txn>>
MakeBootstrap ==
  /\ cpc = "mkdir"
  /\ IF boot # 0 THEN Fail /\ UNCHANGED boot
     ELSE boot' \in Inodes /\ Enter("own")
  /\ UNCHANGED <<auth, file, litter, archive, stored, torn, txn>>

RecordOwnership ==
  /\ cpc = "own"
  /\ file' = [file EXCEPT !["own"] = boot]
  /\ Enter("copy")
  /\ UNCHANGED <<boot, auth, litter, archive, stored, torn, txn>>

CopyAuth ==
  /\ cpc = "copy"
  /\ IF auth = "none" THEN auth' = "partial" /\ Enter("copy")
     ELSE auth' = "whole" /\ Enter("arm")
  /\ UNCHANGED <<boot, file, litter, archive, stored, torn, txn>>

(* A resume of a run that has a receipt must arm it again.  held also      *)
(* keeps that a retirement just did: the receipt is gone then.             *)
Arm ==
  /\ cpc = "arm"
  /\ cpc' = CASE ~resumes -> "running"
              [] resumes /\ Active("tear") -> "rearm"
              [] OTHER -> "decide"
  /\ held' = resumes
  /\ UNCHANGED <<resumes, result, crossed, used>> /\ DiskKept

(* _decode_bootstrap_tombstone: the tombstone is of the directory that the *)
(* ownership record names.                                                 *)
TombstoneStands == file["tomb"] = file["own"]

(* _rearm_bootstrap_before_resume wants no bootstrap, the two cleanup      *)
(* proofs and nothing else beside them, a receipt for this tombstone, and  *)
(* room for all that will be added to the archive.                         *)
StopMember == IF Active("stop") THEN <<"stop">> ELSE << >>
Retiring == <<"tear">> \o StopMember \o <<"own", "tomb">>
ProofsStand ==
  /\ ~litter /\ Active("own")
  /\ TombstoneStands /\ file["tear"] = file["tomb"]

(* Mutant: only the proofs are counted, not the records about them.        *)
RearmCountingProofs ==
  /\ cpc = "rearm"
  /\ IF boot = 0 /\ ~torn /\ ProofsStand /\ Fits(Len(Retiring))
     THEN archive' = TRUE /\ Enter("publish")
     ELSE archive' = (archive \/ boot = 0) /\ Refuse
  /\ UNCHANGED <<boot, auth, file, litter, stored, torn, txn>>
(* Mutant: the new bootstrap is made before the old proofs are retired.    *)
RearmAtOnce ==
  /\ cpc = "rearm"
  /\ IF boot = 0 /\ ~torn /\ ProofsStand /\ Fits(Len(Retiring) + 2)
     THEN archive' = TRUE /\ Enter("mkdir")
     ELSE archive' = (archive \/ boot = 0) /\ Refuse
  /\ UNCHANGED <<boot, auth, file, litter, stored, torn, txn>>
Rearm ==
  /\ cpc = "rearm"
  /\ IF boot = 0 /\ ~torn /\ ProofsStand /\ Fits(Len(Retiring) + 2)
     THEN archive' = TRUE /\ Enter("publish")
     ELSE archive' = (archive \/ boot = 0) /\ Refuse
  /\ UNCHANGED <<boot, auth, file, litter, stored, torn, txn>>

(* _build_retirement_transaction and the first record, under a temporary   *)
(* name.                                                                   *)
Transaction ==
  [phase |-> "temp", members |-> Retiring, moved |-> 0,
   stop |-> file["stop"]]

Publish ==
  /\ cpc = "publish"
  /\ IF Fits(1)
     THEN txn' = Transaction /\ stored' = stored + 1 /\ Enter("retire")
     ELSE Refuse /\ UNCHANGED <<txn, stored>>
  /\ UNCHANGED <<boot, auth, file, litter, archive, torn>>

-----------------------------------------------------------------------------
(* The run, and its end.                                                   *)

(* The replay of the durable progress decides: launch, or clean up.        *)
Decide ==
  /\ cpc = "decide"
  /\ Enter("running") \/ Enter("recover")
  /\ DiskKept

(* All lanes stop by themselves, or the run is cancelled.                  *)
RunEnds ==
  /\ cpc = "running"
  /\ Enter("recover") \/ Enter("cancel")
  /\ DiskKept

(* cancel writes the stop marker, over an older one, if the run has an     *)
(* ownership record.                                                       *)
Cancel ==
  /\ cpc = "cancel"
  /\ IF Active("own")
     THEN \E i \in Inodes \ {file["stop"]} :
            file' = [file EXCEPT !["stop"] = i]
     ELSE UNCHANGED file
  /\ Enter("recover")
  /\ UNCHANGED <<boot, auth, litter, archive, stored, torn, txn>>

(* recover_auth_bootstrap_cleanup, and cleanup_auth_bootstrap where the    *)
(* coordinator has prepared or reopened the bootstrap itself: a tombstone  *)
(* of the owned directory is believed if that is gone or empty; a          *)
(* directory without one is scrubbed.                                      *)
Recoverable ==
  /\ Active("own") /\ ~litter
  /\ IF Active("tomb")
     THEN /\ TombstoneStands
          /\ boot = 0 \/ (boot = file["own"] /\ auth = "none")
     ELSE boot = file["own"]

Recover ==
  /\ cpc = "recover" /\ Recoverable
  /\ Enter(IF Active("tomb") THEN "remove" ELSE "scrub") /\ DiskKept

RecoverRefuses ==
  /\ cpc = "recover" /\ ~Recoverable
  /\ Refuse /\ DiskKept

Scrub ==
  /\ cpc = "scrub"
  /\ auth' = "none"
  /\ Enter("entomb")
  /\ UNCHANGED <<boot, file, litter, archive, stored, torn, txn>>

Entomb ==
  /\ cpc = "entomb"
  /\ file' = [file EXCEPT !["tomb"] = file["own"]]
  /\ Enter("remove")
  /\ UNCHANGED <<boot, auth, litter, archive, stored, torn, txn>>

(* teardown_auth_bootstrap removes an empty directory, if it is there.     *)
RemoveBootstrap ==
  /\ cpc = "remove" /\ auth = "none"
  /\ boot' = 0
  /\ Enter("receipt")
  /\ UNCHANGED <<auth, file, litter, archive, stored, torn, txn>>

(* write_teardown_receipt: one that is there must say the same.            *)
(* Mutant: one that is there is enough.                                    *)
WriteReceiptOnce ==
  /\ cpc = "receipt"
  /\ IF boot # 0 THEN Refuse /\ UNCHANGED file
     ELSE /\ file' = [file EXCEPT !["tear"] =
                              IF @ # 0 THEN @ ELSE file["tomb"]]
          /\ cpc' = "down" /\ result' = "torn down"
          /\ UNCHANGED <<resumes, held, crossed, used>>
  /\ UNCHANGED <<boot, auth, litter, archive, stored, torn, txn>>
WriteReceipt ==
  /\ cpc = "receipt"
  /\ IF boot # 0 \/ file["tear"] \notin {0, file["tomb"]}
     THEN Refuse /\ UNCHANGED file
     ELSE /\ file' = [file EXCEPT !["tear"] = file["tomb"]]
          /\ cpc' = "down" /\ result' = "torn down"
          /\ UNCHANGED <<resumes, held, crossed, used>>
  /\ UNCHANGED <<boot, auth, litter, archive, stored, torn, txn>>

(* A kill inside the writing of an ownership record or a tombstone leaves  *)
(* a temporary file in the cleanup directory, one inside the writing of a  *)
(* record of the transaction leaves that cut short.                        *)
Killed ==
  /\ cpc # "down" /\ Spend("kills", MaxKills)
  /\ cpc' = "down" /\ result' = "killed"
  /\ \/ UNCHANGED <<litter, torn>>
     \/ cpc \in {"own", "entomb"} /\ litter' = TRUE /\ UNCHANGED torn
     \/ /\ cpc = "publish" \/ (Moving({"reconcile", "retire"}) /\ AllMoved)
        /\ torn' = TRUE /\ UNCHANGED litter
  /\ UNCHANGED <<boot, auth, file, archive, stored, txn, resumes, held,
                 crossed>>

-----------------------------------------------------------------------------
Next ==
  \/ Start \/ ArchiveRefuses \/ NothingToReconcile \/ Promote \/ MoveMember
  \/ MemberChanged \/ Complete \/ OpenForCleanup \/ Reopen \/ OpenUnarmed
  \/ OpenTornDown \/ MakeBootstrap \/ RecordOwnership \/ CopyAuth \/ Arm
  \/ Rearm \/ Publish \/ Decide \/ RunEnds \/ Cancel \/ Recover
  \/ RecoverRefuses \/ Scrub \/ Entomb \/ RemoveBootstrap \/ WriteReceipt
  \/ Killed

Spec == Init /\ [][Next]_vars

-----------------------------------------------------------------------------
(* Properties.                                                             *)

(* Whoever is killed between which two steps, credentials are only ever in *)
(* a directory that a durable record claims: a later cleanup finds them.   *)
(* And no tombstone denies them, unless a coordinator was started afresh   *)
(* over an open transaction and the new directory has the old one's inode. *)
CredentialsAreOwned ==
  auth # "none" =>
    /\ boot # 0 /\ file["own"] = boot
    /\ file["tomb"] = boot => crossed

(* The receipt says that the bootstrap is absent.  That is so as long as   *)
(* it stands, through every cut of a retirement: the receipt is out of the *)
(* way before there are credentials again.  The exception is a coordinator *)
(* that was started afresh over an open transaction.                       *)
ReceiptIsTrue == Active("tear") /\ ~crossed => boot = 0

(* No cut stops the run for ever, but for the ones named here: one inside  *)
(* the writing of a record, one that leaves a bootstrap nobody claims, a   *)
(* coordinator started afresh over an open transaction, and, for resumes   *)
(* only, one that leaves a record of the archive cut short or, once there  *)
(* is an archive, a claimed bootstrap without its credentials.  An archive *)
(* that is full refuses resumes, but none in the middle of a transaction.  *)
RefusalsAreExplained ==
  result = "refused" =>
    \/ litter \/ crossed
    \/ boot # 0 /\ ~Active("own")
    \/ resumes /\ torn
    \/ resumes /\ archive /\ Active("own") /\ boot # 0 /\ auth # "whole"
    \/ resumes /\ txn = NoTxn /\ ~Fits(Len(Retiring) + 2)

(* A coordinator that ends in an orderly way leaves no credentials, and    *)
(* all proofs of it, also one that found the work half done.               *)
TornDownIsComplete ==
  result = "torn down" /\ cpc = "down" =>
    /\ boot = 0 /\ auth = "none"
    /\ file["own"] # 0 /\ file["tomb"] = file["own"]
    /\ file["tear"] = file["own"]

(* "one coordinator teardown receipt proving every expected Codex-home     *)
(* tombstone and the auth bootstrap absent" (docs/                         *)
(* parallel-evaluation-mvp-implementation-plan.md): while there is a       *)
(* receipt there is no bootstrap, whoever came in which order.             *)
ReceiptProvesAbsence == Active("tear") => boot = 0
=============================================================================
