---------------------------- MODULE CaseAttempts ----------------------------
(***************************************************************************)
(* The cases of one lane of a parallel evaluation, on disk.  A worker      *)
(* process takes its cases one after the other: it makes the case's        *)
(* directories, records the start of an attempt, installs credentials in   *)
(* a home of the case, runs the model, scrubs the home, leaves a tombstone *)
(* as the proof of it, records the attempt's terminal and seals the case.  *)
(* The coordinator may cancel it or be killed at any time, and so may the  *)
(* worker.  Whoever comes next, the cleanup of the same coordinator or a   *)
(* later one that resumes the run, knows only what is on disk.             *)
(*                                                                         *)
(* A step is one durable change.  EvaluationProtocol has the messages      *)
(* between the two processes; here the worker is told to go on, to retry   *)
(* or to stop as the ledger may decide, and any other lane may be the      *)
(* reason for a stop.  BootstrapRetirement has the steps in which the      *)
(* run's own credentials come and go.                                      *)
(***************************************************************************)
EXTENDS Naturals, Sequences

CONSTANTS
  LastCase,    (* the cases of the lane are 1..LastCase, in plan order     *)
  MaxRuns,     (* bound: coordinators of this run, one after the other     *)
  MaxKills,    (* bound: processes that end without a word                 *)
  MaxFailures  (* bound: steps of an attempt that fail                     *)

ASSUME ConstantsAreNaturals ==
  /\ LastCase \in Nat \ {0} /\ MaxRuns \in Nat
  /\ MaxKills \in Nat /\ MaxFailures \in Nat

Cases == 1 .. LastCase

VARIABLES
  made,      (* made[c]: which of the case's directories exist, see below  *)
  att,       (* att[c]: the attempts of the case, in order                 *)
  home,      (* home[c]: codex-home: absent, with credentials, scrubbed    *)
  own,       (* own[c]: is cleanup/ownership.json there?                   *)
  tomb,      (* tomb[c]: is cleanup/tombstone.json there?                  *)
  litter,    (* litter[c]: is a temporary file left in cleanup/?           *)
  seal,      (* seal[c]: the files of sealed/ that are there, in order     *)
  boot,      (* the auth bootstrap cases copy: "none", "there" or "gone"   *)
  stopMark,  (* is coordinator/stop-launches.json there?                   *)
  teardown,  (* is coordinator/teardown.json there?                        *)
  shard,     (* the lane's seal: "none", "success" or "failed"             *)
  archive,   (* is coordinator/retired-proofs there?                       *)
  wpc,       (* where the worker is, "none" before it is launched          *)
  at,        (* the case the worker is at                                  *)
  todo,      (* the cases of its resume plan it has still to run           *)
  ended,     (* how the attempt will be recorded                           *)
  cpc,       (* where the coordinator is, "down" between two of them       *)
  resumes,   (* was it started to resume the run?                          *)
  cleaning,  (* the case it cleans up                                      *)
  result,    (* how the last coordinator has ended, or is bound to         *)
  starts,    (* starts[c]: how often the model was started (history)       *)
  used       (* used[b]: what is used up of the bounds                     *)

records == <<made, att, home, own, tomb, litter, seal>>
shared == <<boot, stopMark, teardown, shard, archive>>
worker == <<wpc, at, todo, ended>>
coordinator == <<cpc, resumes, cleaning, result>>
vars == <<records, shared, worker, coordinator, starts, used>>

(* The directories are made in this order: the case root, cleanup,         *)
(* attempts and, the last of the run's other ones, sealed.                 *)
RootDir == 1
CleanupDir == 2
AttemptsDir == 3
SealedDir == 4

(* An attempt is open until its terminal record is there.  What readers    *)
(* tell apart then: success; a failure of the infrastructure before the    *)
(* model was started that left a tombstone; any other failure.             *)
Attempts == {"open", "success", "retryable", "failed"}
WorkerIdle == {"none", "stopped", "dead"}
Waiting == {"lane", "started", "report"}
WorkerStages == WorkerIdle \cup Waiting \cup
  {"next", "secure", "scan", "start", "reset", "prepare", "mkdir", "own",
   "auth", "ready", "model", "scrub", "entomb", "terminal", "seal",
   "shard", "refused"}
CleanupStages == {"recover", "scrub", "entomb", "remove", "bootstrap",
                  "receipt"}
CoordinatorStages ==
  CleanupStages \cup
    {"down", "open", "quiesce", "running", "cancelled", "validate"}

TypeOK ==
  /\ made \in [Cases -> 0 .. SealedDir]
  /\ \A c \in Cases : Len(att[c]) <= 2
  /\ \A c \in Cases : \A i \in 1 .. Len(att[c]) : att[c][i] \in Attempts
  /\ home \in [Cases -> {"none", "filled", "empty"}]
  /\ own \in [Cases -> BOOLEAN] /\ tomb \in [Cases -> BOOLEAN]
  /\ litter \in [Cases -> BOOLEAN]
  /\ seal \in [Cases -> 0 .. 3]
  /\ boot \in {"none", "there", "gone"}
  /\ stopMark \in BOOLEAN /\ teardown \in BOOLEAN /\ archive \in BOOLEAN
  /\ shard \in {"none", "success", "failed"}
  /\ wpc \in WorkerStages /\ cpc \in CoordinatorStages
  /\ at \in Cases \cup {0} /\ cleaning \in Cases \cup {0}
  /\ todo \subseteq Cases /\ resumes \in BOOLEAN
  /\ ended \in {"none"} \cup Attempts
  /\ result \in {"none", "refused", "killed", "failed", "validated",
                 "rejected"}
  /\ starts \in [Cases -> Nat]
  /\ used \in [{"runs", "kills", "failures"} -> Nat]

Init ==
  /\ made = [c \in Cases |-> 0] /\ att = [c \in Cases |-> << >>]
  /\ home = [c \in Cases |-> "none"]
  /\ own = [c \in Cases |-> FALSE] /\ tomb = own /\ litter = own
  /\ seal = [c \in Cases |-> 0]
  /\ boot = "none" /\ stopMark = FALSE /\ teardown = FALSE /\ shard = "none"
  /\ archive = FALSE
  /\ wpc = "none" /\ at = 0 /\ todo = {} /\ ended = "none"
  /\ cpc = "down" /\ resumes = FALSE /\ cleaning = 0 /\ result = "none"
  /\ starts = [c \in Cases |-> 0]
  /\ used = [b \in {"runs", "kills", "failures"} |-> 0]

Spend(b, max) == used[b] < max /\ used' = [used EXCEPT ![b] = @ + 1]

-----------------------------------------------------------------------------
(* What readers make of the records.                                       *)

(* read_verified_tombstone_receipt: the tombstone, beside the ownership    *)
(* record it refers to.                                                    *)
CleanupProved(c) == own[c] /\ tomb[c]

(* decide_retry: one retry, of a first attempt that failed before the      *)
(* model was started and whose credentials are proved gone.                *)
RetryPermitted(c) == Len(att[c]) = 1 /\ att[c][1] = "retryable"

(* plan_resume's verdict on a case.  Every case of a resume is a case that *)
(* was never begun, or one that is committed; the directory of the seal,   *)
(* empty or not, spoils a retry.                                           *)
NeverBegun(c) == att[c] = << >> /\ made[c] < SealedDir
Retried(c) == RetryPermitted(c) /\ CleanupProved(c) /\ made[c] < SealedDir
Reusable(c) ==
  /\ att[c] # << >> /\ att[c][Len(att[c])] = "success"
  /\ Len(att[c]) = 2 => att[c][1] = "retryable"
  /\ CleanupProved(c) /\ seal[c] = 3
(* Nobody is at work while the verdict is formed: all that was read for it *)
(* is read again before it is given, and is the same.                      *)
Disposition(c) ==
  CASE NeverBegun(c) \/ Retried(c) -> "pending"
    [] Reusable(c) -> "reusable"
    [] OTHER -> "invalid"
Pending == {c \in Cases : Disposition(c) = "pending"}
Invalid == {c \in Cases : Disposition(c) = "invalid"}

-----------------------------------------------------------------------------
(* The worker.                                                             *)

WorkerKeeps == UNCHANGED <<shared, coordinator>>
Go(stage) == wpc' = stage /\ UNCHANGED <<at, todo>>

(* The lane-ready message is answered, by "continue" or by a stop.         *)
LaneAcknowledged ==
  /\ wpc = "lane" /\ cpc = "running"
  /\ Go("next") \/ Go("shard")
  /\ UNCHANGED <<records, ended, starts, used>> /\ WorkerKeeps

(* The loop over the pending cases of the lane, in the order of the plan.  *)
NextCase ==
  /\ wpc = "next"
  /\ IF todo = {}
     THEN wpc' = "shard" /\ UNCHANGED <<at, todo>>
     ELSE /\ at' \in {c \in todo : \A d \in todo : c <= d}
          /\ todo' = todo \ {at'} /\ wpc' = "secure"
  /\ UNCHANGED <<records, ended, starts, used>> /\ WorkerKeeps

(* The root, cleanup and attempts, one at a time.                          *)
SecureDirectory ==
  /\ wpc = "secure"
  /\ IF made[at] < AttemptsDir
     THEN made' = [made EXCEPT ![at] = @ + 1] /\ UNCHANGED wpc
     ELSE wpc' = "scan" /\ UNCHANGED made
  /\ UNCHANGED <<att, home, own, tomb, litter, seal, at, todo, ended, starts,
                 used>>
  /\ WorkerKeeps

(* scan_attempts and the choice of the attempt's number: every earlier     *)
(* attempt must be sealed, and the second one needs the first's leave.     *)
Scan ==
  /\ wpc = "scan"
  /\ Go(IF att[at] = << >> \/ RetryPermitted(at) THEN "start" ELSE "dead")
  /\ UNCHANGED <<records, ended, starts, used>> /\ WorkerKeeps

(* write_attempt_start.  Of the attempt's directory and start.json in it   *)
(* no reader accepts the one without the terminal more than the other.     *)
StartAttempt ==
  /\ wpc = "start"
  /\ att' = [att EXCEPT ![at] = Append(@, "open")]
  /\ ended' = "none" /\ Go("started")
  /\ UNCHANGED <<made, home, own, tomb, litter, seal, starts, used>>
  /\ WorkerKeeps

(* The case-started message is answered: by "continue", or by a stop that  *)
(* any lane may have caused.                                               *)
StartAcknowledged ==
  /\ wpc = "started" /\ cpc = "running"
  /\ \/ Go(IF Len(att[at]) = 2 THEN "reset" ELSE "prepare")
     \/ Go("shard")
  /\ UNCHANGED <<records, ended, starts, used>> /\ WorkerKeeps

(* _reset_case_for_retry: it reads the tombstone, then wants codex-home    *)
(* gone.  The worker itself only ever empties it, so a retry ends here     *)
(* (run attempts_retry), and what the function would do next does not run. *)
ResetRefuses ==
  /\ wpc = "reset" /\ home[at] # "none"
  /\ Go("refused")
  /\ UNCHANGED <<records, ended, starts, used>> /\ WorkerKeeps

(* _prepare_case_directories and the staging: sealed is the last one made. *)
Prepare ==
  /\ wpc = "prepare"
  /\ made' = [made EXCEPT ![at] = SealedDir] /\ Go("mkdir")
  /\ UNCHANGED <<att, home, own, tomb, litter, seal, ended, starts, used>>
  /\ WorkerKeeps

(* install_case_auth: the home, the record of whose home it is, then the   *)
(* credentials.                                                            *)
MakeHome ==
  /\ wpc = "mkdir" /\ boot = "there"
  /\ home' = [home EXCEPT ![at] = "empty"] /\ Go("own")
  /\ UNCHANGED <<made, att, own, tomb, litter, seal, ended, starts, used>>
  /\ WorkerKeeps

RecordOwnership ==
  /\ wpc = "own"
  /\ own' = [own EXCEPT ![at] = TRUE] /\ Go("auth")
  /\ UNCHANGED <<made, att, home, tomb, litter, seal, ended, starts, used>>
  /\ WorkerKeeps

CopyAuth ==
  /\ wpc = "auth"
  /\ home' = [home EXCEPT ![at] = "filled"] /\ Go("ready")
  /\ UNCHANGED <<made, att, own, tomb, litter, seal, ended, starts, used>>
  /\ WorkerKeeps

StartModel ==
  /\ wpc = "ready"
  /\ starts' = [starts EXCEPT ![at] = @ + 1] /\ Go("model")
  /\ UNCHANGED <<records, ended, used>> /\ WorkerKeeps

ModelEnds ==
  /\ wpc = "model"
  /\ ended' = "success" /\ Go("scrub")
  /\ UNCHANGED <<records, starts, used>> /\ WorkerKeeps

(* A step fails in a way the worker survives.  Before the installation is  *)
(* complete nothing is scrubbed and the terminal is not a clean one; after *)
(* it the failure is the infrastructure's, and may be retried, or another. *)
SetupFails ==
  /\ wpc \in {"prepare", "mkdir", "own", "auth"}
  /\ Spend("failures", MaxFailures)
  /\ ended' = "failed" /\ Go("terminal")
  /\ UNCHANGED <<records, starts>> /\ WorkerKeeps

RunFails ==
  /\ wpc \in {"ready", "model"}
  /\ Spend("failures", MaxFailures)
  /\ ended' \in {"failed"} \cup (IF wpc = "ready" THEN {"retryable"} ELSE {})
  /\ Go("scrub")
  /\ UNCHANGED <<records, starts>> /\ WorkerKeeps

(* cleanup_case_auth: everything in the home goes, then the tombstone says *)
(* so.  When it fails the attempt has failed, without a tombstone.         *)
(* Mutant: the tombstone is written although the scrub failed.             *)
ScrubFailsQuietly ==
  /\ wpc = "scrub" /\ Spend("failures", MaxFailures)
  /\ ended' = "failed" /\ Go("entomb")
  /\ UNCHANGED <<records, starts>> /\ WorkerKeeps
ScrubFails ==
  /\ wpc = "scrub" /\ Spend("failures", MaxFailures)
  /\ ended' = "failed" /\ Go("terminal")
  /\ UNCHANGED <<records, starts>> /\ WorkerKeeps

Scrub ==
  /\ wpc = "scrub"
  /\ home' = [home EXCEPT ![at] = "empty"] /\ Go("entomb")
  /\ UNCHANGED <<made, att, own, tomb, litter, seal, ended, starts, used>>
  /\ WorkerKeeps

Entomb ==
  /\ wpc = "entomb"
  /\ tomb' = [tomb EXCEPT ![at] = TRUE] /\ Go("terminal")
  /\ UNCHANGED <<made, att, home, own, litter, seal, ended, starts, used>>
  /\ WorkerKeeps

(* write_attempt_terminal, a clean one only with a tombstone.              *)
WriteTerminal ==
  /\ wpc = "terminal" /\ (ended # "failed" => CleanupProved(at))
  /\ att' = [att EXCEPT ![at][Len(att[at])] = ended]
  /\ Go(IF ended = "success" THEN "seal" ELSE "report")
  /\ UNCHANGED <<made, home, own, tomb, litter, seal, ended, starts, used>>
  /\ WorkerKeeps

(* seal_case for a success: the result and the evidence, each linked into  *)
(* its place when it is whole; then, with the attempt and the tombstone    *)
(* read once more, the commit of them.                                     *)
Publishes(c) ==
  /\ seal' = [seal EXCEPT ![c] = @ + 1]
  /\ UNCHANGED <<made, att, home, own, tomb, litter, ended, starts, used>>
SealCase ==
  /\ wpc = "seal" /\ seal[at] < 2
  /\ Publishes(at) /\ Go("seal") /\ WorkerKeeps
CommitCase ==
  /\ wpc = "seal" /\ seal[at] = 2
  /\ att[at][Len(att[at])] = ended /\ CleanupProved(at)
  /\ Publishes(at) /\ Go("report") /\ WorkerKeeps

(* The case-terminal message is answered.  A success goes on or stops; a   *)
(* failure is retried if it may be, and else aborts the evaluation.        *)
SuccessAcknowledged ==
  /\ wpc = "report" /\ cpc = "running" /\ ended = "success"
  /\ Go("next") \/ Go("shard")
  /\ UNCHANGED <<records, ended, starts, used>> /\ WorkerKeeps

RetryAcknowledged ==
  /\ wpc = "report" /\ cpc = "running" /\ RetryPermitted(at)
  /\ Go("scan")
  /\ UNCHANGED <<records, ended, starts, used>> /\ WorkerKeeps

FailureAborts ==
  /\ wpc = "report" /\ cpc = "running" /\ ended # "success"
  /\ Go("shard")
  /\ cpc' = "cancelled" /\ stopMark' = TRUE /\ result' = "failed"
  /\ UNCHANGED <<records, ended, boot, teardown, shard, archive, resumes,
                 cleaning, starts, used>>

(* The end of the loop: the lane is sealed when its last case has failed,  *)
(* or when all are committed, by this worker or by an earlier one; a seal  *)
(* that is there already must be the same.  Then it says that it stops.    *)
LaneFailed ==
  /\ at # 0 /\ att[at] # << >>
  /\ att[at][Len(att[at])] \in {"failed", "retryable"}
(* Mutant: a worker that has run no case itself seals nothing.             *)
LaneOutcomeOfOwnCases ==
  CASE LaneFailed -> "failed"
    [] at # 0 /\ \A c \in Cases : Reusable(c) -> "success"
    [] OTHER -> "none"
LaneOutcome ==
  CASE LaneFailed -> "failed"
    [] \A c \in Cases : Reusable(c) -> "success"
    [] OTHER -> "none"

SealShard ==
  /\ wpc = "shard"
  /\ shard' = IF shard = "none" THEN LaneOutcome ELSE shard
  /\ Go(IF LaneOutcome \in {"none", shard'} THEN "stopped" ELSE "dead")
  /\ UNCHANGED <<records, boot, stopMark, teardown, archive, coordinator,
                 ended, starts, used>>

(* Nobody answers for 300 s: the worker leaves with an error.              *)
AckTimesOut ==
  /\ wpc \in Waiting /\ cpc # "running"
  /\ Go("dead")
  /\ UNCHANGED <<records, ended, starts, used>> /\ WorkerKeeps

(* A kill inside _atomic_write_record of an ownership record or a          *)
(* tombstone leaves its temporary file beside it, and nobody removes that. *)
MayLitter(writes, c) ==
  /\ litter' \in {litter} \cup
       (IF writes THEN {[litter EXCEPT ![c] = TRUE]} ELSE {})
  /\ UNCHANGED <<made, att, home, own, tomb, seal>>

WorkerDies ==
  /\ wpc \notin WorkerIdle /\ Spend("kills", MaxKills)
  /\ MayLitter(wpc \in {"own", "entomb"}, at)
  /\ Go("dead")
  /\ UNCHANGED <<ended, starts>> /\ WorkerKeeps

-----------------------------------------------------------------------------
(* The coordinator.                                                        *)

CoordinatorKeeps == UNCHANGED <<ended, starts>>
Enter(stage) == cpc' = stage /\ UNCHANGED <<resumes, cleaning>>

CoordinatorStarts ==
  /\ cpc = "down" /\ Spend("runs", MaxRuns)
  /\ cpc' = "open" /\ resumes' \in BOOLEAN
  /\ cleaning' = 0 /\ result' = "none"
  /\ UNCHANGED <<records, shared, worker, starts>>

(* _parallel_recovery_is_cleanup_only, from the files the run left.        *)
CleanupOnly ==
  \/ boot = "gone" /\ ~teardown
  \/ stopMark /\ ~teardown
  \/ boot # "none" /\ ~resumes

(* Cleanup only: the coordinator cancels a run it never launched.          *)
OpenForCleanup ==
  /\ cpc = "open" /\ CleanupOnly /\ ~(resumes /\ archive)
  /\ stopMark' = TRUE /\ result' = "failed"
  /\ Enter("cancelled")
  /\ UNCHANGED <<records, boot, teardown, shard, archive, worker, starts,
                 used>>

(* But a resume that finds proofs of an earlier rearm has stopped the      *)
(* workers by then, and the cancel is for one that has not: it cleans up   *)
(* like a run that came to its end, and judges the epoch.                  *)
OpenArchivedForCleanup ==
  /\ cpc = "open" /\ CleanupOnly /\ resumes /\ archive
  /\ wpc' = (IF wpc \in WorkerIdle THEN wpc ELSE "dead")
  /\ cpc' = "recover" /\ cleaning' = 1
  /\ UNCHANGED <<records, shared, at, todo, resumes, result, used>>
  /\ CoordinatorKeeps

(* A fresh run makes the bootstrap and launches the lane.                  *)
OpenFresh ==
  /\ cpc = "open" /\ ~CleanupOnly /\ ~resumes
  /\ boot' = "there"
  /\ wpc' = "lane" /\ todo' = Cases /\ at' = 0 /\ Enter("running")
  /\ UNCHANGED <<records, stopMark, teardown, shard, archive, result, used>>
  /\ CoordinatorKeeps

(* A resume first kills the worker group its predecessor has recorded.     *)
OpenResume ==
  /\ cpc = "open" /\ ~CleanupOnly /\ resumes
  /\ boot' = IF boot = "none" THEN "there" ELSE boot
  /\ wpc' = (IF wpc \in WorkerIdle THEN wpc ELSE "dead")
  /\ Enter("quiesce")
  /\ UNCHANGED <<records, stopMark, teardown, shard, archive, at, todo, result,
                 used>>
  /\ CoordinatorKeeps

(* _rearm_bootstrap_before_resume: credentials again, the old proofs away. *)
(* Mutant: the teardown receipt stays where it is.                         *)
RearmKeepingReceipt ==
  /\ cpc = "quiesce" /\ teardown /\ boot = "gone"
  /\ boot' = "there" /\ stopMark' = FALSE /\ archive' = TRUE
  /\ UNCHANGED teardown
  /\ UNCHANGED <<records, shard, worker, coordinator, starts, used>>
Rearm ==
  /\ cpc = "quiesce" /\ teardown
  /\ boot' = "there" /\ stopMark' = FALSE /\ teardown' = FALSE
  /\ archive' = TRUE
  /\ UNCHANGED <<records, shard, worker, coordinator, starts, used>>

(* An invalid case sends the resume into cleanup.  So does a ledger that   *)
(* cannot be replayed or has an end in it (EvaluationProtocol says when).  *)
ResumeCleansUp ==
  /\ cpc = "quiesce" /\ ~teardown
  /\ cpc' = "recover" /\ cleaning' = 1 /\ result' = "failed"
  /\ UNCHANGED <<records, shared, worker, resumes, starts, used>>

ResumeLaunches ==
  /\ cpc = "quiesce" /\ ~teardown /\ Invalid = {}
  /\ wpc' = "lane" /\ todo' = Pending /\ at' = 0 /\ Enter("running")
  /\ UNCHANGED <<records, shared, result, used>> /\ CoordinatorKeeps

(* _supervise_parallel_workers: every lane has reported its stop.          *)
LaneStopped ==
  /\ cpc = "running" /\ wpc = "stopped"
  /\ cpc' = "recover" /\ cleaning' = 1
  /\ UNCHANGED <<records, shared, worker, resumes, result, starts, used>>

(* cancel: the marker, then the process group.  Its own worker is dead, or *)
(* another lane has failed.                                                *)
Cancel ==
  /\ cpc = "running"
  /\ stopMark' = TRUE /\ result' = "failed" /\ Enter("cancelled")
  /\ UNCHANGED <<records, boot, teardown, shard, archive, worker, starts,
                 used>>

(* Mutant: only a worker that has not died by itself is waited for.        *)
StopWorkerOfLiving ==
  /\ cpc = "cancelled" /\ wpc \notin {"dead", "refused"}
  /\ wpc' = (IF wpc \in WorkerIdle THEN wpc ELSE "dead")
  /\ cpc' = "recover" /\ cleaning' = 1
  /\ UNCHANGED <<records, shared, at, todo, resumes, result, used>>
  /\ CoordinatorKeeps
StopWorker ==
  /\ cpc = "cancelled"
  /\ wpc' = (IF wpc \in WorkerIdle THEN wpc ELSE "dead")
  /\ cpc' = "recover" /\ cleaning' = 1
  /\ UNCHANGED <<records, shared, at, todo, resumes, result, used>>
  /\ CoordinatorKeeps

CleansCase(stage) == cpc = stage /\ cleaning # 0
NextCleaned ==
  IF cleaning = LastCase
  THEN cpc' = "bootstrap" /\ cleaning' = 0
  ELSE cpc' = "recover" /\ cleaning' = cleaning + 1

(* _cleanup_parallel_epoch on a case without a cleanup directory.          *)
SkipCase ==
  /\ CleansCase("recover") /\ made[cleaning] < CleanupDir
  /\ home[cleaning] = "none"
  /\ NextCleaned
  /\ UNCHANGED <<records, shared, worker, resumes, result, starts, used>>

(* recover_case_auth_cleanup.  It knows every file of the cleanup          *)
(* directory or it refuses.  A tombstone there is believed if the home is  *)
(* absent or empty; without one the home is scrubbed and entombed.         *)
Recoverable(c) ==
  /\ own[c] /\ ~litter[c]
  /\ IF tomb[c] THEN home[c] # "filled" ELSE home[c] # "none"

(* Mutant: a home without a tombstone is scrubbed and removed before the   *)
(* tombstone is written.                                                   *)
RecoverCaseByRemoval ==
  /\ CleansCase("recover") /\ Recoverable(cleaning)
  /\ Enter(IF tomb[cleaning] \/ home[cleaning] = "filled"
           THEN "remove" ELSE "scrub")
  /\ UNCHANGED <<records, shared, worker, result, starts, used>>
RecoverCase ==
  /\ CleansCase("recover") /\ Recoverable(cleaning)
  /\ Enter(IF tomb[cleaning] THEN "remove" ELSE "scrub")
  /\ UNCHANGED <<records, shared, worker, result, starts, used>>

(* Everything else it refuses, and the coordinator ends as failed.         *)
CleanupRefuses ==
  /\ CleansCase("recover") /\ made[cleaning] >= CleanupDir
  /\ ~Recoverable(cleaning)
  /\ result' = "refused" /\ Enter("down")
  /\ UNCHANGED <<records, shared, worker, starts, used>>

RecoveryScrubs ==
  /\ CleansCase("scrub")
  /\ home' = [home EXCEPT ![cleaning] = "empty"] /\ Enter("entomb")
  /\ UNCHANGED <<made, att, own, tomb, litter, seal, shared, worker, result,
                 starts, used>>

RecoveryEntombs ==
  /\ CleansCase("entomb")
  /\ tomb' = [tomb EXCEPT ![cleaning] = TRUE] /\ Enter("remove")
  /\ UNCHANGED <<made, att, home, own, litter, seal, shared, worker, result,
                 starts, used>>

(* teardown_case_auth: the empty home, if it is still there, is removed.   *)
RemoveHome ==
  /\ CleansCase("remove")
  /\ home' = [home EXCEPT ![cleaning] = "none"] /\ NextCleaned
  /\ UNCHANGED <<made, att, own, tomb, litter, seal, shared, worker, resumes,
                 result, starts, used>>

RemoveBootstrap ==
  /\ cpc = "bootstrap"
  /\ boot' = "gone" /\ Enter("receipt")
  /\ UNCHANGED <<records, stopMark, teardown, shard, archive, worker, result,
                 starts, used>>

(* write_teardown_receipt looks once more that every home is absent.  A    *)
(* coordinator that was not cancelled goes on to judge the epoch.          *)
WriteReceipt ==
  /\ cpc = "receipt" /\ \A c \in Cases : home[c] = "none"
  /\ teardown' = TRUE
  /\ Enter(IF result = "failed" THEN "down" ELSE "validate")
  /\ UNCHANGED <<records, boot, stopMark, shard, archive, worker, result,
                 starts, used>>

(* validate_epoch_for_aggregation: a whole and green seal of the lane, for *)
(* each case a commit, one or two attempts of which the last is a success  *)
(* and exactly one has started the model, and the receipt, which must      *)
(* still be true.  The model was started in every attempt that is not open *)
(* but for a retryable one; a failed one may have started it.              *)
LaneStands == shard = "success"
CommitStands(c) == seal[c] = 3 /\ CleanupProved(c)
AttemptTruth(c) ==
  /\ Len(att[c]) \in {1, 2} /\ att[c][Len(att[c])] = "success"
  /\ Len(att[c]) = 2 => att[c][1] = "retryable"
ReceiptStands ==
  /\ teardown /\ boot = "gone"
  /\ \A c \in Cases : CleanupProved(c) /\ home[c] = "none"
EpochStands ==
  /\ LaneStands
  /\ \A c \in Cases : CommitStands(c) /\ AttemptTruth(c)
  /\ ReceiptStands

Validate ==
  /\ cpc = "validate"
  /\ result' = (IF EpochStands THEN "validated" ELSE "rejected")
  /\ Enter("down")
  /\ UNCHANGED <<records, shared, worker, starts, used>>

CoordinatorDies ==
  /\ cpc # "down" /\ Spend("kills", MaxKills)
  /\ MayLitter(cpc = "entomb", cleaning)
  /\ result' = "killed" /\ Enter("down")
  /\ UNCHANGED <<shared, worker, starts>>

-----------------------------------------------------------------------------
WorkerSteps ==
  \/ LaneAcknowledged \/ NextCase \/ SecureDirectory \/ Scan
  \/ StartAttempt \/ StartAcknowledged \/ ResetRefuses \/ Prepare \/ MakeHome
  \/ RecordOwnership \/ CopyAuth \/ StartModel \/ ModelEnds \/ Scrub
  \/ Entomb \/ WriteTerminal \/ SealCase \/ CommitCase
  \/ SuccessAcknowledged \/ RetryAcknowledged \/ FailureAborts \/ SealShard
  \/ AckTimesOut
CleanupSteps ==
  \/ SkipCase \/ RecoverCase \/ CleanupRefuses \/ RecoveryScrubs
  \/ RecoveryEntombs \/ RemoveHome \/ RemoveBootstrap \/ WriteReceipt
  \/ Validate
CoordinatorSteps ==
  \/ OpenForCleanup \/ OpenArchivedForCleanup \/ OpenFresh \/ OpenResume
  \/ Rearm \/ ResumeCleansUp \/ ResumeLaunches \/ LaneStopped \/ StopWorker
  \/ CleanupSteps
(* The supervisor polls its workers: it finds a dead one and cancels.      *)
DeathNoticed == wpc \in {"dead", "refused"} /\ Cancel
Faults == SetupFails \/ RunFails \/ ScrubFails \/ WorkerDies
            \/ CoordinatorDies
Next == WorkerSteps \/ CoordinatorSteps \/ CoordinatorStarts \/ Cancel
          \/ Faults

Spec == Init /\ [][Next]_vars
(* Processes that live go on: a model ends or times out, a message is      *)
(* answered or waited for no longer, and the supervisor polls in a loop.   *)
FairSpec ==
  Spec /\ WF_vars(WorkerSteps) /\ WF_vars(CoordinatorSteps)
       /\ WF_vars(DeathNoticed)

-----------------------------------------------------------------------------
(* Properties.                                                             *)

(* The records are true, whoever was killed or has failed between which    *)
(* two of them: no tombstone stands beside credentials, the model runs at  *)
(* most once for a case, all attempts and coordinators together, and a     *)
(* case is committed only after it did and with its credentials proved     *)
(* gone.                                                                   *)
RecordsAreTrue ==
  \A c \in Cases :
    /\ tomb[c] => home[c] # "filled"
    /\ starts[c] <= 1
    /\ seal[c] = 3 => starts[c] = 1 /\ Reusable(c)

(* While the teardown receipt stands, no credentials of the run are left   *)
(* and nobody is at work who could bring them back.                        *)
TornDownMeansGone ==
  teardown =>
    /\ boot # "there"
    /\ \A c \in Cases : home[c] = "none"
    /\ wpc \in WorkerIdle

(* No worker is at work on the homes that a coordinator cleans up, also    *)
(* not one that has outlived the coordinator that launched it.             *)
CleanupIsQuiet == cpc \in CleanupStages => wpc \in WorkerIdle \cup {"refused"}

(* Every coordinator comes to an end, also when a worker dies wordlessly.  *)
EveryCoordinatorEnds == cpc # "down" ~> cpc = "down"

(* Once it is recorded whose a case's home is, no kill and no failure lets *)
(* the case stand in the way of the cleanup, in this coordinator or in a   *)
(* later one: only a case that has no such record makes it refuse, and one *)
(* whose record or tombstone was being written when the writer was killed. *)
OwnedCasesAreCleaned ==
  result = "refused" =>
    /\ cleaning # 0
    /\ ~own[cleaning] \/ litter[cleaning]

(* An epoch is validated when it is whole and green, on the first look or  *)
(* after any number of kills and resumes: a validated one has every case   *)
(* committed after a single start of its model and no credentials left,    *)
(* and one whose cases are all committed is rejected only if the worker    *)
(* was stopped before it had sealed the lane, in a coordinator that judges *)
(* what it has only cleaned up.                                            *)
EpochsAreJudgedRightly ==
  /\ result = "validated" =>
       /\ boot = "gone"
       /\ \A c \in Cases : starts[c] = 1 /\ Reusable(c) /\ home[c] = "none"
  /\ result = "rejected" =>
       \/ \E c \in Cases : ~Reusable(c)
       \/ shard = "none" /\ wpc # "stopped" /\ resumes /\ archive

(* A pre-model infrastructure failure with its cleanup proved "may receive *)
(* one bounded retry" (docs/parallel-evaluation-plan.md): the worker that  *)
(* is told to retry comes to a second attempt.                             *)
PermittedRetryRuns == wpc # "refused"
=============================================================================
