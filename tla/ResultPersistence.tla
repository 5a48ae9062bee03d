------------------------- MODULE ResultPersistence -------------------------
(***************************************************************************)
(* The formal results of an evaluation.  They are a pair of files, one per *)
(* mode, under a name made from their contents, and one pointer file that  *)
(* names the pair that counts.  Coordinators of several runs write them to *)
(* the same repository: a parallel coordinator holds the lease of its run  *)
(* and, for all of its evaluation, the one writer lease of the repository; *)
(* a serial one takes the writer lease when it has its results.  A lease   *)
(* is a file lock: it goes with the process.  Each has looked at the whole *)
(* repository when it began, and looks again before and after it writes.   *)
(*                                                                         *)
(* A step is one change that others can see.  Processes are killed, the    *)
(* power fails, and somebody may edit the repository meanwhile.            *)
(***************************************************************************)
EXTENDS Naturals, FiniteSets

CONSTANTS
  Coordinators, (* the processes that may be started                       *)
  Serial,       (* those of them that evaluate serially                    *)
  RunOf(_),     (* the run of each; its results name their own generation  *)
  None,         (* no coordinator, no run                                  *)
  MaxStarts,    (* bound: coordinators that are started                    *)
  MaxKills,     (* bound: coordinators that are killed                     *)
  MaxLosses,    (* bound: power failures                                   *)
  MaxEdits      (* bound: edits of the repository by others                *)

Runs == {RunOf(c) : c \in Coordinators}
Modes == {"forward", "lifecycle"}

ASSUME PersistenceConstants ==
  /\ Serial \subseteq Coordinators
  /\ None \notin Coordinators /\ None \notin Runs
  /\ \A n \in {MaxStarts, MaxKills, MaxLosses, MaxEdits} : n \in Nat

VARIABLES
  file,      (* file[r][m]: the generation file, "absent", "written" or,   *)
             (* with its name on disk for good, "durable"                  *)
  pointer,   (* the run whose pair the commit pointer names                *)
  saved,     (* the one it names after a power failure                     *)
  litter,    (* how many staged files killed writers have left             *)
  edits,     (* how often others have edited the repository                *)
  runLease,  (* runLease[r]: who holds coordinator.lock of the run         *)
  writer,    (* who holds the writer lease of the repository               *)
  pc,        (* where each coordinator is                                  *)
  base,      (* the repository as each has seen it when it began           *)
  result,    (* how each has ended                                         *)
  inherited, (* pairs with a file taken over before it was durable         *)
  acked,     (* the run last reported as committed, if its pair counts yet *)
  used       (* used[b]: what is used up of the bounds                     *)

repository == <<file, pointer, saved, litter, edits>>
leases == <<runLease, writer>>
locals == <<pc, base, result>>
history == <<inherited, acked>>
vars == <<repository, leases, locals, history, used>>

(* The rest of a pair is written while the first part is: a stage is per   *)
(* mode.                                                                   *)
Writing == {"forward", "sync forward", "lifecycle", "sync lifecycle"}
Persisting == Writing \cup {"point", "settle", "readback", "verify"}
Stages == {"down", "lease", "guard", "writer", "work", "check", "release",
           "end"} \cup Persisting

(* What a fingerprint of the repository tells apart.                       *)
Present == {f \in Runs \X Modes : file[f[1]][f[2]] # "absent"}
View == [pair |-> pointer, files |-> Present, temps |-> litter,
         edits |-> edits]
Unseen == [pair |-> None, files |-> {}, temps |-> 0, edits |-> 0]
PairOf(r) == {r} \X Modes
(* resolve_committed_result_pair: both files of the generation are there.  *)
Resolves(r) == PairOf(r) \subseteq Present
(* _expected_persisted_result_delta: what it saw, its pair and its pointer.*)
Expected(c) == [base[c] EXCEPT !.pair = RunOf(c),
                               !.files = @ \cup PairOf(RunOf(c))]

TypeOK ==
  /\ file \in [Runs -> [Modes -> {"absent", "written", "durable"}]]
  /\ pointer \in Runs \cup {None} /\ saved \in Runs \cup {None}
  /\ litter \in Nat /\ edits \in Nat
  /\ runLease \in [Runs -> Coordinators \cup {None}]
  /\ writer \in Coordinators \cup {None}
  /\ pc \in [Coordinators -> Stages]
  /\ \A c \in Coordinators : base[c].files \subseteq Runs \X Modes
  /\ result \in [Coordinators -> {"none", "failed", "committed"}]
  /\ inherited \subseteq Runs /\ acked \in Runs \cup {None}
  /\ used \in [{"starts", "kills", "losses"} -> Nat]

Init ==
  /\ file = [r \in Runs |-> [m \in Modes |-> "absent"]]
  /\ pointer = None /\ saved = None /\ litter = 0 /\ edits = 0
  /\ runLease = [r \in Runs |-> None] /\ writer = None
  /\ pc = [c \in Coordinators |-> "down"]
  /\ base = [c \in Coordinators |-> Unseen]
  /\ result = [c \in Coordinators |-> "none"]
  /\ inherited = {} /\ acked = None
  /\ used = [b \in {"starts", "kills", "losses"} |-> 0]

Spend(b, max) == used[b] < max /\ used' = [used EXCEPT ![b] = @ + 1]
At(c, stage) == pc[c] = stage
Go(c, stage) == pc' = [pc EXCEPT ![c] = stage]
Ends(c, how) == Go(c, "release") /\ result' = [result EXCEPT ![c] = how]
Keeps(c) == UNCHANGED <<base, result, history, used>>
(* The process is gone, and with it what it knew.                          *)
Exits(c) ==
  /\ Go(c, "down") /\ base' = [base EXCEPT ![c] = Unseen]
  /\ result' = [result EXCEPT ![c] = "none"]

-----------------------------------------------------------------------------
(* The beginning and the end of a coordinator.                             *)

Start(c) ==
  /\ At(c, "down") /\ Spend("starts", MaxStarts)
  /\ Go(c, IF c \in Serial THEN "guard" ELSE "lease")
  /\ UNCHANGED <<repository, leases, base, result, history>>

(* RunCoordinatorLease.acquire does not wait.                              *)
AcquireRun(c) ==
  /\ At(c, "lease")
  /\ IF runLease[RunOf(c)] = None
     THEN /\ runLease' = [runLease EXCEPT ![RunOf(c)] = c]
          /\ Go(c, "guard") /\ UNCHANGED result
     ELSE UNCHANGED runLease /\ Ends(c, "failed")
  /\ UNCHANGED <<repository, writer, base, history, used>>

(* CoordinatorGuard.capture; for a serial run, snapshot_production.        *)
CaptureGuard(c) ==
  /\ At(c, "guard")
  /\ base' = [base EXCEPT ![c] = View]
  /\ Go(c, IF c \in Serial THEN "work" ELSE "writer")
  /\ UNCHANGED <<repository, leases, result, history, used>>

(* ResultWriterLease.acquire does not wait either.                         *)
AcquireWriter(c) ==
  /\ At(c, "writer")
  /\ IF writer = None
     THEN /\ writer' = c /\ UNCHANGED result
          /\ Go(c, IF c \in Serial THEN "check" ELSE "work")
     ELSE UNCHANGED writer /\ Ends(c, "failed")
  /\ UNCHANGED <<repository, runLease, base, history, used>>

(* The evaluation: launch, teardown and validation in a parallel one.      *)
Work(c) ==
  /\ At(c, "work")
  /\ \/ Go(c, IF c \in Serial THEN "writer" ELSE "check") /\ UNCHANGED result
     \/ Ends(c, "failed")
  /\ UNCHANGED <<repository, leases, base, history, used>>

(* ResultWriterLease._validate_live: the locks are still its own.          *)
HoldsLeases(c) == writer = c /\ (c \in Serial \/ runLease[RunOf(c)] = c)

(* The checkpoint before persistence, assert_production_unchanged, and the *)
(* authority to write, which is used up.                                   *)
(* Mutant: what the repository looks like now is not compared.             *)
NoCheck(c) ==
  /\ At(c, "check") /\ Go(c, "forward")
  /\ UNCHANGED <<repository, leases>> /\ Keeps(c)
Check(c) ==
  /\ At(c, "check")
  /\ IF View = base[c] /\ HoldsLeases(c)
     THEN Go(c, "forward") /\ UNCHANGED result
     ELSE Ends(c, "failed")
  /\ UNCHANGED <<repository, leases, base, history, used>>

(* The writer lease is closed before the run lease.                        *)
Release(c) ==
  /\ At(c, "release")
  /\ writer' = IF writer = c THEN None ELSE writer
  /\ Go(c, "end")
  /\ UNCHANGED <<repository, runLease>> /\ Keeps(c)

End(c) ==
  /\ At(c, "end")
  /\ runLease' =
       [r \in Runs |-> IF runLease[r] = c THEN None ELSE runLease[r]]
  /\ Exits(c)
  /\ UNCHANGED <<repository, writer, history, used>>

-----------------------------------------------------------------------------
(* _persist_result_pair_retained.                                          *)

SyncStage(m) == IF m = "forward" THEN "sync forward" ELSE "sync lifecycle"
AfterMode(m) == IF m = "forward" THEN "lifecycle" ELSE "point"

(* A file of the generation that is there is read and left as it is: one   *)
(* of the same name has the same contents.                                 *)
Reuse(c, m) ==
  /\ At(c, m) /\ file[RunOf(c)][m] # "absent"
  /\ inherited' =
       inherited \cup {r \in {RunOf(c)} : file[r][m] # "durable"}
  /\ Go(c, AfterMode(m))
  /\ UNCHANGED <<repository, leases, base, result, acked, used>>

(* Else a staged file is renamed to it,                                    *)
Write(c, m) ==
  /\ At(c, m) /\ file[RunOf(c)][m] = "absent"
  /\ file' = [file EXCEPT ![RunOf(c)][m] = "written"]
  /\ Go(c, SyncStage(m))
  /\ UNCHANGED <<pointer, saved, litter, edits, leases>> /\ Keeps(c)

(* and the directory of all generations is synced.                         *)
Durable(r) == [m \in Modes |->
                 IF file[r][m] = "absent" THEN "absent" ELSE "durable"]
(* Mutant: it is not.                                                      *)
SyncNothing(c, m) ==
  /\ At(c, SyncStage(m)) /\ Go(c, AfterMode(m))
  /\ UNCHANGED <<repository, leases>> /\ Keeps(c)
Sync(c, m) ==
  /\ At(c, SyncStage(m))
  /\ file' = [r \in Runs |-> Durable(r)]
  /\ Go(c, AfterMode(m))
  /\ UNCHANGED <<pointer, saved, litter, edits, leases>> /\ Keeps(c)

(* The pointer is replaced in one step, and its directory synced.          *)
Point(c) ==
  /\ At(c, "point")
  /\ pointer' = RunOf(c)
  /\ acked' = IF acked = RunOf(c) THEN acked ELSE None
  /\ Go(c, "settle")
  /\ UNCHANGED <<file, saved, litter, edits, leases, base, result, inherited,
                 used>>

(* Mutant: it is not synced.                                               *)
SettleNothing(c) ==
  /\ At(c, "settle") /\ Go(c, "readback")
  /\ UNCHANGED <<repository, leases>> /\ Keeps(c)
Settle(c) ==
  /\ At(c, "settle")
  /\ saved' = pointer /\ Go(c, "readback")
  /\ UNCHANGED <<file, pointer, litter, edits, leases>> /\ Keeps(c)

(* What the pointer leads to must be the pair just written.                *)
ReadBack(c) ==
  /\ At(c, "readback")
  /\ IF pointer = RunOf(c) /\ Resolves(pointer)
     THEN Go(c, "verify") /\ UNCHANGED result
     ELSE Ends(c, "failed")
  /\ UNCHANGED <<repository, leases, base, history, used>>

(* The exact delta: nothing but the pair and the pointer has changed.  A   *)
(* commit that fails here stands nevertheless.                             *)
Verify(c) ==
  /\ At(c, "verify")
  /\ IF View = Expected(c)
     THEN Ends(c, "committed") /\ acked' = RunOf(c)
     ELSE Ends(c, "failed") /\ UNCHANGED acked
  /\ UNCHANGED <<repository, leases, base, inherited, used>>

-----------------------------------------------------------------------------
(* What may happen to them.                                                *)

(* A killed writer may leave the file it has staged.  The locks go.        *)
(* Mutant: a lease that stays until it is closed.                          *)
KilledHoldingOn(c) ==
  /\ ~At(c, "down") /\ Spend("kills", MaxKills)
  /\ Exits(c)
  /\ UNCHANGED <<repository, leases, history>>
Killed(c) ==
  /\ ~At(c, "down") /\ Spend("kills", MaxKills)
  /\ Exits(c)
  /\ writer' = IF writer = c THEN None ELSE writer
  /\ runLease' =
       [r \in Runs |-> IF runLease[r] = c THEN None ELSE runLease[r]]
  /\ litter' \in {litter} \cup
       {l \in {litter + 1} : pc[c] \in Modes \cup {"point"}}
  /\ UNCHANGED <<file, pointer, saved, edits, history>>

(* A name that was not synced is there after a power failure, or it is not.*)
PowerFails ==
  /\ Spend("losses", MaxLosses)
  /\ \E lost \in SUBSET {f \in Runs \X Modes : file[f[1]][f[2]] = "written"} :
       file' = [r \in Runs |-> [m \in Modes |->
                  IF <<r, m>> \in lost THEN "absent" ELSE Durable(r)[m]]]
  /\ pointer' \in {pointer, saved} /\ saved' = pointer'
  /\ pc' = [c \in Coordinators |-> "down"]
  /\ base' = [c \in Coordinators |-> Unseen]
  /\ result' = [c \in Coordinators |-> "none"]
  /\ writer' = None /\ runLease' = [r \in Runs |-> None]
  /\ UNCHANGED <<litter, edits, history>>

Edit ==
  /\ edits < MaxEdits /\ edits' = edits + 1
  /\ UNCHANGED <<file, pointer, saved, litter, leases, locals, history, used>>

-----------------------------------------------------------------------------
Persist(c) ==
  \/ \E m \in Modes : Reuse(c, m) \/ Write(c, m) \/ Sync(c, m)
  \/ Point(c) \/ Settle(c) \/ ReadBack(c) \/ Verify(c)
Steps(c) ==
  \/ AcquireRun(c) \/ CaptureGuard(c) \/ AcquireWriter(c) \/ Work(c)
  \/ Check(c) \/ Persist(c) \/ Release(c) \/ End(c)
Next ==
  \/ \E c \in Coordinators : Start(c) \/ Steps(c) \/ Killed(c)
  \/ PowerFails \/ Edit

Spec == Init /\ [][Next]_vars
(* A coordinator that is not killed goes on; its evaluation has timeouts.  *)
FairSpec == Spec /\ \A c \in Coordinators : WF_vars(Steps(c))

-----------------------------------------------------------------------------
(* Properties.                                                             *)

(* Readers follow the pointer.  Whatever is killed and whenever the power  *)
(* fails, the pair it names is complete; the exception is a pair with a    *)
(* file that a killed writer had renamed and not yet synced, and that the  *)
(* next writer of the same results took over without syncing it.           *)
PointerIsWhole ==
  pointer # None =>
    Resolves(pointer) \/ pointer \in inherited

(* No coordinator replaces results it has not seen when it began: a commit *)
(* by another, between its first look and its writer lease, is noticed     *)
(* before the pointer moves.                                               *)
NothingReplacedUnseen ==
  [][pointer' # pointer =>
       \/ \E c \in Coordinators :
            At(c, "point") /\ base[c].pair = pointer /\ writer = c
       \/ pointer' = saved]_vars

(* Results that were reported as committed stay the ones that count, also  *)
(* after a power failure, until another coordinator has replaced them.     *)
ReportedPairStands == acked # None => pointer = acked /\ saved = acked

(* Whoever holds the writer lease gives it back, also by dying: nobody has *)
(* to remove a lock by hand.                                               *)
WriterLeaseIsReturned ==
  \A c \in Coordinators : writer = c ~> writer # c
=============================================================================
