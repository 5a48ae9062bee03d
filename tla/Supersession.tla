--------------------------- MODULE Supersession ---------------------------
(***************************************************************************)
(* Records that supersede each other.  A run may be finished as superseded *)
(* by another run; validate_record follows the chain of successors record  *)
(* by record before the finish commits, and again in every report,         *)
(* snapshot and invalidation that reads the record.  A finish holds the    *)
(* lock of its own run only: the records of the chain are read without any *)
(* lock while other finishes may change them.                              *)
(*                                                                         *)
(* ObservationStore models how one record is replaced; here a finish       *)
(* commits or is rejected in one step.                                     *)
(***************************************************************************)

CONSTANTS
  Finishers,  (* the calls of `observe finish`                             *)
  Readers,    (* the calls that validate final records                     *)
  Runs,       (* run ids                                                   *)
  None        (* "no run"                                                  *)

Calls == Finishers \cup Readers

ASSUME FinishersAreNotReaders == Finishers \cap Readers = {}
ASSUME NoneIsNoRun == None \notin Runs

VARIABLES
  status,  (* status[r]: is <r>.md absent, a draft or final                *)
  succ,    (* succ[r]: the superseded_by of r's record, or None            *)
  pc,      (* where each call is                                           *)
  run,     (* the run a finish is about                                    *)
  by,      (* the superseded_by a finish asks for, or None                 *)
  todo,    (* the records a reader has still to validate                   *)
  chain,   (* reference_chain: the ids passed on the way                   *)
  at,      (* the record the walk has come to                              *)
  peek,    (* what that record was when its read began                     *)
  out,     (* how each call ended                                          *)
  overlap  (* did a finish begin while another was running?  Not in the    *)
           (* code: callers that run one at a time keep it FALSE           *)

store == <<status, succ>>
walk == <<chain, at, peek>>
vars == <<status, succ, pc, run, by, todo, chain, at, peek, out, overlap>>

Stages == {"idle", "lock", "next", "look", "read", "commit", "done"}
Entry(r) == [status |-> status[r], succ |-> succ[r]]
Entries == [status : {"absent", "draft", "final"}, succ : Runs \cup {None}]

TypeOK ==
  /\ status \in [Runs -> {"absent", "draft", "final"}]
  /\ succ \in [Runs -> Runs \cup {None}]
  /\ pc \in [Calls -> Stages]
  /\ run \in [Calls -> Runs \cup {None}]
  /\ by \in [Calls -> Runs \cup {None}]
  /\ todo \in [Calls -> SUBSET Runs]
  /\ chain \in [Calls -> SUBSET Runs]
  /\ at \in [Calls -> Runs \cup {None}]
  /\ peek \in [Calls -> Entries \cup {None}]
  /\ \A c \in Calls : pc[c] \in {"look", "read"} => at[c] \in Runs
  /\ out \in [Calls -> {"none", "ok", "state", "missing", "cycle",
                        "unstable", "io"}]
  /\ overlap \in BOOLEAN

Init ==
  /\ status \in [Runs -> {"absent", "draft"}]
  /\ succ = [r \in Runs |-> None]
  /\ pc = [c \in Calls |-> "idle"]
  /\ run = [c \in Calls |-> None]
  /\ by = [c \in Calls |-> None]
  /\ todo = [c \in Calls |-> {}]
  /\ chain = [c \in Calls |-> {}]
  /\ at = [c \in Calls |-> None]
  /\ peek = [c \in Calls |-> None]
  /\ out = [c \in Calls |-> "none"]
  /\ overlap = FALSE

-----------------------------------------------------------------------------
Goto(c, stage) == pc' = [pc EXCEPT ![c] = stage] /\ UNCHANGED out
Arrive(c, ids, r) ==
  /\ chain' = [chain EXCEPT ![c] = ids]
  /\ at' = [at EXCEPT ![c] = r]
(* What a call knows of its walk is gone when it returns.                  *)
Return(c, outcome) ==
  /\ pc' = [pc EXCEPT ![c] = "done"]
  /\ out' = [out EXCEPT ![c] = outcome]
  /\ todo' = [todo EXCEPT ![c] = {}]
  /\ peek' = [peek EXCEPT ![c] = None]
  /\ Arrive(c, {}, None)

Walking(c) == pc[c] \in {"look", "read"}
HoldsRunLock(c) == c \in Finishers /\ (Walking(c) \/ pc[c] = "commit")

(* A start elsewhere publishes a new draft.                                *)
Create(r) ==
  /\ status[r] = "absent"
  /\ status' = [status EXCEPT ![r] = "draft"]
  /\ UNCHANGED <<succ, pc, run, by, todo, walk, out, overlap>>

(* finish_observation: the status superseded names its successor, the      *)
(* other final statuses must not.                                          *)
BeginFinish(c) ==
  /\ pc[c] = "idle"
  /\ overlap' = \/ overlap
                 \/ \E d \in Finishers : pc[d] \notin {"idle", "done"}
  /\ \E r \in Runs, s \in Runs \cup {None} :
       /\ run' = [run EXCEPT ![c] = r]
       /\ by' = [by EXCEPT ![c] = s]
  /\ Goto(c, "lock")
  /\ UNCHANGED <<store, todo, walk>>

RunLockFree(c) == \A d \in Finishers : HoldsRunLock(d) => run[d] # run[c]
(* Mutant: the chain is never walked.                                      *)
TakeLockNeverWalks(c) ==
  /\ pc[c] = "lock" /\ RunLockFree(c) /\ status[run[c]] = "draft"
  /\ Goto(c, "commit")
  /\ UNCHANGED <<store, run, by, todo, walk, overlap>>
(* The run lock, the record, and the first step of its validation.         *)
TakeLock(c) ==
  /\ pc[c] = "lock" /\ RunLockFree(c)
  /\ \/ status[run[c]] # "draft" /\ Return(c, "state")
     \/ /\ status[run[c]] = "draft"
        /\ Goto(c, IF by[c] = None THEN "commit" ELSE "look")
        /\ Arrive(c, {run[c]}, by[c])
        /\ UNCHANGED <<todo, peek>>
  /\ UNCHANGED <<store, run, by, overlap>>

(* A report or a snapshot validates every record it lists, an invalidation *)
(* the one it is about.                                                    *)
BeginRead(c) ==
  /\ pc[c] = "idle"
  /\ \E rs \in {{r} : r \in Runs} \cup {Runs} :
       todo' = [todo EXCEPT ![c] = {r \in rs : status[r] # "absent"}]
  /\ Goto(c, "next")
  /\ UNCHANGED <<store, run, by, walk, overlap>>

(* Mutant: the chain of the record before is kept.                         *)
NextRecordKeepsChain(c) ==
  /\ pc[c] = "next"
  /\ \/ todo[c] = {} /\ Return(c, "ok")
     \/ \E r \in todo[c] :
          /\ todo' = [todo EXCEPT ![c] = @ \ {r}]
          /\ Arrive(c, chain[c], r)
          /\ Goto(c, "look")
          /\ UNCHANGED peek
  /\ UNCHANGED <<store, run, by, overlap>>
NextRecord(c) ==
  /\ pc[c] = "next"
  /\ \/ todo[c] = {} /\ Return(c, "ok")
     \/ \E r \in todo[c] :
          /\ todo' = [todo EXCEPT ![c] = @ \ {r}]
          /\ Arrive(c, {}, r)
          /\ Goto(c, "look")
          /\ UNCHANGED peek
  /\ UNCHANGED <<store, run, by, overlap>>

(* Mutant: the chain is not looked at.                                     *)
LookWithoutChain(c) ==
  /\ pc[c] = "look"
  /\ \/ status[at[c]] = "absent" /\ Return(c, "missing")
     \/ /\ status[at[c]] # "absent"
        /\ peek' = [peek EXCEPT ![c] = Entry(at[c])]
        /\ Goto(c, "read")
        /\ UNCHANGED <<todo, chain, at>>
  /\ UNCHANGED <<store, run, by, overlap>>
(* validate_record refuses a successor that is on the chain already; the   *)
(* read of any other begins with a stat of its entry.                      *)
Look(c) ==
  /\ pc[c] = "look"
  /\ \/ at[c] \in chain[c] /\ Return(c, "cycle")
     \/ /\ at[c] \notin chain[c] /\ status[at[c]] = "absent"
        /\ Return(c, "missing")
     \/ /\ at[c] \notin chain[c] /\ status[at[c]] # "absent"
        /\ peek' = [peek EXCEPT ![c] = Entry(at[c])]
        /\ Goto(c, "read")
        /\ UNCHANGED <<todo, chain, at>>
  /\ UNCHANGED <<store, run, by, overlap>>

(* Mutant: the walk goes on without remembering where it was.              *)
ReadTargetForgets(c) ==
  /\ pc[c] = "read"
  /\ \/ /\ succ[at[c]] # None
        /\ Arrive(c, chain[c], succ[at[c]])
        /\ Goto(c, "look")
     \/ /\ succ[at[c]] = None
        /\ Goto(c, IF c \in Finishers THEN "commit" ELSE "next")
        /\ UNCHANGED <<chain, at>>
  /\ UNCHANGED <<store, run, by, todo, peek, overlap>>
(* The content counts only when the entry did not change meanwhile.  The   *)
(* walk goes on with the successor of a superseded record and is over at   *)
(* any other.                                                              *)
ReadTarget(c) ==
  /\ pc[c] = "read"
  /\ \/ peek[c] # Entry(at[c]) /\ Return(c, "unstable")
     \/ /\ peek[c] = Entry(at[c]) /\ succ[at[c]] # None
        /\ Arrive(c, chain[c] \cup {at[c]}, succ[at[c]])
        /\ Goto(c, "look")
        /\ UNCHANGED <<todo, peek>>
     \/ /\ peek[c] = Entry(at[c]) /\ succ[at[c]] = None
        /\ Goto(c, IF c \in Finishers THEN "commit" ELSE "next")
        /\ UNCHANGED <<todo, peek, chain, at>>
  /\ UNCHANGED <<store, run, by, overlap>>

(* _replace_completed_record: all or nothing (ObservationStore).           *)
Commit(c) ==
  /\ pc[c] = "commit"
  /\ \/ /\ status' = [status EXCEPT ![run[c]] = "final"]
        /\ succ' = [succ EXCEPT ![run[c]] = by[c]]
        /\ Return(c, "ok")
     \/ Return(c, "io") /\ UNCHANGED store
  /\ UNCHANGED <<run, by, overlap>>

Terminated ==
  /\ \A c \in Calls : pc[c] = "done"
  /\ UNCHANGED vars

FinishStep(c) == BeginFinish(c) \/ TakeLock(c) \/ Commit(c)
ReadStep(c) == BeginRead(c) \/ NextRecord(c)
CallStep(c) ==
  \/ c \in Finishers /\ FinishStep(c)
  \/ c \in Readers /\ ReadStep(c)
  \/ Look(c)
  \/ ReadTarget(c)

Next ==
  \/ \E c \in Calls : CallStep(c)
  \/ \E r \in Runs : Create(r)
  \/ Terminated

Spec == Init /\ [][Next]_vars

(* The scheduler runs every process that began.                            *)
FairSpec ==
  Spec /\ \A c \in Calls : WF_vars(pc[c] # "idle" /\ CallStep(c))

-----------------------------------------------------------------------------
(* A function s of successors has a cycle when some nonempty set of runs   *)
(* is closed under it.                                                     *)
Closed(S, s) == S # {} /\ \A r \in S : s[r] \in S
HasCycle(s) == \E S \in SUBSET Runs : Closed(S, s)

(* "superseded_by must not create a cycle": no chain of successors leads   *)
(* back to where it began.  One that does makes every later report,        *)
(* snapshot and invalidation of the store fail.                            *)
NoSupersessionCycle == ~HasCycle(succ)

(* As long as callers run one finish at a time, beside any readers and new *)
(* drafts, the chain walk keeps the successors free of cycles.             *)
CycleNeedsOverlap == HasCycle(succ) => overlap

(* A call that fails for a cycle is right: there is one, or the finish     *)
(* asked for one.  Neither a record replaced during the walk nor a chain   *)
(* that other finishes extend makes a call see a cycle that is not there.  *)
CycleVerdictsAreRight ==
  \A c \in Calls : out[c] = "cycle" =>
    \/ HasCycle(succ)
    \/ c \in Finishers /\ HasCycle([succ EXCEPT ![run[c]] = by[c]])

(* No reader finds that the successor of a record is missing.              *)
NoReaderMissesASuccessor == \A c \in Readers : out[c] # "missing"

(* Walks end, on a cycle too: each step lengthens the chain.               *)
EveryWalkEnds == <>[](\A c \in Calls : pc[c] \in {"idle", "done"})
=============================================================================
