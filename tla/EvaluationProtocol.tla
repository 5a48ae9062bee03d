------------------------- MODULE EvaluationProtocol -------------------------
(***************************************************************************)
(* Coordinator and workers of a parallel evaluation.  A worker per lane    *)
(* runs the lane's cases; before and after each it leaves a progress       *)
(* message in a directory and waits for the acknowledgement, which carries *)
(* the coordinator's decision.  The coordinator's ledger decides from what *)
(* it has accepted of all the lanes, and it is in memory only.  When the   *)
(* coordinator is killed, its workers go on until they wait for an answer; *)
(* the next coordinator first makes sure that they are dead, then rebuilds *)
(* the ledger from the messages and acknowledgements on disk, in an order  *)
(* of its own, and launches the lanes again if everything fits together.   *)
(* If not, all it does is clean up.                                        *)
(*                                                                         *)
(* A step is one durable change.  CaseAttempts has what happens to a case  *)
(* between two messages.                                                   *)
(***************************************************************************)
EXTENDS Naturals, Sequences, FiniteSetsExt

CONSTANTS
  Plan,        (* the number of cases of each lane, lane after lane        *)
  MaxTokens,   (* the launch ceiling, max_total_tokens                     *)
  Usages,      (* the tokens a successful case may use                     *)
  MaxRuns,     (* bound: coordinators of this run, one after the other     *)
  MaxKills,    (* bound: processes that end without a word                 *)
  MaxFailures  (* bound: cases that fail, and acknowledgements             *)

Lanes == DOMAIN Plan
Cases(l) == 1 .. Plan[l]

ASSUME ProtocolConstants ==
  /\ Plan \in Seq(Nat \ {0}) /\ Plan # << >> /\ MaxTokens \in Nat
  /\ Usages \subseteq Nat \ {0} /\ Usages # {}
  /\ MaxRuns \in Nat /\ MaxKills \in Nat /\ MaxFailures \in Nat

VARIABLES
  tried,     (* tried[l]: the attempts of lane l with their ends, on disk  *)
  shard,     (* shard[l]: the attempts of the lane's sealed shard, or {}   *)
  tomb,      (* tomb[l]: the cases of lane l with a tombstone on disk      *)
  prog,      (* prog[l]: the messages progress/NNNNNN.json of lane l       *)
  acks,      (* acks[l]: the decisions acks/NNNNNN.json for them           *)
  marker,    (* marker[l]: a write to either directory was cut short       *)
  group,     (* group[l]: is the lane's live worker in process-groups?     *)
  armed,     (* the credentials: "none" yet, "armed" or "torn" down        *)
  stopMark,  (* is coordinator/stop-launches.json there?                   *)
  wpc,       (* where each worker is                                       *)
  say,       (* what it will say next                                      *)
  todo,      (* the cases of its resume plan it has still to run           *)
  cpc,       (* where the coordinator is, "down" between two of them       *)
  resumes,   (* was it started to resume the run?                          *)
  known,     (* the lanes it has launched and registered                   *)
  stopped,   (* the lanes it has seen the proper end of                    *)
  led,       (* its ledger                                                 *)
  used       (* used[b]: what is used up of the bounds                     *)

disk == <<tried, shard, tomb, prog, acks, marker, group, armed, stopMark>>
workers == <<wpc, say, todo>>
memory == <<cpc, resumes, known, stopped, led>>
vars == <<disk, workers, memory, used>>

Ends == {"open", "success", "retryable", "failed"}
(* proved: the terminal record names the case's tombstone.                 *)
Attempt == [case : Nat, try : {1, 2}, end : Ends, tokens : Nat,
            proved : BOOLEAN]
Kinds == {"lane-ready", "case-started", "case-terminal", "shard-terminal",
          "worker-stopped"}
Message == [kind : Kinds, attempt : Seq(Attempt)]
Dead == {"none", "exited", "dead"}
WorkerStages == Dead \cup {"boot", "pick", "drive", "seal", "write", "wait"}
Stages == {"down", "open", "quiesce", "replay", "launch", "record", "run",
           "exit", "cancel", "stop", "cleanup"}

Fresh == [total |-> 0, stop |-> MaxTokens = 0, aborted |-> FALSE,
          seen |-> [l \in Lanes |-> 0], active |-> [l \in Lanes |-> {}],
          retry |-> [l \in Lanes |-> {}], done |-> {}, exited |-> {}]

TypeOK ==
  /\ \A l \in Lanes :
       /\ \A i \in 1 .. Len(tried[l]) :
            tried[l][i] \in Attempt /\ tried[l][i].case \in Cases(l)
       /\ shard[l] \subseteq {tried[l][i] : i \in DOMAIN tried[l]}
       /\ \A i \in 1 .. Len(prog[l]) : prog[l][i].kind \in Kinds
       /\ Len(acks[l]) \in {Len(prog[l]), Len(prog[l]) - 1}
  /\ tomb \in [Lanes -> SUBSET Nat]
  /\ marker \in [Lanes -> BOOLEAN] /\ group \in [Lanes -> BOOLEAN]
  /\ armed \in {"none", "armed", "torn"} /\ stopMark \in BOOLEAN
  /\ wpc \in [Lanes -> WorkerStages] /\ todo \in [Lanes -> SUBSET Nat]
  /\ cpc \in Stages /\ resumes \in BOOLEAN
  /\ known \subseteq Lanes /\ stopped \subseteq known
  /\ led.total \in Nat /\ led.seen \in [Lanes -> Nat]
  /\ led.exited \subseteq Lanes
  /\ used \in [{"runs", "kills", "failures"} -> Nat]

Init ==
  /\ tried = [l \in Lanes |-> << >>]
  /\ shard = [l \in Lanes |-> {}] /\ tomb = shard
  /\ prog = tried /\ acks = tried
  /\ marker = [l \in Lanes |-> FALSE] /\ group = marker
  /\ armed = "none" /\ stopMark = FALSE
  /\ wpc = [l \in Lanes |-> "none"] /\ say = [l \in Lanes |-> "none"]
  /\ todo = [l \in Lanes |-> {}]
  /\ cpc = "down" /\ resumes = FALSE
  /\ known = {} /\ stopped = {} /\ led = Fresh
  /\ used = [b \in {"runs", "kills", "failures"} |-> 0]

Spend(b, max) == used[b] < max /\ used' = [used EXCEPT ![b] = @ + 1]
Alive(l) == wpc[l] \notin Dead
LastOf(s) == s[Len(s)]

-----------------------------------------------------------------------------
(* The ledger.                                                             *)

AttemptOf(m) ==
  {<<m.attempt[i].case, m.attempt[i].try>> : i \in DOMAIN m.attempt}
TokensOf(m) ==
  IF m.kind = "case-terminal" THEN m.attempt[1].tokens ELSE 0
FailedCase(m) == m.kind = "case-terminal" /\ m.attempt[1].end # "success"
(* decide_retry of the durable attempt: an infrastructure failure of the   *)
(* first attempt, before the model started, with its cleanup passed.       *)
Retryable(m) == m.attempt[1].end = "retryable"
FailedShard(m) == m.kind = "shard-terminal" /\ m.attempt # << >>

(* The ceiling is sticky: once reached it stays so.                        *)
(* Mutant: it is forgotten which stop has been decided before.             *)
ReachesCeilingNow(L, m) == L.total + TokensOf(m) > MaxTokens
ReachesCeiling(L, m) == L.stop \/ L.total + TokensOf(m) >= MaxTokens

Decision(L, l, m) ==
  IF L.aborted THEN "abort"
  ELSE IF FailedCase(m) THEN
    IF Retryable(m) /\ ~ReachesCeiling(L, m) THEN "retry" ELSE "abort"
  ELSE IF \/ FailedShard(m)
          \/ /\ m.kind = "worker-stopped"
             /\ L.active[l] \cup L.retry[l] # {}
  THEN "abort"
  ELSE IF ReachesCeiling(L, m) THEN "stop-launches" ELSE "continue"

(* What a message must fit to be accepted at all, its number aside.        *)
Authorised(L, l, m) ==
  /\ l \notin L.exited
  /\ m.kind = "case-started" =>
       /\ L.active[l] = {} /\ ~(\E a \in AttemptOf(m) : <<l, a>> \in L.done)
       /\ IF L.retry[l] # {} THEN AttemptOf(m) = L.retry[l]
                             ELSE m.attempt[1].try = 1
  /\ m.kind = "case-terminal" => L.active[l] = AttemptOf(m)

Accepted(L, l, m) ==
  LET d == Decision(L, l, m)
      starts == m.kind = "case-started" /\ d = "continue"
      ends == m.kind = "case-terminal"
  IN [L EXCEPT
       !.total = @ + TokensOf(m),
       !.stop = ReachesCeiling(L, m),
       !.aborted = @ \/ d = "abort",
       !.seen[l] = @ + 1,
       !.active[l] = IF starts THEN AttemptOf(m) ELSE IF ends THEN {} ELSE @,
       !.retry[l] =
         IF starts THEN {}
         ELSE IF ~ends THEN @
         ELSE IF d = "retry" THEN {<<m.attempt[1].case, 2>>} ELSE {},
       !.done = IF ends THEN @ \cup {<<l, a>> : a \in AttemptOf(m)} ELSE @,
       !.exited = IF m.kind = "worker-stopped" THEN @ \cup {l} ELSE @]

-----------------------------------------------------------------------------
(* What the records on disk must say for a message to be written, read or  *)
(* replayed.  The records go on to change after a message was written, and *)
(* each message is read again by every resume.                             *)

AttemptsOf(l, c) ==
  {tried[l][i] : i \in {j \in DOMAIN tried[l] : tried[l][j].case = c}}

(* _read_progress_attempt: the terminal record is the message's, and a     *)
(* second attempt has its own, unless the message is about the first one   *)
(* and that was to be retried.                                             *)
(* Mutant: a second attempt that is under way is refused.                  *)
AttemptStandsAlone(l, a) ==
  a \in AttemptsOf(l, a.case)
    /\ \A b \in AttemptsOf(l, a.case) : b.end # "open"
AttemptStands(l, a) ==
  /\ a \in AttemptsOf(l, a.case)
  /\ \A b \in AttemptsOf(l, a.case) :
       b.try = 2 => b.end # "open" \/ (a.try = 1 /\ a.end = "retryable")

(* _validate_progress_case_commit: the case is committed by this attempt   *)
(* if it succeeded, and otherwise only by the retry of it.                 *)
CommitStands(l, a) ==
  \A b \in AttemptsOf(l, a.case) :
    b.end = "success" =>
      b = a \/ (a.try = 1 /\ a.end = "retryable" /\ b.try = 2)

(* _validate_shard_terminals: the terminals of a shard are attempts that   *)
(* are there, one for each of the lane's first cases; only the last one    *)
(* may have failed, and if it did not, they are all the cases.             *)
ShardStands(l) ==
  /\ shard[l] # {}
  /\ \A a \in shard[l] : a \in AttemptsOf(l, a.case) /\ CommitStands(l, a)
  /\ {a.case : a \in shard[l]} = 1 .. Cardinality(shard[l])
  /\ \A a \in shard[l] :
       a.end # "success" => a.case = Cardinality(shard[l])
  /\ (\A a \in shard[l] : a.end = "success") =>
       Cardinality(shard[l]) = Plan[l]

ShardBearsOut(l, m) ==
  /\ ShardStands(l)
  /\ (m.attempt # << >>) <=> \E a \in shard[l] : a.end # "success"

RecordsAgree(l, m) ==
  CASE m.kind = "case-terminal" ->
         AttemptStands(l, m.attempt[1]) /\ CommitStands(l, m.attempt[1])
    [] m.kind = "shard-terminal" -> ShardBearsOut(l, m)
    [] OTHER -> TRUE

(* _validate_progress_tombstone, and the same for each terminal of a       *)
(* shard: an end names the case's tombstone if and only if there is one.   *)
(* (The one of a first attempt is set aside for the second.)               *)
EndsTold(l, m) ==
  CASE m.kind = "case-terminal" -> {m.attempt[1]}
    [] m.kind = "shard-terminal" -> shard[l]
    [] OTHER -> {}
TombstoneStands(l, a) == a.proved <=> a.case \in tomb[l]
ProofsStand(l, m) == \A a \in EndsTold(l, m) : TombstoneStands(l, a)

BorneOut(l, m) == RecordsAgree(l, m) /\ ProofsStand(l, m)

(* What a worker puts into its lane's seal: how each case ended.           *)
Terminals(l) ==
  {a \in UNION {AttemptsOf(l, c) : c \in Cases(l)} :
     a.end # "open" /\ \A b \in AttemptsOf(l, a.case) : b.try <= a.try}
SealAgrees(l) == shard[l] \in {{}, Terminals(l)}

-----------------------------------------------------------------------------
(* The workers.                                                            *)

DiskKeeps == UNCHANGED <<tried, shard, tomb, prog, acks>>
WorkerKeeps == UNCHANGED <<marker, group, armed, stopMark, memory, used>>
Goes(l, stage) == wpc' = [wpc EXCEPT ![l] = stage]
WillSay(l, kind) == say' = [say EXCEPT ![l] = kind] /\ Goes(l, "write")
(* The end of processes: what they had in mind is gone with them.          *)
End(gone, stage) ==
  /\ wpc' = [l \in Lanes |-> IF l \in gone THEN stage ELSE wpc[l]]
  /\ say' = [l \in Lanes |-> IF l \in gone THEN "none" ELSE say[l]]
  /\ todo' = [l \in Lanes |-> IF l \in gone THEN {} ELSE todo[l]]
Living == {l \in Lanes : Alive(l)}

(* _next_worker_sequence: every message of an earlier worker has its       *)
(* acknowledgement, or the worker gives up at once.                        *)
Boot(l) ==
  /\ wpc[l] = "boot" /\ ~marker[l] /\ Len(acks[l]) = Len(prog[l])
  /\ WillSay(l, "lane-ready")
  /\ DiskKeeps /\ UNCHANGED todo /\ WorkerKeeps

(* The next case of the plan, or the end of the lane.                      *)
Committed(l) == {tried[l][i].case : i \in
                   {j \in DOMAIN tried[l] : tried[l][j].end = "success"}}
(* A worker takes up what its lane has not committed yet.                  *)
Pending(l) == Cases(l) \ Committed(l)
LastFailed(l) == tried[l] # << >> /\ LastOf(tried[l]).end \in {"failed",
                                                             "retryable"}
EndOfLane(l) ==
  IF Committed(l) = Cases(l) \/ LastFailed(l)
  THEN Goes(l, "seal") /\ say' = [say EXCEPT ![l] = "none"]
  ELSE WillSay(l, "worker-stopped")

Pick(l) ==
  /\ wpc[l] = "pick" /\ todo[l] # {}
  /\ \E c \in todo[l] :
       /\ \A d \in todo[l] : c <= d
       /\ todo' = [todo EXCEPT ![l] = @ \ {c}]
       /\ tried' = [tried EXCEPT ![l] = Append(@,
            [case |-> c, try |-> 1, end |-> "open", tokens |-> 0,
             proved |-> FALSE])]
  /\ WillSay(l, "case-started")
  /\ UNCHANGED <<shard, tomb, prog, acks>> /\ WorkerKeeps

NothingLeft(l) ==
  /\ wpc[l] = "pick" /\ todo[l] = {}
  /\ EndOfLane(l)
  /\ DiskKeeps /\ UNCHANGED todo /\ WorkerKeeps

(* seal_shard, when every case of the lane is committed or its last one    *)
(* has failed.  An earlier worker may have sealed the shard and died: then *)
(* the seal must be the same, or the worker fails.                         *)
SealShard(l) ==
  /\ wpc[l] = "seal" /\ SealAgrees(l)
  /\ shard' = [shard EXCEPT ![l] = Terminals(l)]
  /\ WillSay(l, "shard-terminal")
  /\ UNCHANGED <<tried, tomb, prog, acks, todo>> /\ WorkerKeeps

(* A case runs, its home is scrubbed, which the tombstone proves, and its  *)
(* terminal record is written.  Whoever succeeds, or may be run again, has *)
(* the proof; a case may also have failed for want of it.                  *)
Finish(l, end, tokens, proved) ==
  /\ wpc[l] = "drive"
  /\ tried' = [tried EXCEPT ![l][Len(tried[l])] =
       [@ EXCEPT !.end = end, !.tokens = tokens, !.proved = proved]]
  /\ tomb' = [tomb EXCEPT ![l] =
       IF proved THEN @ \cup {LastOf(tried[l]).case} ELSE @]
  /\ WillSay(l, "case-terminal")
  /\ UNCHANGED <<shard, prog, acks, todo, marker, group, armed, stopMark,
                 memory>>

CaseSucceeds(l) ==
  \E t \in Usages : Finish(l, "success", t, TRUE) /\ UNCHANGED used
CaseFails(l) ==
  /\ \/ Finish(l, "retryable", 0, TRUE)
     \/ \E proved \in BOOLEAN : Finish(l, "failed", 0, proved)
  /\ Spend("failures", MaxFailures)

(* A progress message says which attempt it is about, and a shard's which  *)
(* one it failed for.                                                      *)
Says(l) ==
  [kind |-> say[l],
   attempt |-> IF \/ say[l] \in {"case-started", "case-terminal"}
                  \/ say[l] = "shard-terminal" /\ LastFailed(l)
               THEN <<LastOf(tried[l])>> ELSE << >>]

WriteProgress(l) ==
  /\ wpc[l] = "write" /\ ~marker[l] /\ BorneOut(l, Says(l))
  /\ prog' = [prog EXCEPT ![l] = Append(@, Says(l))]
  /\ Goes(l, "wait")
  /\ UNCHANGED <<tried, shard, tomb, acks, say, todo>> /\ WorkerKeeps

(* The answer.  A second attempt is begun and announced, but its reset of  *)
(* the case does not get by the home of the first: the worker leaves (run  *)
(* attempts_retry of CaseAttempts).                                        *)
Answer(l) == LastOf(acks[l])
HasAnswer(l) == wpc[l] = "wait" /\ Len(acks[l]) = Len(prog[l]) /\ ~marker[l]

GoOn(l) ==
  /\ HasAnswer(l) /\ Answer(l) = "continue"
  /\ say[l] \in {"lane-ready", "case-started", "case-terminal"}
  /\ IF say[l] = "case-started" /\ LastOf(tried[l]).try = 2
     THEN End({l}, "dead")
     ELSE Goes(l, IF say[l] = "case-started" THEN "drive" ELSE "pick")
            /\ UNCHANGED <<say, todo>>
  /\ DiskKeeps /\ WorkerKeeps

(* Mutant: the second attempt goes by the number of the first.             *)
TryAgainAsFirst(l) ==
  /\ HasAnswer(l) /\ Answer(l) = "retry"
  /\ tried' = [tried EXCEPT ![l] =
                 Append(@, [LastOf(@) EXCEPT !.end = "open",
                                             !.proved = FALSE])]
  /\ WillSay(l, "case-started")
  /\ UNCHANGED <<shard, tomb, prog, acks, todo>> /\ WorkerKeeps
TryAgain(l) ==
  /\ HasAnswer(l) /\ Answer(l) = "retry"
  /\ tried' = [tried EXCEPT ![l] = Append(@,
       [case |-> LastOf(@).case, try |-> 2, end |-> "open", tokens |-> 0,
        proved |-> FALSE])]
  /\ WillSay(l, "case-started")
  /\ UNCHANGED <<shard, tomb, prog, acks, todo>> /\ WorkerKeeps

StopHere(l) ==
  /\ HasAnswer(l) /\ Answer(l) \in {"stop-launches", "abort"}
  /\ say[l] \in {"lane-ready", "case-started", "case-terminal"}
  /\ EndOfLane(l)
  /\ DiskKeeps /\ UNCHANGED todo /\ WorkerKeeps

AfterShard(l) ==
  /\ HasAnswer(l) /\ say[l] = "shard-terminal"
  /\ WillSay(l, "worker-stopped")
  /\ DiskKeeps /\ UNCHANGED todo /\ WorkerKeeps

Exit(l) ==
  /\ HasAnswer(l) /\ say[l] = "worker-stopped"
  /\ End({l}, "exited")
  /\ DiskKeeps /\ WorkerKeeps

(* Nobody answers any more: after 300 s the worker leaves with an error.   *)
(* So it does when what it reads or writes was cut short by somebody.      *)
AckTimesOut(l) ==
  /\ wpc[l] = "wait" /\ ~HasAnswer(l)
  /\ cpc \notin {"launch", "record", "run", "exit"}
  /\ End({l}, "dead")
  /\ DiskKeeps /\ WorkerKeeps

GivesUp(l) ==
  /\ \/ wpc[l] \in {"write", "wait"} /\ marker[l]
     \/ wpc[l] = "boot" /\ (marker[l] \/ Len(acks[l]) # Len(prog[l]))
  /\ End({l}, "dead")
  /\ DiskKeeps /\ WorkerKeeps

(* A write begins with a marker file, which goes when the record is there  *)
(* for good; one that is cut short leaves it, and no reader goes by it.    *)
MayBeCutShort(writes) ==
  marker' \in {marker} \cup {[marker EXCEPT ![l] = TRUE] : l \in writes}

(* A worker is killed, perhaps in the middle of its write.                 *)
WorkerDies(l) ==
  /\ Alive(l) /\ Spend("kills", MaxKills)
  /\ MayBeCutShort({l} \cap {k \in Lanes : wpc[k] = "write"})
  /\ End({l}, "dead")
  /\ DiskKeeps /\ UNCHANGED <<group, armed, stopMark, memory>>

-----------------------------------------------------------------------------
(* The coordinator: how it begins.                                         *)

Enters(stage) == cpc' = stage /\ UNCHANGED <<resumes, known, stopped, led>>
Over == cpc' = "down" /\ known' = {} /\ stopped' = {} /\ led' = Fresh
          /\ resumes' = FALSE

CoordinatorStarts ==
  /\ cpc = "down" /\ Spend("runs", MaxRuns)
  /\ cpc' = "open" /\ resumes' \in BOOLEAN
  /\ UNCHANGED <<disk, workers, known, stopped, led>>

CleanupOnly ==
  \/ stopMark /\ armed # "torn"
  \/ armed # "none" /\ ~resumes

OpenForCleanup ==
  /\ cpc = "open" /\ CleanupOnly
  /\ stopMark' = TRUE /\ Enters("stop")
  /\ DiskKeeps /\ UNCHANGED <<marker, group, armed, workers, used>>

OpenFresh ==
  /\ cpc = "open" /\ ~CleanupOnly /\ ~resumes
  /\ armed' = "armed" /\ Enters("launch")
  /\ DiskKeeps /\ UNCHANGED <<marker, group, stopMark, workers, used>>

OpenResume ==
  /\ cpc = "open" /\ ~CleanupOnly /\ resumes
  /\ armed' = (IF armed = "none" THEN "armed" ELSE armed)
  /\ Enters("quiesce")
  /\ DiskKeeps /\ UNCHANGED <<marker, group, stopMark, workers, used>>

(* _recover_durable_worker_groups: it kills every group that is recorded,  *)
(* and refuses to go on if the lock of a lane is held by a worker that was *)
(* launched but not recorded before its coordinator was killed.            *)
(* Mutant: a lane without a record is taken for one without a worker.      *)
UnrecordedNone == FALSE
Unrecorded == \E l \in Lanes : Alive(l) /\ ~group[l]
KillRecorded == End({l \in Living : group[l]}, "dead")

(* Rearming comes with it: the bootstrap is made again after a teardown.   *)
Quiesce ==
  /\ cpc = "quiesce" /\ ~Unrecorded
  /\ KillRecorded
  /\ stopMark' = (stopMark /\ armed # "torn") /\ armed' = "armed"
  /\ Enters("replay")
  /\ DiskKeeps /\ UNCHANGED <<marker, group, used>>

StopWorkers ==
  /\ cpc = "stop" /\ ~Unrecorded
  /\ KillRecorded /\ Enters("cleanup")
  /\ DiskKeeps /\ UNCHANGED <<marker, group, armed, stopMark, used>>

RefusesToGoOn ==
  /\ cpc \in {"quiesce", "stop"} /\ Unrecorded
  /\ stopMark' = TRUE /\ Over
  /\ DiskKeeps /\ UNCHANGED <<marker, group, armed, workers, used>>

-----------------------------------------------------------------------------
(* _resume_protocol_bindings: the ledger again, from a complete prefix of  *)
(* acknowledged messages of every lane.  All of them are read first, and   *)
(* one that the records contradict is the end of it.  The order in which   *)
(* they were accepted is not recorded: one after the other it takes a      *)
(* message whose decision would be the recorded one, going on before       *)
(* stopping before aborting.                                               *)

Unseen(l) == led.seen[l] < Len(prog[l])
NextOf(l) == prog[l][led.seen[l] + 1]
Complete == \A l \in Lanes : ~marker[l] /\ Len(acks[l]) = Len(prog[l])
Contradicted ==
  \E l \in Lanes : \E i \in DOMAIN prog[l] : ~BorneOut(l, prog[l][i])
Priority(d) ==
  CASE d \in {"continue", "retry"} -> 0 [] d = "stop-launches" -> 1
    [] OTHER -> 2
Replayable(l) ==
  Unseen(l) /\ Decision(led, l, NextOf(l)) = acks[l][led.seen[l] + 1]
(* Mutant: the first lane that fits, whatever its decision.                *)
ComesFirstByLane(l) == \A k \in Lanes : Replayable(k) => l <= k
ComesFirst(l) ==
  \A k \in Lanes : Replayable(k) =>
    LET p == Priority(acks[l][led.seen[l] + 1])
        q == Priority(acks[k][led.seen[k] + 1])
    IN p < q \/ (p = q /\ l <= k)

ReplayRecord(l) ==
  /\ cpc = "replay" /\ Complete /\ ~Contradicted
  /\ Replayable(l) /\ ComesFirst(l)
  /\ led' = Accepted(led, l, NextOf(l))
  /\ UNCHANGED <<disk, workers, cpc, resumes, known, stopped, used>>

Replayed == Complete /\ \A l \in Lanes : ~Unseen(l)
StuckInReplay ==
  Complete /\ ~Replayed /\ ~(\E l \in Lanes : Replayable(l))

(* What of the replay and of plan_resume's verdict sends it into cleanup.  *)
SealedAttempts ==
  UNION {{<<l, <<tried[l][i].case, tried[l][i].try>>>> :
            i \in {j \in DOMAIN tried[l] : tried[l][j].end # "open"}} :
         l \in Lanes}
InvalidCase ==
  \E l \in Lanes :
    LastFailed(l) \/ (\E i \in DOMAIN tried[l] : tried[l][i].end = "open")
RequiresCleanup ==
  \/ InvalidCase \/ led.aborted \/ led.stop \/ led.exited # {}
  \/ \E l \in Lanes : led.active[l] # {}
MayLaunch == Replayed /\ led.done = SealedAttempts /\ ~RequiresCleanup

ReplayLaunches ==
  /\ cpc = "replay" /\ MayLaunch
  /\ Enters("launch")
  /\ UNCHANGED <<disk, workers, used>>

ReplayCleansUp ==
  /\ cpc = "replay" /\ ~MayLaunch
  /\ ~Complete \/ Contradicted \/ StuckInReplay \/ Replayed
  /\ Enters("cleanup")
  /\ UNCHANGED <<disk, workers, used>>

-----------------------------------------------------------------------------
(* The coordinator: how it runs.                                           *)

(* _launch_parallel_workers: a lane's worker, then the record of its       *)
(* process group, then the next lane.                                      *)
Spawn(l) ==
  /\ cpc = "launch" /\ l \notin known /\ \A k \in Lanes \ known : l <= k
  /\ wpc' = [wpc EXCEPT ![l] = "boot"] /\ group' = [group EXCEPT ![l] = FALSE]
  /\ todo' = [todo EXCEPT ![l] = Pending(l)]
  /\ Enters("record")
  /\ DiskKeeps /\ UNCHANGED <<marker, armed, stopMark, say, used>>

Register(l) ==
  /\ cpc = "record" /\ l \notin known /\ \A k \in Lanes \ known : l <= k
  /\ group' = [group EXCEPT ![l] = TRUE] /\ known' = known \cup {l}
  /\ cpc' = IF known' = Lanes THEN "run" ELSE "launch"
  /\ DiskKeeps
  /\ UNCHANGED <<marker, armed, stopMark, workers, resumes, stopped, led,
                 used>>

(* accept_progress: the ledger decides, the acknowledgement is written,    *)
(* and an abort cancels the run.                                           *)
Readable(l) ==
  cpc = "run" /\ l \in known \ stopped /\ Unseen(l) /\ ~marker[l]
Accept(l) ==
  /\ Readable(l) /\ BorneOut(l, NextOf(l)) /\ Authorised(led, l, NextOf(l))
  /\ LET d == Decision(led, l, NextOf(l))
     IN /\ acks' = [acks EXCEPT ![l] = Append(@, d)]
        /\ led' = Accepted(led, l, NextOf(l))
        /\ cpc' = IF d = "abort" THEN "cancel"
                  ELSE IF NextOf(l).kind = "worker-stopped" THEN "exit"
                  ELSE cpc
  /\ UNCHANGED <<tried, shard, tomb, prog, marker, group, armed, stopMark,
                 workers, resumes, known, stopped, used>>

(* The checkpoint before the acknowledgement fails, or the write of it.    *)
AcceptFails(l) ==
  /\ Readable(l) /\ Spend("failures", MaxFailures)
  /\ MayBeCutShort({l})
  /\ Enters("cancel")
  /\ DiskKeeps /\ UNCHANGED <<group, armed, stopMark, workers>>

(* After its last message a worker must end, and with success.             *)
SeeExit ==
  /\ cpc = "exit"
  /\ \E l \in led.exited \ stopped :
       \/ /\ wpc[l] = "exited"
          /\ stopped' = stopped \cup {l}
          /\ cpc' = IF stopped' = Lanes THEN "stop" ELSE "run"
       \/ /\ wpc[l] = "dead"
          /\ cpc' = "cancel" /\ UNCHANGED stopped
  /\ UNCHANGED <<disk, workers, resumes, known, led, used>>

(* A worker is dead and has left nothing unread, or left half a message.   *)
(* Mutant: only a worker that never was acknowledged is found dead.        *)
SeeDeathEarly(l) ==
  /\ cpc = "run" /\ l \in known \ stopped
  /\ wpc[l] = "dead" /\ acks[l] = << >>
  /\ Enters("cancel") /\ UNCHANGED <<disk, workers, used>>
SeeDeath(l) ==
  /\ cpc = "run" /\ l \in known \ stopped
  /\ marker[l] \/ (wpc[l] = "dead" /\ ~Unseen(l))
  /\ Enters("cancel") /\ UNCHANGED <<disk, workers, used>>

(* cancel leaves the marker first; StopWorkers kills.                      *)
MarkStop ==
  /\ cpc = "cancel"
  /\ stopMark' = TRUE /\ Enters("stop")
  /\ DiskKeeps /\ UNCHANGED <<marker, group, armed, workers, used>>

(* recover_case_auth_cleanup: the home of a case is scrubbed, and the      *)
(* tombstone is written that its worker did not come to write.             *)
Entomb(l, c) ==
  /\ cpc = "cleanup"
  /\ \E i \in DOMAIN tried[l] : tried[l][i].case = c
  /\ c \notin tomb[l] /\ tomb' = [tomb EXCEPT ![l] = @ \cup {c}]
  /\ UNCHANGED <<tried, shard, prog, acks, marker, group, armed, stopMark,
                 workers, memory, used>>

(* The cleanup comes to its end or is refused (CaseAttempts says when).    *)
CleanUp ==
  /\ cpc = "cleanup"
  /\ armed' \in {armed, "torn"} /\ Over
  /\ DiskKeeps /\ UNCHANGED <<marker, group, stopMark, workers, used>>

(* The coordinator is killed, perhaps in the middle of its write, or the   *)
(* whole machine goes down.                                                *)
CoordinatorDies ==
  /\ cpc # "down" /\ Spend("kills", MaxKills)
  /\ MayBeCutShort({l \in Lanes : Readable(l)})
  /\ Over
  /\ DiskKeeps /\ UNCHANGED <<group, armed, stopMark, workers>>

MachineDies ==
  /\ cpc # "down" /\ Spend("kills", MaxKills)
  /\ End(Living, "dead") /\ Over
  /\ UNCHANGED disk

-----------------------------------------------------------------------------
WorkerSteps(l) ==
  \/ Boot(l) \/ Pick(l) \/ NothingLeft(l) \/ SealShard(l)
  \/ CaseSucceeds(l) \/ WriteProgress(l) \/ GoOn(l) \/ TryAgain(l)
  \/ StopHere(l) \/ AfterShard(l) \/ Exit(l) \/ AckTimesOut(l) \/ GivesUp(l)
CoordinatorSteps ==
  \/ OpenForCleanup \/ OpenFresh \/ OpenResume \/ Quiesce \/ StopWorkers
  \/ RefusesToGoOn \/ ReplayLaunches \/ ReplayCleansUp \/ SeeExit
  \/ MarkStop \/ CleanUp
  \/ \E l \in Lanes : \/ ReplayRecord(l) \/ Spawn(l) \/ Register(l)
                       \/ Accept(l) \/ SeeDeath(l)
                       \/ \E c \in Cases(l) : Entomb(l, c)
Faults ==
  \/ CoordinatorDies \/ MachineDies
  \/ \E l \in Lanes : CaseFails(l) \/ AcceptFails(l) \/ WorkerDies(l)
Next ==
  \/ \E l \in Lanes : WorkerSteps(l)
  \/ CoordinatorSteps \/ CoordinatorStarts \/ Faults

Spec == Init /\ [][Next]_vars
(* Processes that are not killed go on: a model ends or times out, a wait  *)
(* for an answer is limited, the supervisor polls its lanes in a loop.     *)
FairSpec ==
  Spec /\ WF_vars(CoordinatorSteps)
       /\ \A l \in Lanes : WF_vars(WorkerSteps(l))

-----------------------------------------------------------------------------
(* Properties.                                                             *)

Acked == UNION {{<<l, i>> : i \in 1 .. Len(acks[l])} : l \in Lanes}
Spent == MapThenSumSet(LAMBDA p : TokensOf(prog[p[1]][p[2]]), Acked)
AckedAttempts ==
  UNION {{<<p[1], a>> : a \in AttemptOf(prog[p[1]][p[2]])} :
         p \in {q \in Acked : prog[q[1]][q[2]].kind = "case-terminal"}}

(* While lanes are launched and run, the ledger is what the durable        *)
(* decisions make it, also after a resume has rebuilt it in another order; *)
(* and a complete prefix can always be rebuilt.                            *)
LedgerIsRebuilt ==
  /\ cpc \in {"launch", "record", "run", "exit"} =>
       /\ \A l \in Lanes : led.seen[l] = Len(acks[l])
       /\ led.total = Spent /\ (led.stop <=> Spent >= MaxTokens)
       /\ led.done = AckedAttempts
  /\ cpc = "replay" => ~StuckInReplay

(* The ledger never has to refuse what a worker says, whatever was killed  *)
(* and resumed before, nor what it replays, in whatever order: a refusal   *)
(* cancels the evaluation, or sends the resume into cleanup.               *)
EveryMessageIsAuthorised ==
  \A l \in Lanes :
    /\ Unseen(l)
    /\ (cpc = "run" /\ l \in known) \/ (cpc = "replay" /\ Complete)
    => Authorised(led, l, NextOf(l))

(* A case failed without the proof that its home was scrubbed, and a       *)
(* coordinator's cleanup has scrubbed it since.                            *)
CleanedSince(l, a) ==
  a.end = "failed" /\ ~a.proved /\ a.case \in tomb[l]

(* The records bear out every message: neither the worker that writes it,  *)
(* nor the coordinator that answers it, nor a resume that reads it again   *)
(* finds it contradicted by what was done since, a retry or a second       *)
(* worker of the lane, and no worker finds another's seal there.  The one  *)
(* thing that contradicts a message for every later resume is a            *)
(* coordinator's own cleanup of a case that had failed without its proof.  *)
EveryMessageIsBorneOut ==
  \A l \in Lanes :
    /\ wpc[l] = "write" => BorneOut(l, Says(l))
    /\ wpc[l] = "seal" => SealAgrees(l)
    /\ Readable(l) => BorneOut(l, NextOf(l))
    /\ \A i \in DOMAIN prog[l] :
         /\ RecordsAgree(l, prog[l][i])
         /\ \A a \in EndsTold(l, prog[l][i]) :
              TombstoneStands(l, a) \/ CleanedSince(l, a)

(* No worker of this run or of an earlier coordinator is alive while a     *)
(* resume is classified or credentials are cleaned up.                     *)
CleanupIsQuiet ==
  cpc \in {"replay", "cleanup"} => \A l \in Lanes : ~Alive(l)

(* The acknowledgements, with what was spent when they were given, are a   *)
(* log of decisions as DecisionLog promises it, across all coordinators.   *)
Promised == INSTANCE DecisionLog WITH log <- acks, spent <- Spent
ImplementsDecisionLog == Promised!Spec

(* Every coordinator comes to an end, and so does every worker, also one   *)
(* that its coordinator has left behind.                                   *)
EveryProcessEnds ==
  (cpc # "down" \/ \E l \in Lanes : Alive(l))
    ~> (cpc = "down" /\ \A l \in Lanes : ~Alive(l))
=============================================================================
