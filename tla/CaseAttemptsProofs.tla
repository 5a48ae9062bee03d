-------------------------- MODULE CaseAttemptsProofs --------------------------
(***************************************************************************)
(* Theorems about CaseAttempts, for any number of cases and any bounds.    *)
(***************************************************************************)
EXTENDS CaseAttempts, SequenceTheorems, TLAPS

(* What the attempts of a case can be.  A second one never gets further    *)
(* than its start: the worker gives up when it resets the case.            *)
Histories == {<< >>, <<"open">>, <<"success">>, <<"retryable">>,
              <<"failed">>, <<"retryable", "open">>}

RecordType ==
  /\ made \in [Cases -> 0 .. SealedDir]
  /\ att \in [Cases -> Histories]
  /\ home \in [Cases -> {"none", "filled", "empty"}]
  /\ own \in [Cases -> BOOLEAN] /\ tomb \in [Cases -> BOOLEAN]
  /\ litter \in [Cases -> BOOLEAN] /\ seal \in [Cases -> 0 .. 3]
  /\ starts \in [Cases -> Nat]
SharedType ==
  /\ boot \in {"none", "there", "gone"}
  /\ stopMark \in BOOLEAN /\ teardown \in BOOLEAN /\ archive \in BOOLEAN
  /\ shard \in {"none", "success", "failed"}
ProcessType ==
  /\ wpc \in WorkerStages /\ cpc \in CoordinatorStages
  /\ at \in Cases \cup {0} /\ cleaning \in Cases \cup {0}
  /\ todo \subseteq Cases /\ resumes \in BOOLEAN
  /\ ended \in {"none"} \cup Attempts
  /\ result \in {"none", "refused", "killed", "failed", "validated",
                 "rejected"}
  /\ used \in [{"runs", "kills", "failures"} -> Nat]

(* What is on disk of a case, whoever was last at it.  Its home comes      *)
(* after all its directories and they after the start of its attempt; a    *)
(* home that is gone left a tombstone, and credentials left none yet.      *)
HomeInv ==
  \A c \in Cases :
    /\ tomb[c] => own[c] /\ home[c] # "filled"
    /\ own[c] /\ ~tomb[c] => home[c] # "none"
    /\ own[c] \/ home[c] # "none" => made[c] = SealedDir
    /\ made[c] = SealedDir => att[c] # << >>

(* What its attempts say of the model's starts and of the cleanup.         *)
HistoryInv ==
  \A c \in Cases :
    /\ starts[c] <= 1
    /\ att[c] = << >> => starts[c] = 0
    /\ att[c] \in {<<"retryable">>, <<"retryable", "open">>} =>
         starts[c] = 0 /\ own[c] /\ tomb[c]
    /\ att[c] = <<"success">> => starts[c] = 1 /\ own[c] /\ tomb[c]
    /\ seal[c] > 0 => att[c] = <<"success">>

(* What a worker has behind it at the case it is at.                       *)
Installing == {"prepare", "mkdir", "own", "auth"}
Attempting == Installing \cup {"ready", "model", "scrub", "entomb"}
WorkerInv ==
  /\ \A c \in todo : att[c] = << >> /\ c # at
  /\ wpc \in {"secure", "scan", "start"} =>
       at # 0 /\ att[at] \in {<< >>, <<"retryable">>}
  /\ wpc = "secure" => att[at] = << >>
  /\ wpc = "started" =>
       /\ at # 0 /\ att[at] \in {<<"open">>, <<"retryable", "open">>}
       /\ att[at] = <<"open">> => made[at] # SealedDir /\ starts[at] = 0
  /\ wpc \in Attempting => at # 0 /\ att[at] = <<"open">>
  /\ wpc \in Installing \cup {"ready"} => starts[at] = 0
  /\ wpc = "prepare" => made[at] # SealedDir
  /\ wpc = "mkdir" => home[at] = "none"
  /\ wpc \in Attempting \ {"prepare"} => made[at] = SealedDir
  /\ wpc \in {"mkdir", "own"} => ~own[at]
  /\ wpc \in {"own", "auth", "entomb"} => home[at] = "empty"
  /\ wpc \in {"auth", "ready", "model", "scrub", "entomb"} => own[at]
  /\ wpc \in {"auth", "ready", "model", "scrub"} => ~tomb[at]
  /\ wpc = "model" => starts[at] = 1

(* How it will record the attempt.                                         *)
EndedInv ==
  /\ wpc = "terminal" => at # 0 /\ att[at] = <<"open">>
  /\ wpc \in {"scrub", "entomb", "terminal"} =>
       /\ ended \in {"success", "retryable", "failed"}
       /\ ended = "success" => starts[at] = 1
       /\ ended = "retryable" => starts[at] = 0
  /\ wpc = "seal" => at # 0 /\ att[at] = <<"success">> /\ seal[at] <= 2
  /\ wpc \in {"reset", "report"} => at # 0

(* What a coordinator can rely on where it is.  Before it cleans up it has *)
(* seen the end of its worker; without a cancel that was a lane's stop, or *)
(* it is a resume that cleans up after an earlier rearm.                   *)
Quiet == CleanupStages \cup {"quiesce", "validate"}
CoordinatorInv ==
  /\ cpc \in Quiet => wpc \in WorkerIdle
  /\ cpc \in {"open", "quiesce", "running"} => result = "none"
  /\ cpc = "cancelled" => result = "failed"
  /\ cpc \in CleanupStages \cup {"validate"} =>
       \/ result = "failed"
       \/ result = "none" /\ (wpc = "stopped" \/ (resumes /\ archive))
  /\ cpc = "validate" => result = "none" /\ teardown
  /\ cpc \in {"receipt", "validate"} => boot = "gone"
  /\ cpc \in {"quiesce", "running"} => boot # "none"
  /\ result \in {"refused", "validated", "rejected"} =>
       cpc = "down" /\ wpc \in WorkerIdle

(* What it has found or done at the case it cleans up.                     *)
CleaningInv ==
  /\ cpc \in {"recover", "scrub", "entomb", "remove"} => cleaning # 0
  /\ cpc \in {"scrub", "entomb", "remove"} => own[cleaning]
  /\ cpc = "scrub" => home[cleaning] # "none"
  /\ cpc = "entomb" => home[cleaning] = "empty"
  /\ cpc = "remove" => tomb[cleaning]

(* Before there is a bootstrap nothing was begun.  While the receipt of    *)
(* the teardown stands everything it speaks of is gone.                    *)
BootInv == boot = "none" => wpc = "none" /\ \A c \in Cases : att[c] = << >>
TeardownInv ==
  teardown =>
    /\ boot = "gone"
    /\ \A c \in Cases : home[c] = "none"
    /\ wpc \in WorkerIdle

(* A worker that has stopped has sealed a lane whose cases are committed.  *)
LaneInv ==
  wpc = "stopped" /\ (\A c \in Cases : Reusable(c)) => shard = "success"

(* A lane that was sealed as failed has a case that stays failed.          *)
Spoiled == {<<"retryable">>, <<"failed">>, <<"retryable", "open">>}
ShardInv == shard = "failed" => \E c \in Cases : att[c] \in Spoiled

AttemptsInv ==
  /\ RecordType /\ SharedType /\ ProcessType
  /\ HomeInv /\ HistoryInv /\ WorkerInv /\ EndedInv
  /\ CoordinatorInv /\ CleaningInv /\ BootInv /\ TeardownInv /\ LaneInv
  /\ OwnedCasesAreCleaned /\ EpochsAreJudgedRightly

-----------------------------------------------------------------------------
(* The histories in words: what is appended, sealed and read, and which of *)
(* them differ.                                                            *)
LEMMA HistoryShape ==
  /\ Append(<< >>, "open") = <<"open">>
  /\ Append(<<"retryable">>, "open") = <<"retryable", "open">>
  /\ \A e \in Attempts : [<<"open">> EXCEPT ![Len(<<"open">>)] = e] = <<e>>
  /\ \A h \in Histories :
       /\ Len(h) = 1 /\ h[1] = "retryable" => h = <<"retryable">>
       /\ h # << >> /\ h[Len(h)] = "success" => h = <<"success">>
  /\ \A e \in Attempts : <<e>> \in Histories /\ <<e>> # << >>
                         /\ <<e>> # <<"retryable", "open">>
  /\ \A e, f \in Attempts : <<e>> = <<f>> => e = f
  /\ <<"retryable", "open">> # << >>
<1>1. Append(<< >>, "open") = <<"open">>
  OBVIOUS
<1>2. Append(<<"retryable">>, "open") = <<"retryable", "open">>
  <2> DEFINE h == <<"retryable">>
             g == <<"retryable", "open">>
  <2>1. h \in Seq({"retryable", "open"}) /\ Len(h) = 1 /\ h[1] = "retryable"
    OBVIOUS
  <2>2. g \in Seq({"retryable", "open"}) /\ Len(g) = 2
        /\ g[1] = "retryable" /\ g[2] = "open"
    OBVIOUS
  <2> HIDE DEF h, g
  <2>3. /\ Append(h, "open") \in Seq({"retryable", "open"})
        /\ Len(Append(h, "open")) = 2
        /\ \A i \in 1 .. 1 : Append(h, "open")[i] = h[i]
        /\ Append(h, "open")[2] = "open"
    <3> DEFINE S == {"retryable", "open"}
               x == "open"
    <3>1. h \in Seq(S) /\ x \in S
      BY <2>1
    <3> HIDE DEF S, x
    <3>2. /\ Append(h, x) \in Seq(S) /\ Len(Append(h, x)) = Len(h) + 1
          /\ \A i \in 1 .. Len(h) : Append(h, x)[i] = h[i]
          /\ Append(h, x)[Len(h) + 1] = x
      BY <3>1, AppendProperties
    <3> QED
      BY <2>1, <3>2 DEF S, x
  <2>4. \A i \in 1 .. 2 : Append(h, "open")[i] = g[i]
    <3> SUFFICES ASSUME NEW i \in 1 .. 2 PROVE Append(h, "open")[i] = g[i]
      OBVIOUS
    <3>1. i = 1 \/ i = 2
      OBVIOUS
    <3> QED
      BY <2>1, <2>2, <2>3, <3>1
  <2>5. Append(h, "open") = g
    BY <2>2, <2>3, <2>4, SeqEqual
  <2> QED
    BY <2>5 DEF h, g
<1>3. ASSUME NEW e \in Attempts
      PROVE  [<<"open">> EXCEPT ![Len(<<"open">>)] = e] = <<e>>
  OBVIOUS
<1>4. ASSUME NEW h \in Histories
      PROVE  /\ Len(h) = 1 /\ h[1] = "retryable" => h = <<"retryable">>
             /\ h # << >> /\ h[Len(h)] = "success" => h = <<"success">>
  BY DEF Histories
<1>5. ASSUME NEW e \in Attempts
      PROVE  /\ <<e>> \in Histories /\ <<e>> # << >>
             /\ <<e>> # <<"retryable", "open">>
  BY DEF Attempts, Histories
<1>6. ASSUME NEW e \in Attempts, NEW f \in Attempts, <<e>> = <<f>>
      PROVE  e = f
  BY <1>6
<1>7. <<"retryable", "open">> # << >>
  OBVIOUS
<1> QED
  BY <1>1, <1>2, <1>3, <1>4, <1>5, <1>6, <1>7

(* A step that writes none of the records keeps what they say.             *)
LEMMA RecordsKept ==
  ASSUME RecordType, HomeInv, HistoryInv, UNCHANGED <<records, starts>>
  PROVE  RecordType' /\ HomeInv' /\ HistoryInv'
BY DEF RecordType, HomeInv, HistoryInv, records

(* A worker that is at work has a coordinator that has not got to the      *)
(* cleanup, or none; a step of it disturbs nothing that concerns only      *)
(* coordinators.                                                           *)
LEMMA OthersKept ==
  ASSUME AttemptsInv, wpc \notin WorkerIdle, WorkerKeeps
  PROVE  /\ SharedType' /\ CoordinatorInv' /\ CleaningInv' /\ BootInv'
         /\ TeardownInv' /\ OwnedCasesAreCleaned' /\ EpochsAreJudgedRightly'
<1> USE DEF WorkerKeeps, shared, coordinator
<1>1. cpc \notin Quiet /\ ~teardown /\ boot # "none"
  BY DEF AttemptsInv, CoordinatorInv, TeardownInv, BootInv, WorkerIdle
<1>2. result \notin {"refused", "validated", "rejected"}
  BY DEF AttemptsInv, CoordinatorInv
<1>3. SharedType' /\ BootInv' /\ TeardownInv'
  BY <1>1 DEF AttemptsInv, SharedType, BootInv, TeardownInv
<1>4. CoordinatorInv'
  BY <1>1, <1>2 DEF AttemptsInv, CoordinatorInv, Quiet
<1>5. CleaningInv'
  BY <1>1 DEF CleaningInv, Quiet, CleanupStages
<1>6. OwnedCasesAreCleaned' /\ EpochsAreJudgedRightly'
  BY <1>2 DEF OwnedCasesAreCleaned, EpochsAreJudgedRightly
<1> QED
  BY <1>3, <1>4, <1>5, <1>6

(* A worker at rest says nothing of the case it was at.                    *)
LEMMA WorkerEnded ==
  ASSUME WorkerInv, wpc' \in WorkerIdle \cup {"lane", "next", "shard"},
         UNCHANGED <<att, at, todo>>
  PROVE  WorkerInv' /\ EndedInv'
BY DEF WorkerInv, EndedInv, WorkerIdle, Installing, Attempting

(* Every step of the worker that is not the end of its lane keeps the      *)
(* invariant.                                                              *)
LEMMA StepOfWorker ==
  ASSUME AttemptsInv,
         \/ LaneAcknowledged \/ NextCase \/ SecureDirectory \/ Scan
         \/ StartAttempt \/ StartAcknowledged \/ ResetRefuses \/ Prepare
         \/ MakeHome \/ RecordOwnership \/ CopyAuth \/ StartModel
         \/ ModelEnds \/ Scrub \/ Entomb \/ WriteTerminal \/ SealCase
         \/ CommitCase \/ SuccessAcknowledged \/ RetryAcknowledged
         \/ AckTimesOut \/ SetupFails \/ RunFails \/ ScrubFails
         \/ WorkerDies
  PROVE  AttemptsInv'
<1> USE DEF Go, Spend, WorkerKeeps, records, shared, coordinator
<1>a. /\ RecordType /\ ProcessType /\ HomeInv /\ HistoryInv /\ WorkerInv
      /\ EndedInv
  BY DEF AttemptsInv
<1>b. /\ made \in [Cases -> 0 .. SealedDir] /\ att \in [Cases -> Histories]
      /\ home \in [Cases -> {"none", "filled", "empty"}]
      /\ own \in [Cases -> BOOLEAN] /\ tomb \in [Cases -> BOOLEAN]
      /\ seal \in [Cases -> 0 .. 3] /\ starts \in [Cases -> Nat]
  BY <1>a DEF RecordType
<1>c. /\ at \in Cases \cup {0} /\ todo \subseteq Cases /\ 0 \notin Cases
      /\ \A c \in todo : att[c] = << >> /\ c # at
  BY <1>a DEF ProcessType, WorkerInv, Cases
<1>d. /\ <<"open">> \in Histories /\ <<"open">> # << >>
      /\ <<"retryable", "open">> \in Histories
      /\ <<"open">> \notin {<<"success">>, <<"retryable">>,
                           <<"retryable", "open">>}
  BY HistoryShape DEF Attempts, Histories
<1>1. CASE LaneAcknowledged
  <2>1. RecordType' /\ HomeInv' /\ HistoryInv'
    BY <1>1, RecordsKept, <1>a DEF LaneAcknowledged
  <2>2. ProcessType'
    BY <1>1, <1>a DEF LaneAcknowledged, ProcessType, WorkerStages,
       WorkerIdle, Waiting, Attempts
  <2>3. WorkerInv'
    BY <1>1, <1>a, <1>b, <1>c DEF LaneAcknowledged, WorkerInv, EndedInv,
       HomeInv, HistoryInv, WorkerIdle, Waiting, Installing, Attempting
  <2>4. EndedInv'
    BY <1>1, <1>a, <1>b, <1>c DEF LaneAcknowledged, EndedInv, WorkerInv,
       WorkerIdle, Waiting, Installing, Attempting
  <2>5. LaneInv'
    BY <1>1 DEF LaneAcknowledged, LaneInv, WorkerIdle, Waiting, Installing,
       Attempting
  <2> QED
    BY <1>1, OthersKept, <2>1, <2>2, <2>3, <2>4, <2>5 DEF LaneAcknowledged,
       WorkerIdle, Waiting, Installing, Attempting, AttemptsInv
<1>2. CASE NextCase
  <2>1. RecordType' /\ HomeInv' /\ HistoryInv'
    BY <1>2, RecordsKept, <1>a DEF NextCase
  <2>2. ProcessType'
    BY <1>2, <1>a DEF NextCase, ProcessType, WorkerStages, WorkerIdle,
       Waiting, Attempts
  <2>3. WorkerInv'
    BY <1>2, <1>a, <1>b, <1>c DEF NextCase, WorkerInv, EndedInv, HomeInv,
       HistoryInv, WorkerIdle, Waiting, Installing, Attempting
  <2>4. EndedInv'
    BY <1>2, <1>a, <1>b, <1>c DEF NextCase, EndedInv, WorkerInv, WorkerIdle,
       Waiting, Installing, Attempting
  <2>5. LaneInv'
    BY <1>2 DEF NextCase, LaneInv, WorkerIdle, Waiting, Installing, Attempting
  <2> QED
    BY <1>2, OthersKept, <2>1, <2>2, <2>3, <2>4, <2>5 DEF NextCase,
       WorkerIdle, Waiting, Installing, Attempting, AttemptsInv
<1>3. CASE SecureDirectory
  <2>1. RecordType'
    <3>1. at \in Cases /\ made[at] \in 0 .. 4
      BY <1>3, <1>a, <1>b, <1>c DEF SecureDirectory, WorkerInv, SealedDir
    <3>2. CASE made[at] < AttemptsDir
      <4>1. made[at] + 1 \in 0 .. SealedDir
        BY <3>1, <3>2 DEF SealedDir, AttemptsDir
      <4>2. made' = [made EXCEPT ![at] = made[at] + 1]
        BY <1>3, <3>2 DEF SecureDirectory
      <4> QED
        BY <1>3, <1>a, <1>b, <4>1, <4>2 DEF SecureDirectory, RecordType
    <3>3. CASE ~(made[at] < AttemptsDir)
      BY <1>3, <3>3, <1>a DEF SecureDirectory, RecordType
    <3> QED
      BY <3>2, <3>3
  <2>2. HomeInv'
    <3>1. made[at] # SealedDir /\ at \in Cases /\ made[at] \in 0 .. SealedDir
      BY <1>3, <1>a, <1>b, <1>c DEF SecureDirectory, WorkerInv, HomeInv
    <3>2. \A c \in Cases : made'[c] = SealedDir <=> made[c] = SealedDir
      BY <1>3, <1>a, <1>b, <3>1 DEF SecureDirectory, SealedDir, AttemptsDir
    <3> QED
      BY <1>3, <1>a, <3>2 DEF SecureDirectory, HomeInv
  <2>3. HistoryInv'
    BY <1>3, <1>a, <1>b, <1>c, <2>1 DEF SecureDirectory, HistoryInv, HomeInv,
       WorkerInv, EndedInv, WorkerIdle, Waiting, Installing, Attempting
  <2>4. ProcessType'
    BY <1>3, <1>a DEF SecureDirectory, ProcessType, WorkerStages, WorkerIdle,
       Waiting, Attempts
  <2>5. WorkerInv'
    BY <1>3, <1>a, <1>b, <1>c DEF SecureDirectory, WorkerInv, EndedInv,
       HomeInv, HistoryInv, WorkerIdle, Waiting, Installing, Attempting
  <2>6. EndedInv'
    BY <1>3, <1>a, <1>b, <1>c DEF SecureDirectory, EndedInv, WorkerInv,
       WorkerIdle, Waiting, Installing, Attempting
  <2>7. LaneInv'
    BY <1>3 DEF SecureDirectory, LaneInv, WorkerIdle, Waiting, Installing,
       Attempting
  <2> QED
    BY <1>3, OthersKept, <2>1, <2>2, <2>3, <2>4, <2>5, <2>6, <2>7 DEF
       SecureDirectory, WorkerIdle, Waiting, Installing, Attempting,
       AttemptsInv
<1>4. CASE Scan
  <2>1. RecordType' /\ HomeInv' /\ HistoryInv'
    BY <1>4, RecordsKept, <1>a DEF Scan, RetryPermitted
  <2>2. ProcessType'
    BY <1>4, <1>a DEF Scan, RetryPermitted, ProcessType, WorkerStages,
       WorkerIdle, Waiting, Attempts
  <2>3. WorkerInv'
    BY <1>4, <1>a, <1>b, <1>c DEF Scan, RetryPermitted, WorkerInv, EndedInv,
       HomeInv, HistoryInv, WorkerIdle, Waiting, Installing, Attempting
  <2>4. EndedInv'
    BY <1>4, <1>a, <1>b, <1>c DEF Scan, RetryPermitted, EndedInv, WorkerInv,
       WorkerIdle, Waiting, Installing, Attempting
  <2>5. LaneInv'
    BY <1>4 DEF Scan, RetryPermitted, LaneInv, WorkerIdle, Waiting,
       Installing, Attempting
  <2> QED
    BY <1>4, OthersKept, <2>1, <2>2, <2>3, <2>4, <2>5 DEF Scan,
       RetryPermitted, WorkerIdle, Waiting, Installing, Attempting,
       AttemptsInv
<1>5. CASE StartAttempt
  <2>1. RecordType'
    <3>1. at \in Cases /\ att[at] \in {<< >>, <<"retryable">>}
      BY <1>5, <1>a, <1>c DEF StartAttempt, WorkerInv
    <3>2. /\ att[at] = << >> => Append(att[at], "open") = <<"open">>
          /\ att[at] = <<"retryable">> =>
               Append(att[at], "open") = <<"retryable", "open">>
      BY HistoryShape
    <3>3. Append(att[at], "open") \in Histories
      BY <1>d, <3>1, <3>2
    <3> QED
      BY <1>5, <1>a, <1>b, <3>3 DEF StartAttempt, RecordType
  <2>2. HomeInv'
    <3>1. at \in Cases /\ att[at] \in {<< >>, <<"retryable">>}
      BY <1>5, <1>a, <1>c DEF StartAttempt, WorkerInv
    <3>2. /\ att[at] = << >> => Append(att[at], "open") = <<"open">>
          /\ att[at] = <<"retryable">> =>
               Append(att[at], "open") = <<"retryable", "open">>
      BY HistoryShape
    <3>3. Append(att[at], "open") # << >>
      BY <1>d, <3>1, <3>2, HistoryShape
    <3> QED
      BY <1>5, <1>a, <1>b, <3>3 DEF StartAttempt, HomeInv
  <2>3. HistoryInv'
    <3>1. at \in Cases /\ att[at] \in {<< >>, <<"retryable">>}
      BY <1>5, <1>a, <1>c DEF StartAttempt, WorkerInv
    <3>2. /\ att[at] = << >> => Append(att[at], "open") = <<"open">>
          /\ att[at] = <<"retryable">> =>
               Append(att[at], "open") = <<"retryable", "open">>
      BY HistoryShape
    <3>3. Append(att[at], "open") \in {<<"open">>, <<"retryable", "open">>}
      BY <3>1, <3>2
    <3>4. <<"retryable", "open">> # <<"success">> /\ att[at] # <<"success">>
      BY <3>1, HistoryShape DEF Attempts
    <3> QED
      BY <1>5, <1>a, <1>b, <1>d, <3>1, <3>2, <3>3, <3>4, HistoryShape
         DEF StartAttempt, HistoryInv
  <2>4. ProcessType'
    BY <1>5, <1>a DEF StartAttempt, ProcessType, WorkerStages, WorkerIdle,
       Waiting, Attempts
  <2>5. WorkerInv'
    <3>1. at \in Cases /\ att[at] \in {<< >>, <<"retryable">>}
      BY <1>5, <1>a, <1>c DEF StartAttempt, WorkerInv
    <3>2. /\ att[at] = << >> => Append(att[at], "open") = <<"open">>
          /\ att[at] = <<"retryable">> =>
               Append(att[at], "open") = <<"retryable", "open">>
      BY HistoryShape
    <3>3. att' = [att EXCEPT ![at] = Append(att[at], "open")]
      BY <1>5 DEF StartAttempt
    <3>4. wpc' = "started" /\ UNCHANGED <<at, todo, made, starts>>
      BY <1>5 DEF StartAttempt
    <3>5. att[at] = << >> => made[at] # SealedDir /\ starts[at] = 0
      BY <1>a, <3>1 DEF HomeInv, HistoryInv
    <3>6. att'[at] \in {<<"open">>, <<"retryable", "open">>}
          /\ (att'[at] = <<"open">> => att[at] = << >>)
      BY <1>b, <1>d, <3>1, <3>2, <3>3
    <3>7. \A c \in todo' : att'[c] = << >> /\ c # at'
      BY <1>b, <1>c, <3>3, <3>4
    <3>8. /\ at' # 0 /\ att'[at'] \in {<<"open">>, <<"retryable", "open">>}
          /\ att'[at'] = <<"open">> =>
               made'[at'] # SealedDir /\ starts'[at'] = 0
      BY <1>c, <3>1, <3>4, <3>5, <3>6
    <3> QED
      BY <3>4, <3>7, <3>8 DEF WorkerInv, Installing, Attempting
  <2>6. EndedInv'
    BY <1>5, <1>a, <1>b, <1>c DEF StartAttempt, EndedInv, WorkerInv,
       WorkerIdle, Waiting, Installing, Attempting
  <2>7. LaneInv'
    BY <1>5 DEF StartAttempt, LaneInv, WorkerIdle, Waiting, Installing,
       Attempting
  <2> QED
    BY <1>5, OthersKept, <2>1, <2>2, <2>3, <2>4, <2>5, <2>6, <2>7 DEF
       StartAttempt, WorkerIdle, Waiting, Installing, Attempting, AttemptsInv
<1>6. CASE StartAcknowledged
  <2>1. RecordType' /\ HomeInv' /\ HistoryInv'
    BY <1>6, RecordsKept, <1>a DEF StartAcknowledged
  <2>2. ProcessType'
    BY <1>6, <1>a DEF StartAcknowledged, ProcessType, WorkerStages,
       WorkerIdle, Waiting, Attempts
  <2>3. WorkerInv'
    BY <1>6, <1>a, <1>b, <1>c DEF StartAcknowledged, WorkerInv, EndedInv,
       HomeInv, HistoryInv, WorkerIdle, Waiting, Installing, Attempting
  <2>4. EndedInv'
    BY <1>6, <1>a, <1>b, <1>c DEF StartAcknowledged, EndedInv, WorkerInv,
       WorkerIdle, Waiting, Installing, Attempting
  <2>5. LaneInv'
    BY <1>6 DEF StartAcknowledged, LaneInv, WorkerIdle, Waiting, Installing,
       Attempting
  <2> QED
    BY <1>6, OthersKept, <2>1, <2>2, <2>3, <2>4, <2>5 DEF StartAcknowledged,
       WorkerIdle, Waiting, Installing, Attempting, AttemptsInv
<1>7. CASE ResetRefuses
  <2>1. RecordType' /\ HomeInv' /\ HistoryInv'
    BY <1>7, RecordsKept, <1>a DEF ResetRefuses
  <2>2. ProcessType'
    BY <1>7, <1>a DEF ResetRefuses, ProcessType, WorkerStages, WorkerIdle,
       Waiting, Attempts
  <2>3. WorkerInv'
    BY <1>7, <1>a, <1>b, <1>c DEF ResetRefuses, WorkerInv, EndedInv, HomeInv,
       HistoryInv, WorkerIdle, Waiting, Installing, Attempting
  <2>4. EndedInv'
    BY <1>7, <1>a, <1>b, <1>c DEF ResetRefuses, EndedInv, WorkerInv,
       WorkerIdle, Waiting, Installing, Attempting
  <2>5. LaneInv'
    BY <1>7 DEF ResetRefuses, LaneInv, WorkerIdle, Waiting, Installing,
       Attempting
  <2> QED
    BY <1>7, OthersKept, <2>1, <2>2, <2>3, <2>4, <2>5 DEF ResetRefuses,
       WorkerIdle, Waiting, Installing, Attempting, AttemptsInv
<1>8. CASE Prepare
  <2>1. RecordType'
    <3>1. at \in Cases /\ SealedDir \in 0 .. SealedDir
      BY <1>8, <1>a, <1>c DEF Prepare, WorkerInv, Attempting, Installing,
         SealedDir
    <3> QED
      BY <1>8, <1>a, <1>b, <3>1 DEF Prepare, RecordType
  <2>2. HomeInv'
    <3>1. at \in Cases /\ att[at] # << >>
      BY <1>8, <1>a, <1>c, <1>d DEF Prepare, WorkerInv, Attempting, Installing
    <3> QED
      BY <1>8, <1>a, <1>b, <3>1 DEF Prepare, HomeInv
  <2>3. HistoryInv'
    BY <1>8, <1>a, <1>b, <1>c, <2>1 DEF Prepare, HistoryInv, HomeInv,
       WorkerInv, EndedInv, WorkerIdle, Waiting, Installing, Attempting
  <2>4. ProcessType'
    BY <1>8, <1>a DEF Prepare, ProcessType, WorkerStages, WorkerIdle,
       Waiting, Attempts
  <2>5. WorkerInv'
    BY <1>8, <1>a, <1>b, <1>c DEF Prepare, WorkerInv, EndedInv, HomeInv,
       HistoryInv, WorkerIdle, Waiting, Installing, Attempting
  <2>6. EndedInv'
    BY <1>8, <1>a, <1>b, <1>c DEF Prepare, EndedInv, WorkerInv, WorkerIdle,
       Waiting, Installing, Attempting
  <2>7. LaneInv'
    BY <1>8 DEF Prepare, LaneInv, WorkerIdle, Waiting, Installing, Attempting
  <2> QED
    BY <1>8, OthersKept, <2>1, <2>2, <2>3, <2>4, <2>5, <2>6, <2>7 DEF
       Prepare, WorkerIdle, Waiting, Installing, Attempting, AttemptsInv
<1>9. CASE MakeHome
  <2>1. RecordType'
    BY <1>9, <1>a, <1>b, <1>c DEF MakeHome, RecordType, WorkerInv,
       WorkerIdle, Waiting, Installing, Attempting
  <2>2. HomeInv'
    BY <1>9, <1>a, <1>b, <1>c, <2>1 DEF MakeHome, HomeInv, WorkerInv,
       EndedInv, WorkerIdle, Waiting, Installing, Attempting
  <2>3. HistoryInv'
    BY <1>9, <1>a, <1>b, <1>c, <2>1 DEF MakeHome, HistoryInv, HomeInv,
       WorkerInv, EndedInv, WorkerIdle, Waiting, Installing, Attempting
  <2>4. ProcessType'
    BY <1>9, <1>a DEF MakeHome, ProcessType, WorkerStages, WorkerIdle,
       Waiting, Attempts
  <2>5. WorkerInv'
    BY <1>9, <1>a, <1>b, <1>c DEF MakeHome, WorkerInv, EndedInv, HomeInv,
       HistoryInv, WorkerIdle, Waiting, Installing, Attempting
  <2>6. EndedInv'
    BY <1>9, <1>a, <1>b, <1>c DEF MakeHome, EndedInv, WorkerInv, WorkerIdle,
       Waiting, Installing, Attempting
  <2>7. LaneInv'
    BY <1>9 DEF MakeHome, LaneInv, WorkerIdle, Waiting, Installing, Attempting
  <2> QED
    BY <1>9, OthersKept, <2>1, <2>2, <2>3, <2>4, <2>5, <2>6, <2>7 DEF
       MakeHome, WorkerIdle, Waiting, Installing, Attempting, AttemptsInv
<1>10. CASE RecordOwnership
  <2>1. RecordType'
    BY <1>10, <1>a, <1>b, <1>c DEF RecordOwnership, RecordType, WorkerInv,
       WorkerIdle, Waiting, Installing, Attempting
  <2>2. HomeInv'
    BY <1>10, <1>a, <1>b, <1>c, <2>1 DEF RecordOwnership, HomeInv, WorkerInv,
       EndedInv, WorkerIdle, Waiting, Installing, Attempting
  <2>3. HistoryInv'
    BY <1>10, <1>a, <1>b, <1>c, <2>1 DEF RecordOwnership, HistoryInv,
       HomeInv, WorkerInv, EndedInv, WorkerIdle, Waiting, Installing,
       Attempting
  <2>4. ProcessType'
    BY <1>10, <1>a DEF RecordOwnership, ProcessType, WorkerStages,
       WorkerIdle, Waiting, Attempts
  <2>5. WorkerInv'
    BY <1>10, <1>a, <1>b, <1>c DEF RecordOwnership, WorkerInv, EndedInv,
       HomeInv, HistoryInv, WorkerIdle, Waiting, Installing, Attempting
  <2>6. EndedInv'
    BY <1>10, <1>a, <1>b, <1>c DEF RecordOwnership, EndedInv, WorkerInv,
       WorkerIdle, Waiting, Installing, Attempting
  <2>7. LaneInv'
    BY <1>10 DEF RecordOwnership, LaneInv, WorkerIdle, Waiting, Installing,
       Attempting
  <2> QED
    BY <1>10, OthersKept, <2>1, <2>2, <2>3, <2>4, <2>5, <2>6, <2>7 DEF
       RecordOwnership, WorkerIdle, Waiting, Installing, Attempting,
       AttemptsInv
<1>11. CASE CopyAuth
  <2>1. RecordType'
    BY <1>11, <1>a, <1>b, <1>c DEF CopyAuth, RecordType, WorkerInv,
       WorkerIdle, Waiting, Installing, Attempting
  <2>2. HomeInv'
    BY <1>11, <1>a, <1>b, <1>c, <2>1 DEF CopyAuth, HomeInv, WorkerInv,
       EndedInv, WorkerIdle, Waiting, Installing, Attempting
  <2>3. HistoryInv'
    BY <1>11, <1>a, <1>b, <1>c, <2>1 DEF CopyAuth, HistoryInv, HomeInv,
       WorkerInv, EndedInv, WorkerIdle, Waiting, Installing, Attempting
  <2>4. ProcessType'
    BY <1>11, <1>a DEF CopyAuth, ProcessType, WorkerStages, WorkerIdle,
       Waiting, Attempts
  <2>5. WorkerInv'
    BY <1>11, <1>a, <1>b, <1>c DEF CopyAuth, WorkerInv, EndedInv, HomeInv,
       HistoryInv, WorkerIdle, Waiting, Installing, Attempting
  <2>6. EndedInv'
    BY <1>11, <1>a, <1>b, <1>c DEF CopyAuth, EndedInv, WorkerInv, WorkerIdle,
       Waiting, Installing, Attempting
  <2>7. LaneInv'
    BY <1>11 DEF CopyAuth, LaneInv, WorkerIdle, Waiting, Installing,
       Attempting
  <2> QED
    BY <1>11, OthersKept, <2>1, <2>2, <2>3, <2>4, <2>5, <2>6, <2>7 DEF
       CopyAuth, WorkerIdle, Waiting, Installing, Attempting, AttemptsInv
<1>12. CASE StartModel
  <2>1. RecordType'
    BY <1>12, <1>a, <1>b, <1>c DEF StartModel, RecordType, WorkerInv,
       WorkerIdle, Waiting, Installing, Attempting
  <2>2. HomeInv'
    BY <1>12, <1>a, <1>b, <1>c, <2>1 DEF StartModel, HomeInv, WorkerInv,
       EndedInv, WorkerIdle, Waiting, Installing, Attempting
  <2>3. HistoryInv'
    BY <1>12, <1>a, <1>b, <1>c, <2>1 DEF StartModel, HistoryInv, HomeInv,
       WorkerInv, EndedInv, WorkerIdle, Waiting, Installing, Attempting
  <2>4. ProcessType'
    BY <1>12, <1>a DEF StartModel, ProcessType, WorkerStages, WorkerIdle,
       Waiting, Attempts
  <2>5. WorkerInv'
    BY <1>12, <1>a, <1>b, <1>c DEF StartModel, WorkerInv, EndedInv, HomeInv,
       HistoryInv, WorkerIdle, Waiting, Installing, Attempting
  <2>6. EndedInv'
    BY <1>12, <1>a, <1>b, <1>c DEF StartModel, EndedInv, WorkerInv,
       WorkerIdle, Waiting, Installing, Attempting
  <2>7. LaneInv'
    BY <1>12 DEF StartModel, LaneInv, WorkerIdle, Waiting, Installing,
       Attempting
  <2> QED
    BY <1>12, OthersKept, <2>1, <2>2, <2>3, <2>4, <2>5, <2>6, <2>7 DEF
       StartModel, WorkerIdle, Waiting, Installing, Attempting, AttemptsInv
<1>13. CASE ModelEnds
  <2>1. RecordType' /\ HomeInv' /\ HistoryInv'
    BY <1>13, RecordsKept, <1>a DEF ModelEnds
  <2>2. ProcessType'
    BY <1>13, <1>a DEF ModelEnds, ProcessType, WorkerStages, WorkerIdle,
       Waiting, Attempts
  <2>3. WorkerInv'
    BY <1>13, <1>a, <1>b, <1>c DEF ModelEnds, WorkerInv, EndedInv, HomeInv,
       HistoryInv, WorkerIdle, Waiting, Installing, Attempting
  <2>4. EndedInv'
    BY <1>13, <1>a, <1>b, <1>c DEF ModelEnds, EndedInv, WorkerInv,
       WorkerIdle, Waiting, Installing, Attempting
  <2>5. LaneInv'
    BY <1>13 DEF ModelEnds, LaneInv, WorkerIdle, Waiting, Installing,
       Attempting
  <2> QED
    BY <1>13, OthersKept, <2>1, <2>2, <2>3, <2>4, <2>5 DEF ModelEnds,
       WorkerIdle, Waiting, Installing, Attempting, AttemptsInv
<1>14. CASE Scrub
  <2>1. RecordType'
    BY <1>14, <1>a, <1>b, <1>c DEF Scrub, RecordType, WorkerInv, WorkerIdle,
       Waiting, Installing, Attempting
  <2>2. HomeInv'
    BY <1>14, <1>a, <1>b, <1>c, <2>1 DEF Scrub, HomeInv, WorkerInv, EndedInv,
       WorkerIdle, Waiting, Installing, Attempting
  <2>3. HistoryInv'
    BY <1>14, <1>a, <1>b, <1>c, <2>1 DEF Scrub, HistoryInv, HomeInv,
       WorkerInv, EndedInv, WorkerIdle, Waiting, Installing, Attempting
  <2>4. ProcessType'
    BY <1>14, <1>a DEF Scrub, ProcessType, WorkerStages, WorkerIdle, Waiting,
       Attempts
  <2>5. WorkerInv'
    BY <1>14, <1>a, <1>b, <1>c DEF Scrub, WorkerInv, EndedInv, HomeInv,
       HistoryInv, WorkerIdle, Waiting, Installing, Attempting
  <2>6. EndedInv'
    BY <1>14, <1>a, <1>b, <1>c DEF Scrub, EndedInv, WorkerInv, WorkerIdle,
       Waiting, Installing, Attempting
  <2>7. LaneInv'
    BY <1>14 DEF Scrub, LaneInv, WorkerIdle, Waiting, Installing, Attempting
  <2> QED
    BY <1>14, OthersKept, <2>1, <2>2, <2>3, <2>4, <2>5, <2>6, <2>7 DEF Scrub,
       WorkerIdle, Waiting, Installing, Attempting, AttemptsInv
<1>15. CASE Entomb
  <2>1. RecordType'
    BY <1>15, <1>a, <1>b, <1>c DEF Entomb, RecordType, WorkerInv, WorkerIdle,
       Waiting, Installing, Attempting
  <2>2. HomeInv'
    BY <1>15, <1>a, <1>b, <1>c, <2>1 DEF Entomb, HomeInv, WorkerInv,
       EndedInv, WorkerIdle, Waiting, Installing, Attempting
  <2>3. HistoryInv'
    BY <1>15, <1>a, <1>b, <1>c, <2>1 DEF Entomb, HistoryInv, HomeInv,
       WorkerInv, EndedInv, WorkerIdle, Waiting, Installing, Attempting
  <2>4. ProcessType'
    BY <1>15, <1>a DEF Entomb, ProcessType, WorkerStages, WorkerIdle,
       Waiting, Attempts
  <2>5. WorkerInv'
    BY <1>15, <1>a, <1>b, <1>c DEF Entomb, WorkerInv, EndedInv, HomeInv,
       HistoryInv, WorkerIdle, Waiting, Installing, Attempting
  <2>6. EndedInv'
    BY <1>15, <1>a, <1>b, <1>c DEF Entomb, EndedInv, WorkerInv, WorkerIdle,
       Waiting, Installing, Attempting
  <2>7. LaneInv'
    BY <1>15 DEF Entomb, LaneInv, WorkerIdle, Waiting, Installing, Attempting
  <2> QED
    BY <1>15, OthersKept, <2>1, <2>2, <2>3, <2>4, <2>5, <2>6, <2>7 DEF
       Entomb, WorkerIdle, Waiting, Installing, Attempting, AttemptsInv
<1>16. CASE WriteTerminal
  <2>1. RecordType'
    <3>1. at \in Cases /\ att[at] = <<"open">> /\ ended \in Attempts
          /\ ended # "open"
      BY <1>16, <1>a, <1>c DEF WriteTerminal, EndedInv, Attempts
    <3>2. att' = [att EXCEPT ![at] = <<ended>>]
      BY <1>16, <3>1, HistoryShape DEF WriteTerminal
    <3>3. <<ended>> \in Histories
      BY <3>1, HistoryShape
    <3> QED
      BY <1>16, <1>a, <1>b, <3>2, <3>3 DEF WriteTerminal, RecordType
  <2>2. HomeInv'
    BY <1>16, <1>a, <1>b, <1>c, <2>1 DEF WriteTerminal, CleanupProved,
       HomeInv, WorkerInv, EndedInv, WorkerIdle, Waiting, Installing,
       Attempting
  <2>3. HistoryInv'
    <3>1. at \in Cases /\ att[at] = <<"open">> /\ ended \in Attempts
          /\ ended # "open"
      BY <1>16, <1>a, <1>c DEF WriteTerminal, EndedInv, Attempts
    <3>2. att' = [att EXCEPT ![at] = <<ended>>]
      BY <1>16, <3>1, HistoryShape DEF WriteTerminal
    <3>3. <<ended>> # << >> /\ <<ended>> # <<"retryable", "open">>
      BY <3>1, HistoryShape
    <3>4. /\ <<ended>> = <<"success">> => ended = "success"
          /\ <<ended>> = <<"retryable">> => ended = "retryable"
      BY <3>1, HistoryShape DEF Attempts
    <3>5. /\ ended \in {"success", "retryable"} => own[at] /\ tomb[at]
          /\ ended = "success" => starts[at] = 1
          /\ ended = "retryable" => starts[at] = 0
      BY <1>16, <1>a DEF WriteTerminal, CleanupProved, EndedInv
    <3>6. ~(seal[at] > 0)
      BY <1>a, <1>d, <3>1 DEF HistoryInv
    <3>7. UNCHANGED <<own, tomb, seal, starts>>
      BY <1>16 DEF WriteTerminal
    <3> QED
      BY <1>a, <1>b, <3>1, <3>2, <3>3, <3>4, <3>5, <3>6, <3>7
         DEF HistoryInv
  <2>4. ProcessType'
    BY <1>16, <1>a DEF WriteTerminal, CleanupProved, ProcessType,
       WorkerStages, WorkerIdle, Waiting, Attempts
  <2>5. WorkerInv'
    BY <1>16, <1>a, <1>b, <1>c DEF WriteTerminal, CleanupProved, WorkerInv,
       EndedInv, HomeInv, HistoryInv, WorkerIdle, Waiting, Installing,
       Attempting
  <2>6. EndedInv'
    <3>1. at \in Cases /\ att[at] = <<"open">> /\ ended \in Attempts
          /\ ended # "open"
      BY <1>16, <1>a, <1>c DEF WriteTerminal, EndedInv, Attempts
    <3>2. att' = [att EXCEPT ![at] = <<ended>>]
      BY <1>16, <3>1, HistoryShape DEF WriteTerminal
    <3>3. wpc' = "seal" => ended = "success"
      BY <1>16 DEF WriteTerminal
    <3>4. seal[at] <= 2
      <4>1. ~(seal[at] > 0) /\ seal[at] \in 0 .. 3
        BY <1>a, <1>b, <1>d, <3>1 DEF HistoryInv
      <4> QED
        BY <4>1
    <3>5. /\ wpc' \in {"seal", "report"} /\ at' = at /\ seal' = seal
          /\ at # 0 /\ att'[at] = <<ended>>
      BY <1>16, <1>b, <1>c, <3>1, <3>2 DEF WriteTerminal
    <3> QED
      BY <3>3, <3>4, <3>5 DEF EndedInv
  <2>7. LaneInv'
    BY <1>16 DEF WriteTerminal, CleanupProved, LaneInv, WorkerIdle, Waiting,
       Installing, Attempting
  <2> QED
    BY <1>16, OthersKept, <2>1, <2>2, <2>3, <2>4, <2>5, <2>6, <2>7 DEF
       WriteTerminal, CleanupProved, WorkerIdle, Waiting, Installing,
       Attempting, AttemptsInv
<1>17. CASE SealCase
  <2>1. RecordType'
    <3>1. at \in Cases /\ seal[at] \in 0 .. 3 /\ seal[at] <= 2
      BY <1>17, <1>a, <1>b, <1>c DEF SealCase, EndedInv
    <3>2. seal[at] + 1 \in 0 .. 3
      BY <3>1
    <3> QED
      BY <1>17, <1>a, <1>b, <3>1, <3>2 DEF SealCase, Publishes, RecordType
  <2>2. HomeInv'
    BY <1>17, <1>a, <1>b, <1>c, <2>1 DEF SealCase, Publishes, HomeInv,
       WorkerInv, EndedInv, WorkerIdle, Waiting, Installing, Attempting
  <2>3. HistoryInv'
    BY <1>17, <1>a, <1>b, <1>c, <2>1 DEF SealCase, Publishes, HistoryInv,
       HomeInv, WorkerInv, EndedInv, WorkerIdle, Waiting, Installing,
       Attempting
  <2>4. ProcessType'
    BY <1>17, <1>a DEF SealCase, Publishes, ProcessType, WorkerStages,
       WorkerIdle, Waiting, Attempts
  <2>5. WorkerInv'
    BY <1>17, <1>a, <1>b, <1>c DEF SealCase, Publishes, WorkerInv, EndedInv,
       HomeInv, HistoryInv, WorkerIdle, Waiting, Installing, Attempting
  <2>6. EndedInv'
    <3>1. at \in Cases /\ seal[at] < 2 /\ att[at] = <<"success">>
      BY <1>17, <1>a, <1>c DEF SealCase, EndedInv
    <3>2. seal'[at] <= 2 /\ wpc' = "seal" /\ UNCHANGED <<at, att>>
      BY <1>17, <1>b, <3>1 DEF SealCase, Publishes
    <3> QED
      BY <1>c, <3>1, <3>2 DEF EndedInv
  <2>7. LaneInv'
    BY <1>17 DEF SealCase, Publishes, LaneInv, WorkerIdle, Waiting,
       Installing, Attempting
  <2> QED
    BY <1>17, OthersKept, <2>1, <2>2, <2>3, <2>4, <2>5, <2>6, <2>7 DEF
       SealCase, Publishes, WorkerIdle, Waiting, Installing, Attempting,
       AttemptsInv
<1>18. CASE CommitCase
  <2>1. RecordType'
    <3>1. at \in Cases /\ seal[at] \in 0 .. 3 /\ seal[at] <= 2
      BY <1>18, <1>a, <1>b, <1>c DEF CommitCase, EndedInv
    <3>2. seal[at] + 1 \in 0 .. 3
      BY <3>1
    <3> QED
      BY <1>18, <1>a, <1>b, <3>1, <3>2 DEF CommitCase, Publishes, RecordType
  <2>2. HomeInv'
    BY <1>18, <1>a, <1>b, <1>c, <2>1 DEF CommitCase, Publishes, HomeInv,
       WorkerInv, EndedInv, WorkerIdle, Waiting, Installing, Attempting
  <2>3. HistoryInv'
    BY <1>18, <1>a, <1>b, <1>c, <2>1 DEF CommitCase, Publishes, HistoryInv,
       HomeInv, WorkerInv, EndedInv, WorkerIdle, Waiting, Installing,
       Attempting
  <2>4. ProcessType'
    BY <1>18, <1>a DEF CommitCase, Publishes, ProcessType, WorkerStages,
       WorkerIdle, Waiting, Attempts
  <2>5. WorkerInv'
    BY <1>18, <1>a, <1>b, <1>c DEF CommitCase, Publishes, WorkerInv,
       EndedInv, HomeInv, HistoryInv, WorkerIdle, Waiting, Installing,
       Attempting
  <2>6. EndedInv'
    BY <1>18, <1>a, <1>b, <1>c DEF CommitCase, Publishes, EndedInv,
       WorkerInv, WorkerIdle, Waiting, Installing, Attempting
  <2>7. LaneInv'
    BY <1>18 DEF CommitCase, Publishes, LaneInv, WorkerIdle, Waiting,
       Installing, Attempting
  <2> QED
    BY <1>18, OthersKept, <2>1, <2>2, <2>3, <2>4, <2>5, <2>6, <2>7 DEF
       CommitCase, Publishes, WorkerIdle, Waiting, Installing, Attempting,
       AttemptsInv
<1>19. CASE SuccessAcknowledged
  <2>1. RecordType' /\ HomeInv' /\ HistoryInv'
    BY <1>19, RecordsKept, <1>a DEF SuccessAcknowledged
  <2>2. ProcessType'
    BY <1>19, <1>a DEF SuccessAcknowledged, ProcessType, WorkerStages,
       WorkerIdle, Waiting, Attempts
  <2>3. WorkerInv'
    BY <1>19, <1>a, <1>b, <1>c DEF SuccessAcknowledged, WorkerInv, EndedInv,
       HomeInv, HistoryInv, WorkerIdle, Waiting, Installing, Attempting
  <2>4. EndedInv'
    BY <1>19, <1>a, <1>b, <1>c DEF SuccessAcknowledged, EndedInv, WorkerInv,
       WorkerIdle, Waiting, Installing, Attempting
  <2>5. LaneInv'
    BY <1>19 DEF SuccessAcknowledged, LaneInv, WorkerIdle, Waiting,
       Installing, Attempting
  <2> QED
    BY <1>19, OthersKept, <2>1, <2>2, <2>3, <2>4, <2>5 DEF
       SuccessAcknowledged, WorkerIdle, Waiting, Installing, Attempting,
       AttemptsInv
<1>20. CASE RetryAcknowledged
  <2>1. RecordType' /\ HomeInv' /\ HistoryInv'
    BY <1>20, RecordsKept, <1>a DEF RetryAcknowledged, RetryPermitted
  <2>2. ProcessType'
    BY <1>20, <1>a DEF RetryAcknowledged, RetryPermitted, ProcessType,
       WorkerStages, WorkerIdle, Waiting, Attempts
  <2>3. WorkerInv'
    <3>1. at \in Cases /\ att[at] \in Histories
      BY <1>20, <1>a, <1>b, <1>c DEF RetryAcknowledged, EndedInv
    <3>2. att[at] = <<"retryable">>
      BY <1>20, <3>1, HistoryShape DEF RetryAcknowledged, RetryPermitted
    <3>3. wpc' = "scan" /\ UNCHANGED <<at, att, todo>>
      BY <1>20 DEF RetryAcknowledged
    <3> QED
      BY <1>c, <3>1, <3>2, <3>3 DEF WorkerInv, Installing, Attempting
  <2>4. EndedInv'
    BY <1>20, <1>a, <1>b, <1>c DEF RetryAcknowledged, RetryPermitted,
       EndedInv, WorkerInv, WorkerIdle, Waiting, Installing, Attempting
  <2>5. LaneInv'
    BY <1>20 DEF RetryAcknowledged, RetryPermitted, LaneInv, WorkerIdle,
       Waiting, Installing, Attempting
  <2> QED
    BY <1>20, OthersKept, <2>1, <2>2, <2>3, <2>4, <2>5 DEF RetryAcknowledged,
       RetryPermitted, WorkerIdle, Waiting, Installing, Attempting,
       AttemptsInv
<1>21. CASE AckTimesOut
  <2>1. RecordType' /\ HomeInv' /\ HistoryInv'
    BY <1>21, RecordsKept, <1>a DEF AckTimesOut
  <2>2. ProcessType'
    BY <1>21, <1>a DEF AckTimesOut, ProcessType, WorkerStages, WorkerIdle,
       Waiting, Attempts
  <2>3. WorkerInv'
    BY <1>21, WorkerEnded, <1>a DEF AckTimesOut, WorkerIdle, Waiting,
       Installing, Attempting
  <2>4. EndedInv'
    BY <1>21, <1>a, <1>b, <1>c DEF AckTimesOut, EndedInv, WorkerInv,
       WorkerIdle, Waiting, Installing, Attempting
  <2>5. LaneInv'
    BY <1>21 DEF AckTimesOut, LaneInv, WorkerIdle, Waiting, Installing,
       Attempting
  <2> QED
    BY <1>21, OthersKept, <2>1, <2>2, <2>3, <2>4, <2>5 DEF AckTimesOut,
       WorkerIdle, Waiting, Installing, Attempting, AttemptsInv
<1>22. CASE SetupFails
  <2>1. RecordType' /\ HomeInv' /\ HistoryInv'
    BY <1>22, RecordsKept, <1>a DEF SetupFails
  <2>2. ProcessType'
    BY <1>22, <1>a DEF SetupFails, ProcessType, WorkerStages, WorkerIdle,
       Waiting, Attempts
  <2>3. WorkerInv'
    BY <1>22, <1>a, <1>b, <1>c DEF SetupFails, WorkerInv, EndedInv, HomeInv,
       HistoryInv, WorkerIdle, Waiting, Installing, Attempting
  <2>4. EndedInv'
    BY <1>22, <1>a, <1>b, <1>c DEF SetupFails, EndedInv, WorkerInv,
       WorkerIdle, Waiting, Installing, Attempting
  <2>5. LaneInv'
    BY <1>22 DEF SetupFails, LaneInv, WorkerIdle, Waiting, Installing,
       Attempting
  <2> QED
    BY <1>22, OthersKept, <2>1, <2>2, <2>3, <2>4, <2>5 DEF SetupFails,
       WorkerIdle, Waiting, Installing, Attempting, AttemptsInv
<1>23. CASE RunFails
  <2>1. RecordType' /\ HomeInv' /\ HistoryInv'
    BY <1>23, RecordsKept, <1>a DEF RunFails
  <2>2. ProcessType'
    BY <1>23, <1>a DEF RunFails, ProcessType, WorkerStages, WorkerIdle,
       Waiting, Attempts
  <2>3. WorkerInv'
    BY <1>23, <1>a, <1>b, <1>c DEF RunFails, WorkerInv, EndedInv, HomeInv,
       HistoryInv, WorkerIdle, Waiting, Installing, Attempting
  <2>4. EndedInv'
    BY <1>23, <1>a, <1>b, <1>c DEF RunFails, EndedInv, WorkerInv, WorkerIdle,
       Waiting, Installing, Attempting
  <2>5. LaneInv'
    BY <1>23 DEF RunFails, LaneInv, WorkerIdle, Waiting, Installing,
       Attempting
  <2> QED
    BY <1>23, OthersKept, <2>1, <2>2, <2>3, <2>4, <2>5 DEF RunFails,
       WorkerIdle, Waiting, Installing, Attempting, AttemptsInv
<1>24. CASE ScrubFails
  <2>1. RecordType' /\ HomeInv' /\ HistoryInv'
    BY <1>24, RecordsKept, <1>a DEF ScrubFails
  <2>2. ProcessType'
    BY <1>24, <1>a DEF ScrubFails, ProcessType, WorkerStages, WorkerIdle,
       Waiting, Attempts
  <2>3. WorkerInv'
    BY <1>24, <1>a, <1>b, <1>c DEF ScrubFails, WorkerInv, EndedInv, HomeInv,
       HistoryInv, WorkerIdle, Waiting, Installing, Attempting
  <2>4. EndedInv'
    BY <1>24, <1>a, <1>b, <1>c DEF ScrubFails, EndedInv, WorkerInv,
       WorkerIdle, Waiting, Installing, Attempting
  <2>5. LaneInv'
    BY <1>24 DEF ScrubFails, LaneInv, WorkerIdle, Waiting, Installing,
       Attempting
  <2> QED
    BY <1>24, OthersKept, <2>1, <2>2, <2>3, <2>4, <2>5 DEF ScrubFails,
       WorkerIdle, Waiting, Installing, Attempting, AttemptsInv
<1>25. CASE WorkerDies
  <2>1. RecordType'
    BY <1>25, <1>a, <1>b, <1>c DEF WorkerDies, MayLitter, RecordType,
       WorkerInv, WorkerIdle, Waiting, Installing, Attempting
  <2>2. HomeInv'
    BY <1>25, <1>a, <1>b, <1>c, <2>1 DEF WorkerDies, MayLitter, HomeInv,
       WorkerInv, EndedInv, WorkerIdle, Waiting, Installing, Attempting
  <2>3. HistoryInv'
    BY <1>25, <1>a, <1>b, <1>c, <2>1 DEF WorkerDies, MayLitter, HistoryInv,
       HomeInv, WorkerInv, EndedInv, WorkerIdle, Waiting, Installing,
       Attempting
  <2>4. ProcessType'
    BY <1>25, <1>a DEF WorkerDies, MayLitter, ProcessType, WorkerStages,
       WorkerIdle, Waiting, Attempts
  <2>5. WorkerInv'
    BY <1>25, WorkerEnded, <1>a DEF WorkerDies, MayLitter, WorkerIdle,
       Waiting, Installing, Attempting
  <2>6. EndedInv'
    BY <1>25, <1>a, <1>b, <1>c DEF WorkerDies, MayLitter, EndedInv,
       WorkerInv, WorkerIdle, Waiting, Installing, Attempting
  <2>7. LaneInv'
    BY <1>25 DEF WorkerDies, MayLitter, LaneInv, WorkerIdle, Waiting,
       Installing, Attempting
  <2> QED
    BY <1>25, OthersKept, <2>1, <2>2, <2>3, <2>4, <2>5, <2>6, <2>7 DEF
       WorkerDies, MayLitter, WorkerIdle, Waiting, Installing, Attempting,
       AttemptsInv
<1> QED
  BY <1>1, <1>2, <1>3, <1>4, <1>5, <1>6, <1>7, <1>8, <1>9, <1>10, <1>11,
     <1>12, <1>13, <1>14, <1>15, <1>16, <1>17, <1>18, <1>19, <1>20, <1>21,
     <1>22, <1>23, <1>24, <1>25

-----------------------------------------------------------------------------
(* A coordinator's step that leaves the worker's case alone.               *)
LEMMA WorkerKept ==
  ASSUME WorkerInv, EndedInv,
         UNCHANGED <<made, att, home, own, tomb, seal, worker, starts>>
  PROVE  WorkerInv' /\ EndedInv'
BY DEF WorkerInv, EndedInv, worker

(* What a case needs to be reusable, in words of its history.              *)
LEMMA ReusableShape ==
  ASSUME RecordType, HistoryInv, NEW c \in Cases
  PROVE  Reusable(c) <=> att[c] = <<"success">> /\ seal[c] = 3
<1>1. att[c] \in Histories
  BY DEF RecordType
<1>2. Reusable(c) => att[c] = <<"success">> /\ seal[c] = 3
  BY <1>1, HistoryShape DEF Reusable
<1>3. ASSUME att[c] = <<"success">>, seal[c] = 3
      PROVE  Reusable(c)
  <2>1. own[c] /\ tomb[c]
    BY <1>3 DEF HistoryInv
  <2>2. att[c] # << >> /\ Len(att[c]) = 1 /\ att[c][1] = "success"
    BY <1>3
  <2> QED
    BY <1>3, <2>1, <2>2 DEF Reusable, CleanupProved
<1> QED
  BY <1>2, <1>3

(* A case the plan of a resume leaves to do was never begun: the one whose *)
(* retry is permitted has got its last directory.                          *)
LEMMA PendingNeverBegun ==
  ASSUME RecordType, HomeInv, HistoryInv, NEW c \in Pending
  PROVE  c \in Cases /\ att[c] = << >>
<1>1. c \in Cases /\ (NeverBegun(c) \/ Retried(c))
  <2>1. c \in Cases /\ Disposition(c) = "pending"
    BY DEF Pending
  <2> QED
    BY <2>1 DEF Disposition
<1>2. ~Retried(c)
  <2> SUFFICES ASSUME Retried(c) PROVE FALSE
    OBVIOUS
  <2>1. Len(att[c]) = 1 /\ att[c][1] = "retryable" /\ att[c] \in Histories
    BY <1>1 DEF Retried, RetryPermitted, RecordType
  <2>2. att[c] = <<"retryable">>
    BY <2>1, HistoryShape
  <2>3. own[c]
    BY <1>1, <2>2 DEF HistoryInv
  <2>4. made[c] = SealedDir
    BY <1>1, <2>3 DEF HomeInv
  <2> QED
    BY <2>4 DEF Retried, SealedDir
<1> QED
  BY <1>1, <1>2 DEF NeverBegun

(* The end of a lane, and the failure that aborts the evaluation.          *)
LEMMA StepOfLane ==
  ASSUME AttemptsInv, SealShard \/ FailureAborts
  PROVE  AttemptsInv'
<1> USE DEF Go, records, coordinator
<1>a. /\ RecordType /\ SharedType /\ ProcessType /\ HomeInv /\ HistoryInv
      /\ WorkerInv /\ EndedInv /\ CoordinatorInv /\ CleaningInv /\ BootInv
      /\ TeardownInv /\ LaneInv /\ OwnedCasesAreCleaned
      /\ EpochsAreJudgedRightly
  BY DEF AttemptsInv
<1>1. RecordType' /\ HomeInv' /\ HistoryInv'
  BY RecordsKept, <1>a DEF SealShard, FailureAborts
<1>b. wpc \notin WorkerIdle
  BY DEF SealShard, FailureAborts, WorkerIdle
<1>c. ~teardown /\ boot # "none" /\ cpc \notin Quiet
  BY <1>a, <1>b DEF TeardownInv, BootInv, CoordinatorInv, WorkerIdle
<1>2. CASE SealShard
  <2>1. LaneOutcome \in {"none", "success", "failed"}
    BY DEF LaneOutcome
  <2>2. SharedType' /\ ProcessType'
    BY <1>2, <1>a, <2>1 DEF SealShard, SharedType, ProcessType, WorkerStages,
       WorkerIdle
  <2>3. WorkerInv' /\ EndedInv'
    BY <1>2, <1>a, WorkerEnded DEF SealShard, WorkerIdle
  <2>4. CoordinatorInv' /\ CleaningInv'
    BY <1>2, <1>a, <1>b, <1>c DEF SealShard, CoordinatorInv, CleaningInv,
       Quiet, CleanupStages, WorkerIdle
  <2>5. BootInv' /\ TeardownInv'
    BY <1>2, <1>c DEF SealShard, BootInv, TeardownInv
  <2>6. OwnedCasesAreCleaned' /\ EpochsAreJudgedRightly'
    BY <1>2, <1>a, <1>b DEF SealShard, OwnedCasesAreCleaned,
       EpochsAreJudgedRightly, CoordinatorInv
  <2>7. LaneInv'
    <3> SUFFICES ASSUME wpc' = "stopped", \A c \in Cases : Reusable(c)'
                 PROVE  shard' = "success"
      BY DEF LaneInv
    <3>1. \A c \in Cases : Reusable(c)
      BY <1>2 DEF SealShard, Reusable, CleanupProved
    <3>2. ~LaneFailed
      BY <1>a, <3>1 DEF LaneFailed, Reusable, ProcessType
    <3>3. LaneOutcome = "success"
      BY <3>1, <3>2 DEF LaneOutcome
    <3> QED
      BY <1>2, <3>3 DEF SealShard
  <2> QED
    BY <1>1, <2>2, <2>3, <2>4, <2>5, <2>6, <2>7 DEF AttemptsInv
<1>3. CASE FailureAborts
  <2>1. SharedType' /\ ProcessType'
    BY <1>3, <1>a DEF FailureAborts, SharedType, ProcessType, WorkerStages,
       CoordinatorStages
  <2>2. WorkerInv' /\ EndedInv'
    BY <1>3, <1>a, WorkerEnded DEF FailureAborts
  <2>3. CoordinatorInv' /\ CleaningInv'
    BY <1>3 DEF FailureAborts, CoordinatorInv, CleaningInv, Quiet,
       CleanupStages
  <2>4. BootInv' /\ TeardownInv' /\ LaneInv'
    BY <1>3, <1>c DEF FailureAborts, BootInv, TeardownInv, LaneInv
  <2>5. OwnedCasesAreCleaned' /\ EpochsAreJudgedRightly'
    BY <1>3 DEF FailureAborts, OwnedCasesAreCleaned, EpochsAreJudgedRightly
  <2> QED
    BY <1>1, <2>1, <2>2, <2>3, <2>4, <2>5 DEF AttemptsInv
<1> QED
  BY <1>2, <1>3

(* The steps of a coordinator up to the cleanup.                            *)
LEMMA StepOfLaunch ==
  ASSUME AttemptsInv,
         \/ CoordinatorStarts \/ OpenForCleanup \/ OpenArchivedForCleanup
         \/ OpenFresh \/ OpenResume \/ Rearm \/ ResumeCleansUp
         \/ ResumeLaunches \/ LaneStopped \/ Cancel \/ StopWorker
         \/ CoordinatorDies
  PROVE  AttemptsInv'
<1> USE DEF Enter, Spend, shared, worker, records, coordinator,
            CoordinatorKeeps
<1>a. /\ RecordType /\ SharedType /\ ProcessType /\ HomeInv /\ HistoryInv
      /\ WorkerInv /\ EndedInv /\ CoordinatorInv /\ CleaningInv /\ BootInv
      /\ TeardownInv /\ LaneInv /\ OwnedCasesAreCleaned
      /\ EpochsAreJudgedRightly
  BY DEF AttemptsInv
<1>b. /\ 1 \in Cases /\ 0 \notin Cases
      /\ \A c \in Cases : c # LastCase => c + 1 \in Cases
  BY ConstantsAreNaturals DEF Cases
<1>1. CASE CoordinatorStarts
  <2>1. RecordType' /\ HomeInv' /\ HistoryInv'
    BY <1>1, RecordsKept, <1>a DEF CoordinatorStarts
  <2>2. SharedType' /\ ProcessType'
    BY <1>1, <1>a, <1>b DEF CoordinatorStarts, SharedType, ProcessType,
       CoordinatorStages, CleanupStages, WorkerStages, WorkerIdle
  <2>3. WorkerInv' /\ EndedInv'
    BY <1>1, WorkerKept, <1>a DEF CoordinatorStarts
  <2>4. CoordinatorInv'
    BY <1>1, <1>a DEF CoordinatorStarts, CoordinatorInv, BootInv,
       TeardownInv, Quiet, CleanupStages, WorkerIdle
  <2>5. CleaningInv'
    BY <1>1, <1>a, <1>b DEF CoordinatorStarts, CleaningInv, HomeInv,
       ProcessType, RecordType
  <2>6. BootInv'
    BY <1>1, <1>a DEF CoordinatorStarts, BootInv, CoordinatorInv, WorkerIdle
  <2>7. TeardownInv'
    BY <1>1, <1>a DEF CoordinatorStarts, TeardownInv, CoordinatorInv,
       CleaningInv, BootInv, Quiet, CleanupStages, WorkerIdle
  <2>8. LaneInv'
    BY <1>1, <1>a DEF CoordinatorStarts, LaneInv, Reusable, CleanupProved
  <2>9. OwnedCasesAreCleaned'
    BY <1>1, <1>a DEF CoordinatorStarts, OwnedCasesAreCleaned,
       CoordinatorInv, HomeInv, ProcessType
  <2>10. EpochsAreJudgedRightly'
    BY <1>1, <1>a DEF CoordinatorStarts, EpochsAreJudgedRightly,
       CoordinatorInv
  <2> QED
    BY <2>1, <2>2, <2>3, <2>4, <2>5, <2>6, <2>7, <2>8, <2>9, <2>10 DEF
       AttemptsInv
<1>2. CASE OpenForCleanup
  <2>1. RecordType' /\ HomeInv' /\ HistoryInv'
    BY <1>2, RecordsKept, <1>a DEF OpenForCleanup, CleanupOnly
  <2>2. SharedType' /\ ProcessType'
    BY <1>2, <1>a, <1>b DEF OpenForCleanup, CleanupOnly, SharedType,
       ProcessType, CoordinatorStages, CleanupStages, WorkerStages, WorkerIdle
  <2>3. WorkerInv' /\ EndedInv'
    BY <1>2, WorkerKept, <1>a DEF OpenForCleanup, CleanupOnly
  <2>4. CoordinatorInv'
    BY <1>2, <1>a DEF OpenForCleanup, CleanupOnly, CoordinatorInv, BootInv,
       TeardownInv, Quiet, CleanupStages, WorkerIdle
  <2>5. CleaningInv'
    BY <1>2, <1>a, <1>b DEF OpenForCleanup, CleanupOnly, CleaningInv,
       HomeInv, ProcessType, RecordType
  <2>6. BootInv'
    BY <1>2, <1>a DEF OpenForCleanup, CleanupOnly, BootInv, CoordinatorInv,
       WorkerIdle
  <2>7. TeardownInv'
    BY <1>2, <1>a DEF OpenForCleanup, CleanupOnly, TeardownInv,
       CoordinatorInv, CleaningInv, BootInv, Quiet, CleanupStages, WorkerIdle
  <2>8. LaneInv'
    BY <1>2, <1>a DEF OpenForCleanup, CleanupOnly, LaneInv, Reusable,
       CleanupProved
  <2>9. OwnedCasesAreCleaned'
    BY <1>2, <1>a DEF OpenForCleanup, CleanupOnly, OwnedCasesAreCleaned,
       CoordinatorInv, HomeInv, ProcessType
  <2>10. EpochsAreJudgedRightly'
    BY <1>2, <1>a DEF OpenForCleanup, CleanupOnly, EpochsAreJudgedRightly,
       CoordinatorInv
  <2> QED
    BY <2>1, <2>2, <2>3, <2>4, <2>5, <2>6, <2>7, <2>8, <2>9, <2>10 DEF
       AttemptsInv
<1>3. CASE OpenFresh
  <2>1. RecordType' /\ HomeInv' /\ HistoryInv'
    BY <1>3, RecordsKept, <1>a DEF OpenFresh, CleanupOnly
  <2>2. SharedType' /\ ProcessType'
    <3>1. /\ boot' = "there" /\ wpc' = "lane" /\ todo' = Cases /\ at' = 0
          /\ cpc' = "running"
          /\ UNCHANGED <<stopMark, teardown, shard, archive, result, used,
                         resumes, cleaning, ended>>
      BY <1>3 DEF OpenFresh
    <3>2. SharedType'
      BY <1>a, <3>1 DEF SharedType
    <3>3. wpc' \in WorkerStages /\ cpc' \in CoordinatorStages
      BY <3>1 DEF WorkerStages, Waiting, CoordinatorStages
    <3> QED
      BY <1>a, <3>1, <3>2, <3>3 DEF ProcessType
  <2>3. WorkerInv' /\ EndedInv'
    <3>1. \A c \in Cases : att[c] = << >>
      BY <1>3, <1>a DEF OpenFresh, CleanupOnly, BootInv
    <3> QED
      BY <1>3, <1>b, <3>1 DEF OpenFresh, WorkerInv, EndedInv, Installing,
         Attempting
  <2>4. CoordinatorInv'
    BY <1>3, <1>a DEF OpenFresh, CleanupOnly, CoordinatorInv, BootInv,
       TeardownInv, Quiet, CleanupStages, WorkerIdle
  <2>5. CleaningInv'
    BY <1>3, <1>a, <1>b DEF OpenFresh, CleanupOnly, CleaningInv, HomeInv,
       ProcessType, RecordType
  <2>6. BootInv'
    BY <1>3, <1>a DEF OpenFresh, CleanupOnly, BootInv, CoordinatorInv,
       WorkerIdle
  <2>7. TeardownInv'
    BY <1>3, <1>a DEF OpenFresh, CleanupOnly, TeardownInv, CoordinatorInv,
       CleaningInv, BootInv, Quiet, CleanupStages, WorkerIdle
  <2>8. LaneInv'
    BY <1>3, <1>a DEF OpenFresh, CleanupOnly, LaneInv, Reusable, CleanupProved
  <2>9. OwnedCasesAreCleaned'
    BY <1>3, <1>a DEF OpenFresh, CleanupOnly, OwnedCasesAreCleaned,
       CoordinatorInv, HomeInv, ProcessType
  <2>10. EpochsAreJudgedRightly'
    BY <1>3, <1>a DEF OpenFresh, CleanupOnly, EpochsAreJudgedRightly,
       CoordinatorInv
  <2> QED
    BY <2>1, <2>2, <2>3, <2>4, <2>5, <2>6, <2>7, <2>8, <2>9, <2>10 DEF
       AttemptsInv
<1>4. CASE OpenResume
  <2>1. RecordType' /\ HomeInv' /\ HistoryInv'
    BY <1>4, RecordsKept, <1>a DEF OpenResume
  <2>2. SharedType' /\ ProcessType'
    BY <1>4, <1>a, <1>b DEF OpenResume, SharedType, ProcessType,
       CoordinatorStages, CleanupStages, WorkerStages, WorkerIdle
  <2>3. WorkerInv' /\ EndedInv'
    BY <1>4, WorkerEnded, <1>a DEF OpenResume, CoordinatorInv, Quiet,
       CleanupStages, WorkerIdle
  <2>4. CoordinatorInv'
    BY <1>4, <1>a DEF OpenResume, CoordinatorInv, BootInv, TeardownInv,
       Quiet, CleanupStages, WorkerIdle
  <2>5. CleaningInv'
    BY <1>4, <1>a, <1>b DEF OpenResume, CleaningInv, HomeInv, ProcessType,
       RecordType
  <2>6. BootInv'
    BY <1>4, <1>a DEF OpenResume, BootInv, CoordinatorInv, WorkerIdle
  <2>7. TeardownInv'
    BY <1>4, <1>a DEF OpenResume, TeardownInv, CoordinatorInv, CleaningInv,
       BootInv, Quiet, CleanupStages, WorkerIdle
  <2>8. LaneInv'
    BY <1>4, <1>a DEF OpenResume, LaneInv, Reusable, CleanupProved
  <2>9. OwnedCasesAreCleaned'
    BY <1>4, <1>a DEF OpenResume, OwnedCasesAreCleaned, CoordinatorInv,
       HomeInv, ProcessType
  <2>10. EpochsAreJudgedRightly'
    BY <1>4, <1>a DEF OpenResume, EpochsAreJudgedRightly, CoordinatorInv
  <2> QED
    BY <2>1, <2>2, <2>3, <2>4, <2>5, <2>6, <2>7, <2>8, <2>9, <2>10 DEF
       AttemptsInv
<1>5. CASE Rearm
  <2>1. RecordType' /\ HomeInv' /\ HistoryInv'
    BY <1>5, RecordsKept, <1>a DEF Rearm
  <2>2. SharedType' /\ ProcessType'
    <3>1. /\ boot' = "there" /\ stopMark' = FALSE /\ teardown' = FALSE
          /\ archive' = TRUE
          /\ UNCHANGED <<shard, wpc, at, todo, ended, cpc, resumes, cleaning,
                         result, used>>
      BY <1>5 DEF Rearm
    <3>2. SharedType'
      BY <1>a, <3>1 DEF SharedType
    <3> QED
      BY <1>a, <3>1, <3>2 DEF ProcessType
  <2>3. WorkerInv' /\ EndedInv'
    BY <1>5, WorkerKept, <1>a DEF Rearm
  <2>4. CoordinatorInv'
    BY <1>5, <1>a DEF Rearm, CoordinatorInv, BootInv, TeardownInv, Quiet,
       CleanupStages, WorkerIdle
  <2>5. CleaningInv'
    BY <1>5, <1>a, <1>b DEF Rearm, CleaningInv, HomeInv, ProcessType,
       RecordType
  <2>6. BootInv'
    BY <1>5, <1>a DEF Rearm, BootInv, CoordinatorInv, WorkerIdle
  <2>7. TeardownInv'
    BY <1>5, <1>a DEF Rearm, TeardownInv, CoordinatorInv, CleaningInv,
       BootInv, Quiet, CleanupStages, WorkerIdle
  <2>8. LaneInv'
    BY <1>5, <1>a DEF Rearm, LaneInv, Reusable, CleanupProved
  <2>9. OwnedCasesAreCleaned'
    BY <1>5, <1>a DEF Rearm, OwnedCasesAreCleaned, CoordinatorInv, HomeInv,
       ProcessType
  <2>10. EpochsAreJudgedRightly'
    BY <1>5, <1>a DEF Rearm, EpochsAreJudgedRightly, CoordinatorInv
  <2> QED
    BY <2>1, <2>2, <2>3, <2>4, <2>5, <2>6, <2>7, <2>8, <2>9, <2>10 DEF
       AttemptsInv
<1>6. CASE ResumeCleansUp
  <2>1. RecordType' /\ HomeInv' /\ HistoryInv'
    BY <1>6, RecordsKept, <1>a DEF ResumeCleansUp
  <2>2. SharedType' /\ ProcessType'
    BY <1>6, <1>a, <1>b DEF ResumeCleansUp, SharedType, ProcessType,
       CoordinatorStages, CleanupStages, WorkerStages, WorkerIdle
  <2>3. WorkerInv' /\ EndedInv'
    BY <1>6, WorkerKept, <1>a DEF ResumeCleansUp
  <2>4. CoordinatorInv'
    BY <1>6, <1>a DEF ResumeCleansUp, CoordinatorInv, BootInv, TeardownInv,
       Quiet, CleanupStages, WorkerIdle
  <2>5. CleaningInv'
    BY <1>6, <1>a, <1>b DEF ResumeCleansUp, CleaningInv, HomeInv,
       ProcessType, RecordType
  <2>6. BootInv'
    BY <1>6, <1>a DEF ResumeCleansUp, BootInv, CoordinatorInv, WorkerIdle
  <2>7. TeardownInv'
    BY <1>6, <1>a DEF ResumeCleansUp, TeardownInv, CoordinatorInv,
       CleaningInv, BootInv, Quiet, CleanupStages, WorkerIdle
  <2>8. LaneInv'
    BY <1>6, <1>a DEF ResumeCleansUp, LaneInv, Reusable, CleanupProved
  <2>9. OwnedCasesAreCleaned'
    BY <1>6, <1>a DEF ResumeCleansUp, OwnedCasesAreCleaned, CoordinatorInv,
       HomeInv, ProcessType
  <2>10. EpochsAreJudgedRightly'
    BY <1>6, <1>a DEF ResumeCleansUp, EpochsAreJudgedRightly, CoordinatorInv
  <2> QED
    BY <2>1, <2>2, <2>3, <2>4, <2>5, <2>6, <2>7, <2>8, <2>9, <2>10 DEF
       AttemptsInv
<1>7. CASE ResumeLaunches
  <2>1. RecordType' /\ HomeInv' /\ HistoryInv'
    BY <1>7, RecordsKept, <1>a DEF ResumeLaunches
  <2>2. SharedType' /\ ProcessType'
    <3>1. Pending \subseteq Cases
      BY DEF Pending
    <3>2. /\ wpc' = "lane" /\ todo' = Pending /\ at' = 0 /\ cpc' = "running"
          /\ UNCHANGED <<shared, resumes, cleaning, result, used, ended>>
      BY <1>7 DEF ResumeLaunches
    <3>3. SharedType'
      BY <1>a, <3>2 DEF SharedType
    <3>4. wpc' \in WorkerStages /\ cpc' \in CoordinatorStages
      BY <3>2 DEF WorkerStages, Waiting, CoordinatorStages
    <3> QED
      BY <1>a, <3>1, <3>2, <3>3, <3>4 DEF ProcessType
  <2>3. WorkerInv' /\ EndedInv'
    <3>1. \A c \in Pending : c \in Cases /\ att[c] = << >>
      BY <1>a, PendingNeverBegun
    <3>2. /\ wpc' = "lane" /\ todo' = Pending /\ at' = 0
          /\ UNCHANGED att
      BY <1>7 DEF ResumeLaunches
    <3> QED
      BY <1>b, <3>1, <3>2 DEF WorkerInv, EndedInv, Installing, Attempting
  <2>4. CoordinatorInv'
    BY <1>7, <1>a DEF ResumeLaunches, CoordinatorInv, BootInv, TeardownInv,
       Quiet, CleanupStages, WorkerIdle
  <2>5. CleaningInv'
    BY <1>7, <1>a, <1>b DEF ResumeLaunches, CleaningInv, HomeInv,
       ProcessType, RecordType
  <2>6. BootInv'
    BY <1>7, <1>a DEF ResumeLaunches, BootInv, CoordinatorInv, WorkerIdle
  <2>7. TeardownInv'
    BY <1>7, <1>a DEF ResumeLaunches, TeardownInv, CoordinatorInv,
       CleaningInv, BootInv, Quiet, CleanupStages, WorkerIdle
  <2>8. LaneInv'
    BY <1>7, <1>a DEF ResumeLaunches, LaneInv, Reusable, CleanupProved
  <2>9. OwnedCasesAreCleaned'
    BY <1>7, <1>a DEF ResumeLaunches, OwnedCasesAreCleaned, CoordinatorInv,
       HomeInv, ProcessType
  <2>10. EpochsAreJudgedRightly'
    BY <1>7, <1>a DEF ResumeLaunches, EpochsAreJudgedRightly, CoordinatorInv
  <2> QED
    BY <2>1, <2>2, <2>3, <2>4, <2>5, <2>6, <2>7, <2>8, <2>9, <2>10 DEF
       AttemptsInv
<1>8. CASE LaneStopped
  <2>1. RecordType' /\ HomeInv' /\ HistoryInv'
    BY <1>8, RecordsKept, <1>a DEF LaneStopped
  <2>2. SharedType' /\ ProcessType'
    BY <1>8, <1>a, <1>b DEF LaneStopped, SharedType, ProcessType,
       CoordinatorStages, CleanupStages, WorkerStages, WorkerIdle
  <2>3. WorkerInv' /\ EndedInv'
    BY <1>8, WorkerKept, <1>a DEF LaneStopped
  <2>4. CoordinatorInv'
    BY <1>8, <1>a DEF LaneStopped, CoordinatorInv, BootInv, TeardownInv,
       Quiet, CleanupStages, WorkerIdle
  <2>5. CleaningInv'
    BY <1>8, <1>a, <1>b DEF LaneStopped, CleaningInv, HomeInv, ProcessType,
       RecordType
  <2>6. BootInv'
    BY <1>8, <1>a DEF LaneStopped, BootInv, CoordinatorInv, WorkerIdle
  <2>7. TeardownInv'
    BY <1>8, <1>a DEF LaneStopped, TeardownInv, CoordinatorInv, CleaningInv,
       BootInv, Quiet, CleanupStages, WorkerIdle
  <2>8. LaneInv'
    BY <1>8, <1>a DEF LaneStopped, LaneInv, Reusable, CleanupProved
  <2>9. OwnedCasesAreCleaned'
    BY <1>8, <1>a DEF LaneStopped, OwnedCasesAreCleaned, CoordinatorInv,
       HomeInv, ProcessType
  <2>10. EpochsAreJudgedRightly'
    BY <1>8, <1>a DEF LaneStopped, EpochsAreJudgedRightly, CoordinatorInv
  <2> QED
    BY <2>1, <2>2, <2>3, <2>4, <2>5, <2>6, <2>7, <2>8, <2>9, <2>10 DEF
       AttemptsInv
<1>9. CASE Cancel
  <2>1. RecordType' /\ HomeInv' /\ HistoryInv'
    BY <1>9, RecordsKept, <1>a DEF Cancel
  <2>2. SharedType' /\ ProcessType'
    BY <1>9, <1>a, <1>b DEF Cancel, SharedType, ProcessType,
       CoordinatorStages, CleanupStages, WorkerStages, WorkerIdle
  <2>3. WorkerInv' /\ EndedInv'
    BY <1>9, WorkerKept, <1>a DEF Cancel
  <2>4. CoordinatorInv'
    BY <1>9, <1>a DEF Cancel, CoordinatorInv, BootInv, TeardownInv, Quiet,
       CleanupStages, WorkerIdle
  <2>5. CleaningInv'
    BY <1>9, <1>a, <1>b DEF Cancel, CleaningInv, HomeInv, ProcessType,
       RecordType
  <2>6. BootInv'
    BY <1>9, <1>a DEF Cancel, BootInv, CoordinatorInv, WorkerIdle
  <2>7. TeardownInv'
    BY <1>9, <1>a DEF Cancel, TeardownInv, CoordinatorInv, CleaningInv,
       BootInv, Quiet, CleanupStages, WorkerIdle
  <2>8. LaneInv'
    BY <1>9, <1>a DEF Cancel, LaneInv, Reusable, CleanupProved
  <2>9. OwnedCasesAreCleaned'
    BY <1>9, <1>a DEF Cancel, OwnedCasesAreCleaned, CoordinatorInv, HomeInv,
       ProcessType
  <2>10. EpochsAreJudgedRightly'
    BY <1>9, <1>a DEF Cancel, EpochsAreJudgedRightly, CoordinatorInv
  <2> QED
    BY <2>1, <2>2, <2>3, <2>4, <2>5, <2>6, <2>7, <2>8, <2>9, <2>10 DEF
       AttemptsInv
<1>10. CASE StopWorker
  <2>1. RecordType' /\ HomeInv' /\ HistoryInv'
    BY <1>10, RecordsKept, <1>a DEF StopWorker
  <2>2. SharedType' /\ ProcessType'
    BY <1>10, <1>a, <1>b DEF StopWorker, SharedType, ProcessType,
       CoordinatorStages, CleanupStages, WorkerStages, WorkerIdle
  <2>3. WorkerInv' /\ EndedInv'
    BY <1>10, WorkerEnded, <1>a DEF StopWorker, CoordinatorInv, Quiet,
       CleanupStages, WorkerIdle
  <2>4. CoordinatorInv'
    BY <1>10, <1>a DEF StopWorker, CoordinatorInv, BootInv, TeardownInv,
       Quiet, CleanupStages, WorkerIdle
  <2>5. CleaningInv'
    BY <1>10, <1>a, <1>b DEF StopWorker, CleaningInv, HomeInv, ProcessType,
       RecordType
  <2>6. BootInv'
    BY <1>10, <1>a DEF StopWorker, BootInv, CoordinatorInv, WorkerIdle
  <2>7. TeardownInv'
    BY <1>10, <1>a DEF StopWorker, TeardownInv, CoordinatorInv, CleaningInv,
       BootInv, Quiet, CleanupStages, WorkerIdle
  <2>8. LaneInv'
    BY <1>10, <1>a DEF StopWorker, LaneInv, Reusable, CleanupProved
  <2>9. OwnedCasesAreCleaned'
    BY <1>10, <1>a DEF StopWorker, OwnedCasesAreCleaned, CoordinatorInv,
       HomeInv, ProcessType
  <2>10. EpochsAreJudgedRightly'
    BY <1>10, <1>a DEF StopWorker, EpochsAreJudgedRightly, CoordinatorInv
  <2> QED
    BY <2>1, <2>2, <2>3, <2>4, <2>5, <2>6, <2>7, <2>8, <2>9, <2>10 DEF
       AttemptsInv
<1>11. CASE CoordinatorDies
  <2>1. RecordType' /\ HomeInv' /\ HistoryInv'
    BY <1>11, <1>a DEF CoordinatorDies, MayLitter, RecordType, HomeInv,
       HistoryInv, CleaningInv, ProcessType
  <2>2. SharedType' /\ ProcessType'
    BY <1>11, <1>a, <1>b DEF CoordinatorDies, MayLitter, SharedType,
       ProcessType, CoordinatorStages, CleanupStages, WorkerStages, WorkerIdle
  <2>3. WorkerInv' /\ EndedInv'
    BY <1>11, WorkerKept, <1>a DEF CoordinatorDies, MayLitter
  <2>4. CoordinatorInv'
    BY <1>11, <1>a DEF CoordinatorDies, MayLitter, CoordinatorInv, BootInv,
       TeardownInv, Quiet, CleanupStages, WorkerIdle
  <2>5. CleaningInv'
    BY <1>11, <1>a, <1>b DEF CoordinatorDies, MayLitter, CleaningInv,
       HomeInv, ProcessType, RecordType
  <2>6. BootInv'
    BY <1>11, <1>a DEF CoordinatorDies, MayLitter, BootInv, CoordinatorInv,
       WorkerIdle
  <2>7. TeardownInv'
    BY <1>11, <1>a DEF CoordinatorDies, MayLitter, TeardownInv,
       CoordinatorInv, CleaningInv, BootInv, Quiet, CleanupStages, WorkerIdle
  <2>8. LaneInv'
    BY <1>11, <1>a DEF CoordinatorDies, MayLitter, LaneInv, Reusable,
       CleanupProved
  <2>9. OwnedCasesAreCleaned'
    BY <1>11, <1>a DEF CoordinatorDies, MayLitter, OwnedCasesAreCleaned,
       CoordinatorInv, HomeInv, ProcessType
  <2>10. EpochsAreJudgedRightly'
    BY <1>11, <1>a DEF CoordinatorDies, MayLitter, EpochsAreJudgedRightly,
       CoordinatorInv
  <2> QED
    BY <2>1, <2>2, <2>3, <2>4, <2>5, <2>6, <2>7, <2>8, <2>9, <2>10 DEF
       AttemptsInv
<1>12. CASE OpenArchivedForCleanup
  <2> USE <1>12 DEF OpenArchivedForCleanup, CleanupOnly
  <2>1. RecordType' /\ HomeInv' /\ HistoryInv'
    BY RecordsKept, <1>a
  <2>2. SharedType' /\ ProcessType'
    BY <1>a, <1>b DEF SharedType, ProcessType, CoordinatorStages,
       CleanupStages, WorkerStages, WorkerIdle
  <2>3. WorkerInv' /\ EndedInv'
    BY WorkerEnded, <1>a DEF WorkerIdle
  <2>4. CoordinatorInv'
    BY <1>a DEF CoordinatorInv, BootInv, Quiet, CleanupStages, WorkerIdle
  <2>5. CleaningInv'
    BY <1>b DEF CleaningInv
  <2>6. BootInv'
    BY <1>a DEF BootInv, WorkerIdle
  <2>7. TeardownInv'
    BY <1>a DEF TeardownInv
  <2>8. LaneInv'
    BY <1>a DEF LaneInv, Reusable, CleanupProved, WorkerIdle
  <2>9. OwnedCasesAreCleaned' /\ EpochsAreJudgedRightly'
    BY <1>a DEF OwnedCasesAreCleaned, EpochsAreJudgedRightly, CoordinatorInv
  <2> QED
    BY <2>1, <2>2, <2>3, <2>4, <2>5, <2>6, <2>7, <2>8, <2>9 DEF AttemptsInv
<1> QED
  BY <1>1, <1>2, <1>3, <1>4, <1>5, <1>6, <1>7, <1>8, <1>9, <1>10, <1>11,
     <1>12

(* The steps of a cleanup, and the verdict on the epoch.                   *)
LEMMA StepOfCleanup ==
  ASSUME AttemptsInv, ShardInv,
         \/ SkipCase \/ RecoverCase \/ CleanupRefuses \/ RecoveryScrubs
         \/ RecoveryEntombs \/ RemoveHome \/ RemoveBootstrap
         \/ WriteReceipt \/ Validate
  PROVE  AttemptsInv'
<1> USE DEF Enter, Spend, shared, worker, records, coordinator,
            CoordinatorKeeps
<1>a. /\ RecordType /\ SharedType /\ ProcessType /\ HomeInv /\ HistoryInv
      /\ WorkerInv /\ EndedInv /\ CoordinatorInv /\ CleaningInv /\ BootInv
      /\ TeardownInv /\ LaneInv /\ OwnedCasesAreCleaned
      /\ EpochsAreJudgedRightly
  BY DEF AttemptsInv
<1>b. /\ 1 \in Cases /\ 0 \notin Cases
      /\ \A c \in Cases : c # LastCase => c + 1 \in Cases
  BY ConstantsAreNaturals DEF Cases
<1>1. CASE SkipCase
  <2>1. RecordType' /\ HomeInv' /\ HistoryInv'
    BY <1>1, RecordsKept, <1>a DEF SkipCase, CleansCase, NextCleaned
  <2>2. SharedType' /\ ProcessType'
    BY <1>1, <1>a, <1>b DEF SkipCase, CleansCase, NextCleaned, SharedType,
       ProcessType, CoordinatorStages, CleanupStages, WorkerStages, WorkerIdle
  <2>3. WorkerInv' /\ EndedInv'
    BY <1>1, WorkerKept, <1>a DEF SkipCase, CleansCase, NextCleaned
  <2>4. CoordinatorInv'
    BY <1>1, <1>a DEF SkipCase, CleansCase, NextCleaned, CoordinatorInv,
       BootInv, TeardownInv, Quiet, CleanupStages, WorkerIdle
  <2>5. CleaningInv'
    <3>1. cpc' \in {"recover", "bootstrap"}
      BY <1>1 DEF SkipCase, NextCleaned
    <3>2. cpc' = "recover" => cleaning' \in Cases
      BY <1>1, <1>a, <1>b DEF SkipCase, CleansCase, NextCleaned, ProcessType
    <3> QED
      BY <1>b, <3>1, <3>2 DEF CleaningInv
  <2>6. BootInv'
    BY <1>1, <1>a DEF SkipCase, CleansCase, NextCleaned, BootInv,
       CoordinatorInv, WorkerIdle
  <2>7. TeardownInv'
    BY <1>1, <1>a DEF SkipCase, CleansCase, NextCleaned, TeardownInv,
       CoordinatorInv, CleaningInv, BootInv, Quiet, CleanupStages, WorkerIdle
  <2>8. LaneInv'
    BY <1>1, <1>a DEF SkipCase, CleansCase, NextCleaned, LaneInv, Reusable,
       CleanupProved
  <2>9. OwnedCasesAreCleaned'
    BY <1>1, <1>a DEF SkipCase, CleansCase, NextCleaned,
       OwnedCasesAreCleaned, CoordinatorInv, HomeInv, ProcessType
  <2>10. EpochsAreJudgedRightly'
    BY <1>1, <1>a DEF SkipCase, CleansCase, NextCleaned,
       EpochsAreJudgedRightly, CoordinatorInv
  <2> QED
    BY <2>1, <2>2, <2>3, <2>4, <2>5, <2>6, <2>7, <2>8, <2>9, <2>10 DEF
       AttemptsInv
<1>2. CASE RecoverCase
  <2>1. RecordType' /\ HomeInv' /\ HistoryInv'
    BY <1>2, RecordsKept, <1>a DEF RecoverCase, CleansCase, Recoverable
  <2>2. SharedType' /\ ProcessType'
    BY <1>2, <1>a, <1>b DEF RecoverCase, CleansCase, Recoverable, SharedType,
       ProcessType, CoordinatorStages, CleanupStages, WorkerStages, WorkerIdle
  <2>3. WorkerInv' /\ EndedInv'
    BY <1>2, WorkerKept, <1>a DEF RecoverCase, CleansCase, Recoverable
  <2>4. CoordinatorInv'
    BY <1>2, <1>a DEF RecoverCase, CleansCase, Recoverable, CoordinatorInv,
       BootInv, TeardownInv, Quiet, CleanupStages, WorkerIdle
  <2>5. CleaningInv'
    BY <1>2, <1>a, <1>b DEF RecoverCase, CleansCase, Recoverable,
       CleaningInv, HomeInv, ProcessType, RecordType
  <2>6. BootInv'
    BY <1>2, <1>a DEF RecoverCase, CleansCase, Recoverable, BootInv,
       CoordinatorInv, WorkerIdle
  <2>7. TeardownInv'
    BY <1>2, <1>a DEF RecoverCase, CleansCase, Recoverable, TeardownInv,
       CoordinatorInv, CleaningInv, BootInv, Quiet, CleanupStages, WorkerIdle
  <2>8. LaneInv'
    BY <1>2, <1>a DEF RecoverCase, CleansCase, Recoverable, LaneInv,
       Reusable, CleanupProved
  <2>9. OwnedCasesAreCleaned'
    BY <1>2, <1>a DEF RecoverCase, CleansCase, Recoverable,
       OwnedCasesAreCleaned, CoordinatorInv, HomeInv, ProcessType
  <2>10. EpochsAreJudgedRightly'
    BY <1>2, <1>a DEF RecoverCase, CleansCase, Recoverable,
       EpochsAreJudgedRightly, CoordinatorInv
  <2> QED
    BY <2>1, <2>2, <2>3, <2>4, <2>5, <2>6, <2>7, <2>8, <2>9, <2>10 DEF
       AttemptsInv
<1>3. CASE CleanupRefuses
  <2>1. RecordType' /\ HomeInv' /\ HistoryInv'
    BY <1>3, RecordsKept, <1>a DEF CleanupRefuses, CleansCase, Recoverable
  <2>2. SharedType' /\ ProcessType'
    BY <1>3, <1>a, <1>b DEF CleanupRefuses, CleansCase, Recoverable,
       SharedType, ProcessType, CoordinatorStages, CleanupStages,
       WorkerStages, WorkerIdle
  <2>3. WorkerInv' /\ EndedInv'
    BY <1>3, WorkerKept, <1>a DEF CleanupRefuses, CleansCase, Recoverable
  <2>4. CoordinatorInv'
    BY <1>3, <1>a DEF CleanupRefuses, CleansCase, Recoverable,
       CoordinatorInv, BootInv, TeardownInv, Quiet, CleanupStages, WorkerIdle
  <2>5. CleaningInv'
    BY <1>3, <1>a, <1>b DEF CleanupRefuses, CleansCase, Recoverable,
       CleaningInv, HomeInv, ProcessType, RecordType
  <2>6. BootInv'
    BY <1>3, <1>a DEF CleanupRefuses, CleansCase, Recoverable, BootInv,
       CoordinatorInv, WorkerIdle
  <2>7. TeardownInv'
    BY <1>3, <1>a DEF CleanupRefuses, CleansCase, Recoverable, TeardownInv,
       CoordinatorInv, CleaningInv, BootInv, Quiet, CleanupStages, WorkerIdle
  <2>8. LaneInv'
    BY <1>3, <1>a DEF CleanupRefuses, CleansCase, Recoverable, LaneInv,
       Reusable, CleanupProved
  <2>9. OwnedCasesAreCleaned'
    BY <1>3, <1>a DEF CleanupRefuses, CleansCase, Recoverable,
       OwnedCasesAreCleaned, CoordinatorInv, HomeInv, ProcessType
  <2>10. EpochsAreJudgedRightly'
    BY <1>3, <1>a DEF CleanupRefuses, CleansCase, Recoverable,
       EpochsAreJudgedRightly, CoordinatorInv
  <2> QED
    BY <2>1, <2>2, <2>3, <2>4, <2>5, <2>6, <2>7, <2>8, <2>9, <2>10 DEF
       AttemptsInv
<1>4. CASE RecoveryScrubs
  <2>1. RecordType' /\ HomeInv' /\ HistoryInv'
    BY <1>4, <1>a DEF RecoveryScrubs, CleansCase, RecordType, HomeInv,
       HistoryInv, CleaningInv, ProcessType
  <2>2. SharedType' /\ ProcessType'
    BY <1>4, <1>a, <1>b DEF RecoveryScrubs, CleansCase, SharedType,
       ProcessType, CoordinatorStages, CleanupStages, WorkerStages, WorkerIdle
  <2>3. WorkerInv' /\ EndedInv'
    BY <1>4, WorkerEnded, <1>a DEF RecoveryScrubs, CleansCase,
       CoordinatorInv, Quiet, CleanupStages, WorkerIdle
  <2>4. CoordinatorInv'
    BY <1>4, <1>a DEF RecoveryScrubs, CleansCase, CoordinatorInv, BootInv,
       TeardownInv, Quiet, CleanupStages, WorkerIdle
  <2>5. CleaningInv'
    <3>1. cleaning \in Cases
      BY <1>4, <1>a DEF RecoveryScrubs, CleansCase, ProcessType
    <3>2. home'[cleaning] = "empty"
      BY <1>4, <1>a, <3>1 DEF RecoveryScrubs, RecordType
    <3> QED
      BY <1>4, <1>a, <3>2 DEF RecoveryScrubs, CleansCase, CleaningInv
  <2>6. BootInv'
    BY <1>4, <1>a DEF RecoveryScrubs, CleansCase, BootInv, CoordinatorInv,
       WorkerIdle
  <2>7. TeardownInv'
    BY <1>4, <1>a DEF RecoveryScrubs, CleansCase, TeardownInv,
       CoordinatorInv, CleaningInv, BootInv, Quiet, CleanupStages, WorkerIdle
  <2>8. LaneInv'
    BY <1>4, <1>a DEF RecoveryScrubs, CleansCase, LaneInv, Reusable,
       CleanupProved
  <2>9. OwnedCasesAreCleaned'
    BY <1>4, <1>a DEF RecoveryScrubs, CleansCase, OwnedCasesAreCleaned,
       CoordinatorInv, HomeInv, ProcessType
  <2>10. EpochsAreJudgedRightly'
    BY <1>4, <1>a DEF RecoveryScrubs, CleansCase, EpochsAreJudgedRightly,
       CoordinatorInv
  <2> QED
    BY <2>1, <2>2, <2>3, <2>4, <2>5, <2>6, <2>7, <2>8, <2>9, <2>10 DEF
       AttemptsInv
<1>5. CASE RecoveryEntombs
  <2>1. RecordType' /\ HomeInv' /\ HistoryInv'
    BY <1>5, <1>a DEF RecoveryEntombs, CleansCase, RecordType, HomeInv,
       HistoryInv, CleaningInv, ProcessType
  <2>2. SharedType' /\ ProcessType'
    BY <1>5, <1>a, <1>b DEF RecoveryEntombs, CleansCase, SharedType,
       ProcessType, CoordinatorStages, CleanupStages, WorkerStages, WorkerIdle
  <2>3. WorkerInv' /\ EndedInv'
    BY <1>5, WorkerEnded, <1>a DEF RecoveryEntombs, CleansCase,
       CoordinatorInv, Quiet, CleanupStages, WorkerIdle
  <2>4. CoordinatorInv'
    BY <1>5, <1>a DEF RecoveryEntombs, CleansCase, CoordinatorInv, BootInv,
       TeardownInv, Quiet, CleanupStages, WorkerIdle
  <2>5. CleaningInv'
    <3>1. cleaning \in Cases
      BY <1>5, <1>a DEF RecoveryEntombs, CleansCase, ProcessType
    <3>2. tomb'[cleaning]
      BY <1>5, <1>a, <3>1 DEF RecoveryEntombs, RecordType
    <3> QED
      BY <1>5, <1>a, <3>2 DEF RecoveryEntombs, CleansCase, CleaningInv
  <2>6. BootInv'
    BY <1>5, <1>a DEF RecoveryEntombs, CleansCase, BootInv, CoordinatorInv,
       WorkerIdle
  <2>7. TeardownInv'
    BY <1>5, <1>a DEF RecoveryEntombs, CleansCase, TeardownInv,
       CoordinatorInv, CleaningInv, BootInv, Quiet, CleanupStages, WorkerIdle
  <2>8. LaneInv'
    <3> SUFFICES ASSUME wpc' = "stopped", \A c \in Cases : Reusable(c)'
                 PROVE  shard' = "success"
      BY DEF LaneInv
    <3>1. ASSUME NEW c \in Cases PROVE Reusable(c)
      <4>1. UNCHANGED <<att, own, seal>> /\ Reusable(c)'
        BY <1>5 DEF RecoveryEntombs
      <4>2. att[c] # << >> /\ att[c][Len(att[c])] = "success" /\ seal[c] = 3
        BY <4>1 DEF Reusable
      <4>3. att[c] = <<"success">>
        BY <1>a, <4>2, HistoryShape DEF RecordType
      <4> QED
        BY <1>a, <4>2, <4>3, ReusableShape
    <3> QED
      BY <1>5, <1>a, <3>1 DEF RecoveryEntombs, LaneInv
  <2>9. OwnedCasesAreCleaned'
    BY <1>5, <1>a DEF RecoveryEntombs, CleansCase, OwnedCasesAreCleaned,
       CoordinatorInv, HomeInv, ProcessType
  <2>10. EpochsAreJudgedRightly'
    BY <1>5, <1>a DEF RecoveryEntombs, CleansCase, EpochsAreJudgedRightly,
       CoordinatorInv
  <2> QED
    BY <2>1, <2>2, <2>3, <2>4, <2>5, <2>6, <2>7, <2>8, <2>9, <2>10 DEF
       AttemptsInv
<1>6. CASE RemoveHome
  <2>1. RecordType' /\ HomeInv' /\ HistoryInv'
    BY <1>6, <1>a DEF RemoveHome, CleansCase, NextCleaned, RecordType,
       HomeInv, HistoryInv, CleaningInv, ProcessType
  <2>2. SharedType' /\ ProcessType'
    BY <1>6, <1>a, <1>b DEF RemoveHome, CleansCase, NextCleaned, SharedType,
       ProcessType, CoordinatorStages, CleanupStages, WorkerStages, WorkerIdle
  <2>3. WorkerInv' /\ EndedInv'
    BY <1>6, WorkerEnded, <1>a DEF RemoveHome, CleansCase, NextCleaned,
       CoordinatorInv, Quiet, CleanupStages, WorkerIdle
  <2>4. CoordinatorInv'
    BY <1>6, <1>a DEF RemoveHome, CleansCase, NextCleaned, CoordinatorInv,
       BootInv, TeardownInv, Quiet, CleanupStages, WorkerIdle
  <2>5. CleaningInv'
    <3>1. cpc' \in {"recover", "bootstrap"}
      BY <1>6 DEF RemoveHome, NextCleaned
    <3>2. cpc' = "recover" => cleaning' \in Cases
      BY <1>6, <1>a, <1>b DEF RemoveHome, CleansCase, NextCleaned, ProcessType
    <3> QED
      BY <1>b, <3>1, <3>2 DEF CleaningInv
  <2>6. BootInv'
    BY <1>6, <1>a DEF RemoveHome, CleansCase, NextCleaned, BootInv,
       CoordinatorInv, WorkerIdle
  <2>7. TeardownInv'
    BY <1>6, <1>a DEF RemoveHome, CleansCase, NextCleaned, TeardownInv,
       CoordinatorInv, CleaningInv, BootInv, Quiet, CleanupStages, WorkerIdle
  <2>8. LaneInv'
    BY <1>6, <1>a DEF RemoveHome, CleansCase, NextCleaned, LaneInv, Reusable,
       CleanupProved
  <2>9. OwnedCasesAreCleaned'
    BY <1>6, <1>a DEF RemoveHome, CleansCase, NextCleaned,
       OwnedCasesAreCleaned, CoordinatorInv, HomeInv, ProcessType
  <2>10. EpochsAreJudgedRightly'
    BY <1>6, <1>a DEF RemoveHome, CleansCase, NextCleaned,
       EpochsAreJudgedRightly, CoordinatorInv
  <2> QED
    BY <2>1, <2>2, <2>3, <2>4, <2>5, <2>6, <2>7, <2>8, <2>9, <2>10 DEF
       AttemptsInv
<1>7. CASE RemoveBootstrap
  <2>1. RecordType' /\ HomeInv' /\ HistoryInv'
    BY <1>7, RecordsKept, <1>a DEF RemoveBootstrap
  <2>2. SharedType' /\ ProcessType'
    BY <1>7, <1>a, <1>b DEF RemoveBootstrap, SharedType, ProcessType,
       CoordinatorStages, CleanupStages, WorkerStages, WorkerIdle
  <2>3. WorkerInv' /\ EndedInv'
    BY <1>7, WorkerKept, <1>a DEF RemoveBootstrap
  <2>4. CoordinatorInv'
    BY <1>7, <1>a DEF RemoveBootstrap, CoordinatorInv, BootInv, TeardownInv,
       Quiet, CleanupStages, WorkerIdle
  <2>5. CleaningInv'
    BY <1>7, <1>a, <1>b DEF RemoveBootstrap, CleaningInv, HomeInv,
       ProcessType, RecordType
  <2>6. BootInv'
    BY <1>7, <1>a DEF RemoveBootstrap, BootInv, CoordinatorInv, WorkerIdle
  <2>7. TeardownInv'
    BY <1>7, <1>a DEF RemoveBootstrap, TeardownInv, CoordinatorInv,
       CleaningInv, BootInv, Quiet, CleanupStages, WorkerIdle
  <2>8. LaneInv'
    BY <1>7, <1>a DEF RemoveBootstrap, LaneInv, Reusable, CleanupProved
  <2>9. OwnedCasesAreCleaned'
    BY <1>7, <1>a DEF RemoveBootstrap, OwnedCasesAreCleaned, CoordinatorInv,
       HomeInv, ProcessType
  <2>10. EpochsAreJudgedRightly'
    BY <1>7, <1>a DEF RemoveBootstrap, EpochsAreJudgedRightly, CoordinatorInv
  <2> QED
    BY <2>1, <2>2, <2>3, <2>4, <2>5, <2>6, <2>7, <2>8, <2>9, <2>10 DEF
       AttemptsInv
<1>8. CASE WriteReceipt
  <2>1. RecordType' /\ HomeInv' /\ HistoryInv'
    BY <1>8, RecordsKept, <1>a DEF WriteReceipt
  <2>2. SharedType' /\ ProcessType'
    BY <1>8, <1>a, <1>b DEF WriteReceipt, SharedType, ProcessType,
       CoordinatorStages, CleanupStages, WorkerStages, WorkerIdle
  <2>3. WorkerInv' /\ EndedInv'
    BY <1>8, WorkerKept, <1>a DEF WriteReceipt
  <2>4. CoordinatorInv'
    BY <1>8, <1>a DEF WriteReceipt, CoordinatorInv, BootInv, TeardownInv,
       Quiet, CleanupStages, WorkerIdle
  <2>5. CleaningInv'
    BY <1>8, <1>a, <1>b DEF WriteReceipt, CleaningInv, HomeInv, ProcessType,
       RecordType
  <2>6. BootInv'
    BY <1>8, <1>a DEF WriteReceipt, BootInv, CoordinatorInv, WorkerIdle
  <2>7. TeardownInv'
    BY <1>8, <1>a DEF WriteReceipt, TeardownInv, CoordinatorInv, CleaningInv,
       BootInv, Quiet, CleanupStages, WorkerIdle
  <2>8. LaneInv'
    BY <1>8, <1>a DEF WriteReceipt, LaneInv, Reusable, CleanupProved
  <2>9. OwnedCasesAreCleaned'
    BY <1>8, <1>a DEF WriteReceipt, OwnedCasesAreCleaned, CoordinatorInv,
       HomeInv, ProcessType
  <2>10. EpochsAreJudgedRightly'
    BY <1>8, <1>a DEF WriteReceipt, EpochsAreJudgedRightly, CoordinatorInv
  <2> QED
    BY <2>1, <2>2, <2>3, <2>4, <2>5, <2>6, <2>7, <2>8, <2>9, <2>10 DEF
       AttemptsInv
<1>9. CASE Validate
  <2>1. RecordType' /\ HomeInv' /\ HistoryInv'
    BY <1>9, RecordsKept, <1>a DEF Validate
  <2>2. SharedType' /\ ProcessType'
    BY <1>9, <1>a, <1>b DEF Validate, SharedType, ProcessType,
       CoordinatorStages, CleanupStages, WorkerStages, WorkerIdle
  <2>3. WorkerInv' /\ EndedInv'
    BY <1>9, WorkerKept, <1>a DEF Validate
  <2>4. CoordinatorInv'
    BY <1>9, <1>a DEF Validate, CoordinatorInv, BootInv, TeardownInv, Quiet,
       CleanupStages, WorkerIdle
  <2>5. CleaningInv'
    BY <1>9, <1>a, <1>b DEF Validate, CleaningInv, HomeInv, ProcessType,
       RecordType
  <2>6. BootInv'
    BY <1>9, <1>a DEF Validate, BootInv, CoordinatorInv, WorkerIdle
  <2>7. TeardownInv'
    BY <1>9, <1>a DEF Validate, TeardownInv, CoordinatorInv, CleaningInv,
       BootInv, Quiet, CleanupStages, WorkerIdle
  <2>8. LaneInv'
    BY <1>9, <1>a DEF Validate, LaneInv, Reusable, CleanupProved
  <2>9. OwnedCasesAreCleaned'
    BY <1>9, <1>a DEF Validate, OwnedCasesAreCleaned, CoordinatorInv,
       HomeInv, ProcessType
  <2>10. EpochsAreJudgedRightly'
    <3>1. /\ teardown /\ boot = "gone"
          /\ wpc = "stopped" \/ (resumes /\ archive)
          /\ \A c \in Cases : home[c] = "none"
      BY <1>9, <1>a DEF Validate, CoordinatorInv, TeardownInv
    <3>2. /\ UNCHANGED <<att, own, tomb, seal, home, starts, boot, shard, wpc,
                         resumes, archive>>
          /\ result' = IF EpochStands THEN "validated" ELSE "rejected"
      BY <1>9 DEF Validate
    <3>3. ASSUME EpochStands, NEW c \in Cases
          PROVE  starts[c] = 1 /\ Reusable(c)
      <4>1. /\ seal[c] = 3 /\ Len(att[c]) \in {1, 2}
            /\ att[c][Len(att[c])] = "success" /\ att[c] \in Histories
        BY <1>a, <3>3 DEF EpochStands, CommitStands, AttemptTruth, RecordType
      <4>2. att[c] # << >>
        <5>1. Len(<< >>) \notin {1, 2}
          OBVIOUS
        <5> QED
          BY <4>1, <5>1
      <4>3. att[c] = <<"success">>
        BY <4>1, <4>2, HistoryShape
      <4> QED
        BY <1>a, <4>1, <4>3, ReusableShape DEF HistoryInv
    <3>4. ASSUME \A c \in Cases : Reusable(c),
                 wpc = "stopped" \/ shard # "none"
          PROVE  EpochStands
      <4>1. LaneStands
        <5>1. \A c \in Cases : att[c] \notin Spoiled
          BY <1>a, <3>4, ReusableShape, HistoryShape DEF Spoiled, Attempts
        <5>2. shard # "failed"
          BY <5>1 DEF ShardInv
        <5> QED
          BY <1>a, <3>4, <5>2 DEF LaneInv, LaneStands, SharedType
      <4>2. ASSUME NEW c \in Cases
            PROVE  CommitStands(c) /\ AttemptTruth(c) /\ CleanupProved(c)
        <5>1. att[c] = <<"success">> /\ seal[c] = 3
          BY <1>a, <3>4, ReusableShape
        <5>2. Len(att[c]) = 1 /\ att[c][1] = "success"
          BY <5>1
        <5> QED
          BY <1>a, <5>1, <5>2 DEF CommitStands, AttemptTruth, CleanupProved,
             HistoryInv
      <4> QED
        BY <3>1, <4>1, <4>2 DEF EpochStands, ReceiptStands
    <3>5. \A c \in Cases : Reusable(c)' <=> Reusable(c)
      BY <3>2 DEF Reusable, CleanupProved
    <3>6. CASE EpochStands
      BY <3>1, <3>2, <3>3, <3>5, <3>6 DEF EpochsAreJudgedRightly
    <3>7. CASE ~EpochStands
      BY <3>1, <3>2, <3>4, <3>5, <3>7 DEF EpochsAreJudgedRightly
    <3> QED
      BY <3>6, <3>7
  <2> QED
    BY <2>1, <2>2, <2>3, <2>4, <2>5, <2>6, <2>7, <2>8, <2>9, <2>10 DEF
       AttemptsInv
<1> QED
  BY <1>1, <1>2, <1>3, <1>4, <1>5, <1>6, <1>7, <1>8, <1>9

-----------------------------------------------------------------------------
(* Nothing was begun: no record is there.                                  *)
LEMMA InitAttemptsInv == Init => AttemptsInv
<1> SUFFICES ASSUME Init PROVE AttemptsInv
  OBVIOUS
<1>b. 0 \notin Cases /\ Cases # {}
  <2>1. 1 \in Cases /\ 0 \notin Cases
    BY ConstantsAreNaturals DEF Cases
  <2> QED
    BY <2>1
<1> USE DEF Init
<1>a. << >> \in Histories /\ << >> # <<"success">>
      /\ << >> \notin {<<"retryable">>, <<"retryable", "open">>}
  BY HistoryShape DEF Histories, Attempts
<1>1. RecordType /\ SharedType /\ ProcessType
  <2>1. RecordType
    BY <1>a DEF RecordType, SealedDir
  <2>2. SharedType
    BY DEF SharedType
  <2>3. wpc \in WorkerStages /\ cpc \in CoordinatorStages
    BY DEF WorkerStages, WorkerIdle, CoordinatorStages
  <2>4. used \in [{"runs", "kills", "failures"} -> Nat] /\ todo \subseteq Cases
    OBVIOUS
  <2> QED
    BY <2>1, <2>2, <2>3, <2>4 DEF ProcessType
<1>2. HomeInv /\ HistoryInv /\ WorkerInv /\ EndedInv
  BY <1>a, <1>b DEF HomeInv, HistoryInv, WorkerInv, EndedInv, Installing,
     Attempting, SealedDir
<1>3. CoordinatorInv /\ CleaningInv /\ BootInv /\ TeardownInv /\ LaneInv
  BY DEF CoordinatorInv, CleaningInv, BootInv, TeardownInv, LaneInv, Quiet,
     CleanupStages
<1>4. OwnedCasesAreCleaned /\ EpochsAreJudgedRightly
  BY DEF OwnedCasesAreCleaned, EpochsAreJudgedRightly
<1> QED
  BY <1>1, <1>2, <1>3, <1>4 DEF AttemptsInv

(* What a failed seal of a lane stands for stays so: nobody writes the     *)
(* attempts of the case again but to retry it.                             *)
LEMMA StepShardInv ==
  ASSUME AttemptsInv, ShardInv, [Next]_vars
  PROVE  ShardInv'
<1> USE DEF Go, Enter, WorkerKeeps, CoordinatorKeeps, records, shared, worker,
            coordinator
<1>a. /\ RecordType /\ ProcessType /\ WorkerInv /\ EndedInv
      /\ 0 \notin Cases
  BY DEF AttemptsInv, Cases
<1>1. CASE UNCHANGED <<att, shard>>
  BY <1>1 DEF ShardInv
<1>2. CASE StartAttempt
  <2>1. /\ at \in Cases /\ att[at] \in {<< >>, <<"retryable">>}
        /\ att \in [Cases -> Histories] /\ shard' = shard
        /\ att' = [att EXCEPT ![at] = Append(@, "open")]
    BY <1>2, <1>a DEF StartAttempt, WorkerInv, ProcessType, RecordType
  <2>2. /\ Append(<<"retryable">>, "open") = <<"retryable", "open">>
        /\ << >> \notin Spoiled
    BY HistoryShape DEF Spoiled, Attempts
  <2> SUFFICES ASSUME shard = "failed" PROVE ShardInv'
    BY <2>1 DEF ShardInv
  <2>3. PICK c \in Cases : att[c] \in Spoiled
    BY DEF ShardInv
  <2>4. att'[c] \in Spoiled
    <3>1. CASE c # at
      BY <2>1, <2>3, <3>1
    <3>2. CASE c = at
      <4>1. att[at] = <<"retryable">>
        BY <2>1, <2>2, <2>3, <3>2
      <4>2. att'[c] = <<"retryable", "open">>
        BY <2>1, <2>2, <4>1, <3>2
      <4> QED
        BY <4>2 DEF Spoiled
    <3> QED
      BY <3>1, <3>2
  <2> QED
    BY <2>4 DEF ShardInv
<1>3. CASE WriteTerminal
  <2>1. /\ at \in Cases /\ att[at] = <<"open">>
        /\ att \in [Cases -> Histories] /\ shard' = shard
        /\ att' = [att EXCEPT ![at][Len(att[at])] = ended]
    BY <1>3, <1>a DEF WriteTerminal, EndedInv, ProcessType, RecordType
  <2>2. <<"open">> \notin Spoiled
    BY HistoryShape DEF Spoiled, Attempts
  <2>3. \A c \in Cases : att[c] \in Spoiled => att'[c] = att[c]
    BY <2>1, <2>2
  <2> QED
    BY <2>1, <2>3 DEF ShardInv
<1>4. CASE SealShard
  <2> SUFFICES ASSUME shard' = "failed", shard # "failed" PROVE ShardInv'
    BY <1>4 DEF SealShard, ShardInv
  <2>1. LaneOutcome = "failed" /\ att' = att
    BY <1>4 DEF SealShard
  <2>2. LaneFailed
    BY <2>1 DEF LaneOutcome
  <2>3. /\ at \in Cases /\ att[at] \in Histories /\ att[at] # << >>
        /\ att[at][Len(att[at])] \in {"failed", "retryable"}
    BY <2>2, <1>a DEF LaneFailed, ProcessType, RecordType
  <2>4. att[at] \in Spoiled
    BY <2>3 DEF Histories, Spoiled
  <2> QED
    BY <2>1, <2>3, <2>4 DEF ShardInv
<1>5. CASE WorkerSteps
  <2>1. CASE \/ LaneAcknowledged \/ NextCase \/ SecureDirectory \/ Scan
             \/ StartAcknowledged \/ ResetRefuses \/ Prepare \/ MakeHome
             \/ RecordOwnership \/ CopyAuth \/ StartModel
    BY <1>1, <2>1 DEF LaneAcknowledged, NextCase, SecureDirectory, Scan,
       StartAcknowledged, ResetRefuses, Prepare, MakeHome, RecordOwnership,
       CopyAuth, StartModel
  <2>2. CASE \/ ModelEnds \/ Scrub \/ Entomb \/ SealCase \/ CommitCase
             \/ SuccessAcknowledged \/ RetryAcknowledged \/ FailureAborts
             \/ AckTimesOut
    BY <1>1, <2>2 DEF ModelEnds, Scrub, Entomb, SealCase, CommitCase,
       Publishes, SuccessAcknowledged, RetryAcknowledged, FailureAborts,
       AckTimesOut
  <2> QED
    BY <1>2, <1>3, <1>4, <1>5, <2>1, <2>2 DEF WorkerSteps
<1>6. CASE CoordinatorSteps
  <2>1. CASE \/ OpenForCleanup \/ OpenArchivedForCleanup \/ OpenFresh
             \/ OpenResume \/ Rearm \/ ResumeCleansUp \/ ResumeLaunches
             \/ LaneStopped \/ StopWorker
    BY <1>1, <2>1 DEF OpenForCleanup, OpenArchivedForCleanup, OpenFresh,
       OpenResume, Rearm, ResumeCleansUp, ResumeLaunches, LaneStopped,
       StopWorker
  <2>2. CASE CleanupSteps
    BY <1>1, <2>2 DEF CleanupSteps, SkipCase, RecoverCase, CleanupRefuses,
       RecoveryScrubs, RecoveryEntombs, RemoveHome, RemoveBootstrap,
       WriteReceipt, Validate
  <2> QED
    BY <1>6, <2>1, <2>2 DEF CoordinatorSteps
<1>7. CASE CoordinatorStarts \/ Cancel \/ Faults
  BY <1>1, <1>7 DEF CoordinatorStarts, Cancel, Faults, SetupFails, RunFails,
     ScrubFails, WorkerDies, CoordinatorDies, MayLitter
<1>8. CASE UNCHANGED vars
  BY <1>1, <1>8 DEF vars
<1> QED
  BY <1>5, <1>6, <1>7, <1>8 DEF Next

(* Every step keeps the invariant.                                         *)
LEMMA StepAttemptsInv == AttemptsInv /\ ShardInv /\ [Next]_vars => AttemptsInv'
<1> SUFFICES ASSUME AttemptsInv, ShardInv, [Next]_vars PROVE AttemptsInv'
  OBVIOUS
<1>1. CASE WorkerSteps
  BY <1>1, StepOfWorker, StepOfLane DEF WorkerSteps
<1>2. CASE CoordinatorSteps
  BY <1>2, StepOfLaunch, StepOfCleanup DEF CoordinatorSteps, CleanupSteps
<1>3. CASE CoordinatorStarts \/ Cancel
  BY <1>3, StepOfLaunch
<1>4. CASE Faults
  BY <1>4, StepOfWorker, StepOfLaunch DEF Faults
<1>5. CASE UNCHANGED vars
  <2> USE <1>5 DEF vars, records, shared, worker, coordinator
  <2>1. RecordType' /\ SharedType' /\ ProcessType'
    BY DEF AttemptsInv, RecordType, SharedType, ProcessType
  <2>2. HomeInv' /\ HistoryInv'
    BY DEF AttemptsInv, HomeInv, HistoryInv
  <2>3. WorkerInv' /\ EndedInv'
    BY WorkerKept DEF AttemptsInv
  <2>4. CoordinatorInv' /\ CleaningInv'
    BY DEF AttemptsInv, CoordinatorInv, CleaningInv
  <2>5. BootInv' /\ TeardownInv' /\ LaneInv'
    BY DEF AttemptsInv, BootInv, TeardownInv, LaneInv, Reusable,
       CleanupProved
  <2>6. OwnedCasesAreCleaned' /\ EpochsAreJudgedRightly'
    BY DEF AttemptsInv, OwnedCasesAreCleaned, EpochsAreJudgedRightly,
       Reusable, CleanupProved
  <2> QED
    BY <2>1, <2>2, <2>3, <2>4, <2>5, <2>6 DEF AttemptsInv
<1> QED
  BY <1>1, <1>2, <1>3, <1>4, <1>5 DEF Next

(* What holds of the records, the worker and the coordinator in every      *)
(* reachable state: the invariant the theorems below rest on.              *)
THEOREM AttemptsInvariant == Spec => []AttemptsInv
<1>1. Init => AttemptsInv /\ ShardInv
  BY InitAttemptsInv DEF Init, ShardInv
<1>2. AttemptsInv /\ ShardInv /\ [Next]_vars => (AttemptsInv /\ ShardInv)'
  BY StepAttemptsInv, StepShardInv
<1> QED
  BY <1>1, <1>2, PTL DEF Spec

(* Type correctness; a case never has more than two attempts.              *)
THEOREM AttemptsTypeCorrect == Spec => []TypeOK
<1>1. AttemptsInv => TypeOK
  <2> SUFFICES ASSUME AttemptsInv PROVE TypeOK
    OBVIOUS
  <2>1. RecordType /\ SharedType /\ ProcessType
    BY DEF AttemptsInv
  <2>2. ASSUME NEW c \in Cases
        PROVE  /\ Len(att[c]) <= 2
               /\ \A i \in 1 .. Len(att[c]) : att[c][i] \in Attempts
    <3>1. att[c] \in Histories
      BY <2>1 DEF RecordType
    <3>2. \/ att[c] = << >> \/ \E e \in Attempts : att[c] = <<e>>
          \/ att[c] = <<"retryable", "open">>
      BY <3>1 DEF Histories, Attempts
    <3>3. CASE att[c] = << >>
      BY <3>3
    <3>4. ASSUME NEW e \in Attempts, att[c] = <<e>>
          PROVE  /\ Len(att[c]) <= 2
                 /\ \A i \in 1 .. Len(att[c]) : att[c][i] \in Attempts
      BY <3>4
    <3>5. CASE att[c] = <<"retryable", "open">>
      BY <3>5 DEF Attempts
    <3> QED
      BY <3>2, <3>3, <3>4, <3>5
  <2> QED
    BY <2>1, <2>2 DEF TypeOK, RecordType, SharedType, ProcessType
<1> QED
  BY <1>1, AttemptsInvariant, PTL

(* The records of the cases are true: no tombstone beside credentials, one *)
(* start of the model, no commit without it and without the cleanup.       *)
THEOREM RecordsTrue == Spec => []RecordsAreTrue
<1>1. AttemptsInv => RecordsAreTrue
  <2> SUFFICES ASSUME AttemptsInv, NEW c \in Cases
               PROVE  /\ tomb[c] => home[c] # "filled"
                      /\ starts[c] <= 1
                      /\ seal[c] = 3 => starts[c] = 1 /\ Reusable(c)
    BY DEF RecordsAreTrue
  <2>1. RecordType /\ HomeInv /\ HistoryInv
    BY DEF AttemptsInv
  <2>2. tomb[c] => home[c] # "filled"
    BY <2>1 DEF HomeInv
  <2>3. starts[c] <= 1
    BY <2>1 DEF HistoryInv
  <2>4. ASSUME seal[c] = 3 PROVE starts[c] = 1 /\ Reusable(c)
    <3>1. att[c] = <<"success">>
      BY <2>1, <2>4 DEF HistoryInv
    <3> QED
      BY <2>1, <2>4, <3>1, ReusableShape DEF HistoryInv
  <2> QED
    BY <2>2, <2>3, <2>4
<1> QED
  BY <1>1, AttemptsInvariant, PTL

(* While the receipt of the teardown stands no credentials are left, and   *)
(* nobody is at work who could bring them back.                            *)
THEOREM TornDownIsGone == Spec => []TornDownMeansGone
<1>1. AttemptsInv => TornDownMeansGone
  BY DEF AttemptsInv, TeardownInv, TornDownMeansGone
<1> QED
  BY <1>1, AttemptsInvariant, PTL

(* Only a case without a record of its home's owner, or one whose record   *)
(* or tombstone was cut by a kill, makes a cleanup refuse.                 *)
THEOREM OwnedCasesCleaned == Spec => []OwnedCasesAreCleaned
<1>1. AttemptsInv => OwnedCasesAreCleaned
  BY DEF AttemptsInv
<1> QED
  BY <1>1, AttemptsInvariant, PTL

(* A validated epoch has all its cases committed, each after one start of  *)
(* its model, and nothing of the credentials is left; and an epoch whose   *)
(* cases are all committed is rejected only by a resume that cleans up     *)
(* after an earlier rearm, when no worker has sealed the lane.             *)
THEOREM EpochsJudgedRightly == Spec => []EpochsAreJudgedRightly
<1>1. AttemptsInv => EpochsAreJudgedRightly
  BY DEF AttemptsInv
<1> QED
  BY <1>1, AttemptsInvariant, PTL

(* No worker is at work on the homes that are being cleaned up.            *)
THEOREM CleanupFindsNobody == Spec => []CleanupIsQuiet
<1>1. AttemptsInv => CleanupIsQuiet
  BY DEF AttemptsInv, CoordinatorInv, Quiet, CleanupIsQuiet
<1> QED
  BY <1>1, AttemptsInvariant, PTL
=============================================================================
