# Workflow Observatory: TLA+ models, checks and proofs

This directory models the concurrent and failure-prone parts of Workflow
Observatory in TLA+, checks them with TLC on small instances and proves
their safety properties and two refinements, for every instance, with TLAPS.
Paths below are relative to `src/`; `OBS` is `plugins/workflow-observer/scripts`, and
`EVAL` is `evidence/scripts`.

## 1. The system

Workflow Observatory keeps *observation records* of agent sessions as
Markdown files, lets a user finish and invalidate them, and derives learning
snapshots from them. There is no daemon: every command is a process of its
own, and what keeps concurrent processes apart is the file system (exclusive
links, renames, `flock`, `fsync`). Beside the plugin, `evidence/scripts` holds
the harness that evaluates it: a coordinator runs cases on four worker
processes, one per lane, and can be resumed after a crash.

| Component | State | Operations | Interacts with | What makes it correct |
|---|---|---|---|---|
| Record lifecycle (`OBS/wiki_observations.py` 1360-2402) | `<run>.md`, `invalidations/<run>.md`, `.locks/<run>.lock`, temporaries and backups | `start_observation`, `finish_observation`, `invalidate_observation` | concurrent calls; readers | one final status per run, for good; one tombstone, on a final record only; rejected calls leave nothing; acknowledged ones survive a power loss |
| Reference validation (same file, 250-380 and 1116-1335) | the chain of `superseded_by` | `validate_record`, `ReferenceResolver` | reads records other calls change | the successors stay acyclic; verdicts are right; walks end |
| Collector and reports (same file, 2405-3203) | none of its own | `collect_record_documents`, `render_observation_report` | reads while calls write | refuses only unsound stores |
| Snapshot input (`OBS/snapshot_input.py`) | none | `acquire_snapshot_input`, the constructor of `SnapshotInput` | the collector, in strict mode | two equal readings show one store; what is projected is what was recorded |
| Snapshot analysis (`OBS/learning_snapshot.py`, and the older validator in `OBS/snapshot_store.py`) | none | `build_snapshot_core`, five layers of validation, migration of version 1 | snapshot input, publication | every accepted store can have a snapshot; every run is counted once or excluded with a reason |
| Snapshot publication (`OBS/snapshot_store.py`) | `learning/snapshots/<id>.json`, temporaries | `create_learning_snapshot`, `read_learning_artifact` | concurrent publishers of one id | never overwritten; reused when equal; durable once reported |
| Schemas, policies, encoding (`artifact_schema.py`, `artifact_migration.py`, `episode_schema.py`, `canonical_json.py`, `policy_artifacts.py`) | none | parse, validate, canonicalise, migrate | all of the above | functions of their input |
| Command line, configuration (`workflow_observer_cli.py`, `store_config.py`) | none | one command = one call of the above | | |
| Evaluation cases (`EVAL/workflow_eval_sharding.py`, `EVAL/run_observing_workflows_eval_worker.py`) | per case: attempts with start and terminal records, the credential home with its ownership record and tombstone, the seal; per lane: the shard seal | start, drive, clean, end, seal; classify for a resume; judge the epoch | worker, coordinator, whoever was there before a crash | the model runs once for a case; records are true; no credential is left; an epoch is validated exactly when it is whole |
| Progress protocol (same files) | `progress/NNNNNN.json` and `acks/NNNNNN.json` per lane, pending markers; the ledger, in memory | write, wait, accept, decide, replay | workers, coordinator | the ceiling holds over all lanes; a resume rebuilds the ledger that decided; nobody waits for ever |
| Credentials of a run (same file) | `auth-bootstrap`, its ownership, tombstone, `teardown.json`, `stop-launches.json`, the archive of retired proofs | prepare, scrub, entomb, remove, retire in a transaction | coordinators, fresh and resuming | credentials are always claimed by a record; a receipt is true |
| Leases and results (same file, `EVAL/run_observing_workflows_task9_eval.py`) | lock files; generation files and the commit pointer | acquire, guard, stage, commit, read back | coordinators of several runs, people who edit the repository | the pointer names a whole pair; nothing unseen is replaced |
| Task 9 runner, packaging, wiki CLI, earlier copies (`evidence/...`) | files written once | sequential scripts | | |

The behaviours that are hard here: processes interleave between any two system
calls; each of these may fail, and the roll-back of a change may fail too; a
process may be killed holding locks, with temporaries on disk; a power loss may
bring back an older directory; a lock file is a file that anybody may replace;
readers take no lock; and whoever resumes an evaluation knows only what the
dead left on disk. `PROJECT.json` lists each hazard at its line.

## 2. The modules

| Module | Models |
|---|---|
| `ObservationStore` | start, finish and invalidate, one action per system call that others can come between |
| `RunLedger` | the abstract promise: a run is started, finished and invalidated once each, in this order, and calls report the truth |
| `ObservationStoreProofs` | TLAPS theorems about `ObservationStore`: types, what acknowledged calls did stands, rejected calls leave nothing, tombstones are on final records, the store implements `RunLedger`; in its last part, theorems about `StoreReaders` |
| `Supersession` | the walk along `superseded_by` beside finishes that change it |
| `SupersessionProofs` | TLAPS theorems about it |
| `StoreReaders` | learning snapshots that read the whole store beside the calls of `ObservationStore` (it EXTENDS that module) |
| `SnapshotAnalysis` | one snapshot from the records to the published document, with all its validators, and its migration |
| `SnapshotAnalysisProofs` | TLAPS theorems about it |
| `SnapshotPublication` | several processes that publish the same snapshot |
| `SnapshotPublicationProofs` | TLAPS theorems about it |
| `CaseAttempts` | the cases of one lane on disk, under worker and coordinator, through crashes and resumes |
| `CaseAttemptsProofs` | TLAPS theorems about it |
| `EvaluationProtocol` | messages, acknowledgements and the ledger of several lanes, through crashes and resumes |
| `DecisionLog` | the abstract promise of the protocol: the decisions of all lanes under one token ceiling |
| `EvaluationProtocolProofs` | TLAPS theorems about it, and that it implements `DecisionLog` |
| `BootstrapRetirement` | the credentials of a run and the proofs about them, through cuts at any durable change |
| `BootstrapRetirementProofs` | TLAPS theorems about it |
| `ResultPersistence` | the commit of the formal results by coordinators of several runs |
| `ResultPersistenceProofs` | TLAPS theorems about it |
| `MC...` | the TLC instances of each of these |

A step of an evaluation module is one durable change of one process; the three
views of a run fit together at these seams. `EvaluationProtocol` takes a case
as one step that ends in success or failure, which is what `CaseAttempts`
takes apart. `CaseAttempts` lets the worker be answered in any way the ledger
may decide, which is what `EvaluationProtocol` restricts, and takes the
retirement of old credentials as one step (`Rearm`), which is what
`BootstrapRetirement` takes apart. `ResultPersistence` takes a whole
evaluation as one step (`Work`).

### ObservationStore

A directory entry is modelled by the inode it names, and an inode by the
version of the record it holds, `[origin, finish]`: which start wrote the
draft, which finish completed it. Wording, metrics and timestamps are
abstracted; a payload is accepted or refused.

| Variable | In the code |
|---|---|
| `rec`, `disk` | what `<run>.md` names now; what it may name after a power loss. A link, rename or unlink adds to `disk`; an `fsync` of the directory makes it a singleton |
| `tomb`, `tombDisk`, `invDir` | the same for `invalidations/<run>.md`, and whether the directory exists and its own entry is durable |
| `lockFile`, `lockFd` | generation of `.locks/<run>.lock` and the one a call has open; equal is what `_HeldRunLock.verify` tests |
| `recFd` | the record inode a call opened and locks with `flock` |
| `temps`, `backup` | `.observation-*.tmp` and `.observation-backup-*.tmp` |
| `tempDisk`, `backupDisk` | what these may be after a power loss: a creation or an unlink that no `fsync` of the directory has followed may come back or be lost |
| `pc`, `run`, `tries`, `out` | where a call is, its run, its attempts, its report: `ok`, `rejected` (nothing changed), `uncertain` (a roll-back failed), `killed` |
| `budget` | counts the bounded events of the environment |

Locks are not variables: `HoldsRunLock` and `HoldsRecord` are the stages at
which a call has the descriptor locked, and `Return` and `Kill` drop both, as
the kernel does. The actions follow the code in order: `Start*`
(`start_observation`), the common head `BeginTransition` ... `HeadFails`
(`_open_run_lock`, `_read_record_from_directory`), `Finish*`
(`_replace_completed_record`) and `Invalidate*`. Every system call that can
fail has a failing branch that costs one of `MaxFaults`, with the clean-up the
code does on that path; the environment may replace a lock file (`SwapLock`),
kill a process (`Kill`) and cut the power (`Outage`). A start removes its
temporary, and a finish its backup, after the `fsync` that commits it, and nothing
makes the removal durable: after a power loss they may be back. So what
`NothingIsLeftBehind` says of temporaries holds until a power loss, and what it
says of records and tombstones holds beyond.

`EarlyCallers` says whether a run may be named while its start can still roll
back. A caller learns a run id from the start that returned it, so it is FALSE
in the runs; a report can show an id earlier, see "Known behaviour".

### RunLedger

`ObservationStore` implements it under the mapping at its end: a change counts
once the call that made it is past the `fsync` that commits it (`Settled`), or
dead in the middle. What `RunLedger` forbids, and hence the code must not do: a
second finish or tombstone, a tombstone before a final status, anything taken
back, `ok` without an effect, `rejected` with one.

### Supersession

Here a finish commits in one step (that is what `ObservationStore` is about)
and the walk is fine-grained: each successor is looked up in the chain, its
entry is read, and the read counts only when the entry did not change in the
meantime. A finish holds the lock of its own run only. `overlap` is a history
variable: a finish began while another was running. Callers that finish one run
at a time keep it FALSE, and for them there are no cycles.

### StoreReaders

Readers take no lock. A reading (`collect_record_documents`) lists the
observations directory, then stats and reads name after name
(`StatRecord`, `ReadDocument`), then does the same with the invalidations, if
the first listing showed that directory, and looks the target of each tombstone
up among the records it has *read* (`ReadTomb`). A listing is one step; between
any two others the store may change. A read counts when the name still leads to
the inode that was found first; the ctime comparison may also refuse it while a
call is adding or removing other names of that inode (`Touched`). A listing
that shows a temporary or a backup is refused (`RecordLitter`, `TombLitter`:
the strict mode, which snapshots read in; reports do not, and read once). A
snapshot is published when the manifests of two readings, that is the images of
the `Selected` runs, are equal (`EndReading`). `mid` is a history variable: the
settled store at the second listing, with which the published manifest is
compared.

Why the properties hold is worth saying: a change that may still be rolled back
has its temporary in the directory, so a strict listing that finds none shows
no tentative change, and one that becomes visible between the two listings
makes the readings differ. Without the strict mode (a mutant) a snapshot
publishes what a power loss or a roll-back then takes away.

### SnapshotPublication

All publishers want the same name, a hash of the content. `dir` says for
`learning` and `learning/snapshots` whether the directory exists and its entry
is durable; `file`, `fileDisk` are what the name leads to now and what it may
lead to after a power loss; an artifact is named by the publisher that wrote
its inode, and `temps` are the second links of those inodes, which a reader
notices by the ctime (`Identity`); `tempDisk` are those that a power loss may
bring back. The actions are the system calls of
`create_learning_snapshot`: look for, make and synchronise each directory,
write the temporary, link, synchronise, remove the temporary, read the artifact
back (creator) or read it until it stays the same (reuser).
`ReportedArtifactStands` is about a home whose directories are durable; without
that condition it is `ReportedArtifactIsDurable`, see "Known behaviour".

### SnapshotAnalysis

`Init` takes any store over the given records, any invalidations, a reviewed
mapping of generations, a query, and the version of the document: 1 is one
that an earlier release wrote. Each action is one function of the pipeline:
`Acquire`, `Construct` (the constructor of `SnapshotInput`, which checks
everything again), `Build`, `Check` and `Establish` (the two validators),
`Publish`, which validates the written bytes, and `Migrate`. A function that
raises sets `refused`.

The two validators compute support and strength of a decision pattern, and know
the table of candidates, independently of the builder; they are modelled
separately (`Recurring` and `PatternStrength`, `EmissionRules` and
`CandidateRules`). Whether these agree is what the runs check on every store of
the instance, and the proofs for any store. Eleven metrics stand as five, one of each class that the code tells
apart (`Metrics`); the project stands for the five dimensions of a cohort; what
the code sorts by a unique key is a set; the hash of a candidate is the
candidate. The text rules of the older validator are two sets of values that
they refuse, of generations (`Unscalar`) and of projects (`Rooted`: a leading
`/` or `~/` or a drive prefix, which a record may hold when nothing follows it),
and the limit of 16 MiB on a document is a predicate of its core
(`WithinLimit`). Identities of policies and queries, references of records and the
difference of two timestamps are abstracted. A mapping that is not empty comes
only from the API: the command line's `load_policy_set` refuses one.

### CaseAttempts

| Variable | In the code |
|---|---|
| `made` | which of a case's directories exist: root, `cleanup`, `attempts`, `sealed`, made in this order |
| `att` | `attempts/01`, `02`: open (start record only), success, retryable, failed |
| `home`, `own`, `tomb`, `litter` | `codex-home` and, in `cleanup`, `ownership.json`, `tombstone.json` and a temporary that a killed writer left |
| `seal` | how many of result, evidence and commit are in `sealed` |
| `boot`, `stopMark`, `teardown`, `shard`, `archive` | `auth-bootstrap`, `stop-launches.json`, `teardown.json`, the lane's seal, whether `coordinator/retired-proofs` is there |
| `wpc`, `at`, `todo`, `ended` | the worker: its stage, its case, the cases left of its plan, how the attempt will be recorded |
| `cpc`, `resumes`, `cleaning`, `result` | the coordinator: its stage, how it was started, the case it cleans, how it ended |

The worker's actions follow `_run_worker_impl` and the driver
(`SecureDirectory`, `Scan`, `StartAttempt`, `MakeHome`, `RecordOwnership`,
`CopyAuth`, `StartModel`, `Scrub`, `Entomb`, `WriteTerminal`, `SealCase`,
`CommitCase`, `SealShard`), the coordinator's `run_parallel_evaluation`
(`OpenFresh`, `OpenResume`, `OpenForCleanup`, `OpenArchivedForCleanup`, `Rearm`, `ResumeLaunches` with the verdict of
`plan_resume`, `Cancel`, `StopWorker`, the cleanup of case after case, the
receipt, `Validate`). What is left of the validation of an epoch are the
records a run really writes; the inventories of payload, output and audit files
and the integrity runner are not modelled, and neither are diagnostic runs.

Three things that the model shows and a reader should know. A permitted retry
never runs (`attempts_retry`), so the directory `cleanup-attempt-1` and the
code that reconciles it are never reached. A worker that is killed inside the
writing of an ownership record or a tombstone leaves a temporary file that
makes every later cleanup of the case refuse. And once all lanes have reported
their end, a coordinator that dies before it has validated the epoch condemns
it: a resume replays the ends (`RequiresCleanup` in `EvaluationProtocol`) and
only cleans up, though every case is committed. There is one way out: a resume that finds `retired-proofs`, left by the rearm of an
earlier resume, declares the workers stopped before it knows that it is there
for the cleanup only. The cancel that follows is for a coordinator in its first
phase and is skipped, and so the epoch is judged after the cleanup
(`OpenArchivedForCleanup`): a whole one is validated, and one whose lane was
never sealed is turned down though its cases are all committed. That is the
second half of the exception in `EpochsAreJudgedRightly`.

### EvaluationProtocol and DecisionLog

`prog` and `acks` are the two directories of each lane, `led` is
`ProgressAckLedger`, `marker` the pending marker of a write that was cut short.
`Authorised`, `Decision` and `Accepted` are the parts of
`_accept_progress_locked`; `BorneOut` is what `_validate_progress_durable`
wants to find on disk for a message, now and whenever it is read again: the
attempts, the commits and the seal (`RecordsAgree`), and that an end names the
tombstone of its case if there is one (`ProofsStand`). `tomb` are the cases of a
lane with a tombstone, and the `proved` of an attempt says that its terminal
record names it. A worker that fails to scrub a home ends the case without one,
and a coordinator's cleanup writes it (`Entomb`): from then on every resume
finds that message contradicted (`Contradicted`) and only cleans up. The
property says that nothing else contradicts a message.
`Quiesce`, `ReplayRecord`, `ReplayLaunches`, `ReplayCleansUp` are the resume:
kill every recorded process group, refuse if a lane's lifetime lock is held by
a worker that nobody recorded, then rebuild the ledger from the messages in an
order of its own choice (`ComesFirst`), because the order of acceptance is not
recorded. The ledger also returns its earlier decision for a message it has
already accepted; messages are read in order, so that is not reached and not
modelled.

`DecisionLog` is what the logs of decisions promise, whoever wrote them: they
only grow, nobody is told to go on once the ceiling is reached or after the
first stop, nothing is decided after an abort. `ImplementsDecisionLog` maps
`acks` to the log and the tokens of all acknowledged messages to what is spent,
so that a resume with a wrong ledger would be seen in the decisions after it.

### BootstrapRetirement

An active proof names a bootstrap by its inode (`file`), and the file system
may give an inode again that it has taken back (`Inodes`), which is why a
proof of an old bootstrap could be taken for one of a new one. `txn` is the
retirement that is not complete: its record may be temporary or in place, and
its members are archived in their order. `stored` counts the files of the
archive against `MaxRecords` (128 in the code). Whoever resumes begins with the
archive (`Promote`, `MoveMember`, `Complete`, `ArchiveRefuses`); who starts
afresh does not look at it, and that is the one way to a receipt that is not
true (`crossed`, see "Known behaviour").

`RefusalsAreExplained` lists every state in which a run can no longer be
cleaned up or resumed: a kill between `mkdir` of the bootstrap and its ownership
record; a temporary left in the cleanup directory; for resumes, a torn phase
record, or an archive together with a claimed bootstrap whose credentials are
not whole (a fresh coordinator can still clean up there); and a full archive,
which five or six files per retirement reach after some twenty of them, never
in the middle of a transaction.

### ResultPersistence

`file` says for each run (its results have a name made from their contents)
and mode whether the generation file exists and whether its name is durable;
`pointer` and `saved` are what the commit pointer names now and after a power
loss. `base` is what `CoordinatorGuard.capture` saw; `Expected` the exact delta
that the commit may make. A parallel coordinator captures the guard *before* it
takes the writer lease, although
`docs/parallel-evaluation-mvp-implementation-plan.md` says that the lease is
held from the capture on; `NothingReplacedUnseen` shows that this is safe,
because the guard is compared once more before anything is written. `inherited`
is a history variable for the exception in `PointerIsWhole`: files that a
killed writer had renamed and not synchronised are taken over as they are by
the next writer of the same results. A commit whose last check fails is
reported as failed and stands nevertheless, as
`evidence/tests/test_observing_workflows_task9_eval.py` expects.

## 3. What the runs show

Bounds are in the `.cfg` files; an instance takes from seconds to two minutes.

| Run | Instance | Properties |
|---|---|---|
| `obs_faults` | 1 start, 2 finishes, 1 invalidation of one run; 2 failing calls, 1 kill; fair | `NothingIsLeftBehind`, `TombstoneOnFinal`, `EveryCallReturns`, `ImplementsRunLedger` |
| `obs_outage` | 2 starts and runs, 2 finishes; 1 failing call, 1 replaced lock file, 1 power loss | `AckedStartStands`, `AckedFinishStands` |
| `ss_walks` | 2 finishes, 1 reader, 3 runs; fair | `CycleNeedsOverlap`, `CycleVerdictsAreRight`, `NoReaderMissesASuccessor`, `EveryWalkEnds` |
| `read_stable` | 1 snapshot of 2 runs; 2 starts, 1 finish, 1 invalidation; 1 power loss | `SnapshotOfOneStore`, `SnapshotStands` |
| `snap_builds` | every store of 3 runs over 10 records, every invalidation, 4 mappings, 2 queries, both versions | `OnlyTheseAreRefused`, `EveryEpisodeIsAccounted`, `OnlyValidOutcomesSpeak`, `MigrationIsARebuild`, `RecurringIsEarned` |
| `pub_publish` | 3 publishers, home to be created or not; 1 failing call, 1 kill, 1 power loss; fair | `ReportsAreTrue`, `NeverOverwritten`, `ReportedArtifactStands`, `EveryPublisherReturns` |
| `attempts_crashes` | a lane of 2 cases, 3 coordinators, 3 kills, 2 failures; fair | `RecordsAreTrue`, `TornDownMeansGone`, `OwnedCasesAreCleaned`, `EpochsAreJudgedRightly`, `EveryCoordinatorEnds` |
| `protocol_resume` | lanes of 3 and 1 cases, ceiling 2, 2 coordinators, 1 kill, 1 failure; fair | `LedgerIsRebuilt`, `EveryMessageIsAuthorised`, `EveryMessageIsBorneOut`, `CleanupIsQuiet`, `ImplementsDecisionLog`, `EveryProcessEnds` |
| `bootstrap_cuts` | 6 coordinators, 3 kills, 2 inodes, an archive of 17 files | `CredentialsAreOwned`, `ReceiptIsTrue`, `RefusalsAreExplained`, `TornDownIsComplete` |
| `results_commits` | 2 coordinators of a parallel run and 1 of a serial one, 3 starts; 1 kill, 1 power loss, 1 edit; fair | `PointerIsWhole`, `NothingReplacedUnseen`, `ReportedPairStands`, `WriterLeaseIsReturned` |

Operators whose comment begins with "Mutant" or "A mistaken form" are
deliberately wrong variants of the definition below them (a dropped test, a
swapped order). No specification uses them: put in the place of that
definition, each makes the property fail that `PROJECT.json` pairs it with,
which shows that the property depends on what the code does.

Two runs end in a counterexample, each a disagreement between the code and what
it says of itself:

| Run | What happens |
|---|---|
| `attempts_retry` | The first attempt of a case fails before its model was started, its credentials are cleaned and the coordinator permits the retry the plan promises. The reset for it refuses a case whose `codex-home` exists, but the cleanup only empties that directory: the worker ends with an error, in every permitted retry. |
| `snap_generation` | A generation such as `gen---1` is accepted by start, by validation and by the snapshot input, as the design says. The older validator puts the generation of a cohort through the text rules of titles and reasons and refuses it: a store with that one run can never be given a snapshot. |

### Known behaviour

These instances are kept beside the runs: each ends in a counterexample that
shows a window which the code leaves open, or a property that holds only under
the condition that the runs state.

| Command | What happens |
|---|---|
| `tlc -config ObservationStore_early.cfg MCObservationStore` | A finish of a run whose start has not returned succeeds; the start's `fsync` fails and `_rollback_claim` unlinks the final record, since it unlinks a name and takes no lock. |
| `tlc -config ObservationStore_crash_tombstone.cfg MCObservationStore` | A finish is killed between rename and `fsync`; an invalidation reads the final record and makes its tombstone durable; a power loss brings back the draft. Every report and snapshot of the store then fails. |
| `tlc -config ObservationStore_lost_tombstone.cfg MCObservationStore` | The first invalidation creates `invalidations` and never synchronises its parent: after it returned, a power loss may drop the directory and its tombstone. |
| `tlc -config Supersession_race.cfg MCSupersession` | Two finishes that supersede each other's run each validate against the other's draft, under different locks; both commit. |
| `tlc -config StoreReaders_dangling.cfg MCStoreReaders` | A snapshot reads a draft; the run is finished and invalidated before it lists the tombstones; it then refuses a store in which nothing is wrong. |
| `tlc -config SnapshotPublication_fresh.cfg MCSnapshotPublication` | A publisher finds the directory another has created and not synchronised yet, publishes in it and returns; a power loss takes the directory and the reported artifact. |
| `tlc -config BootstrapRetirement_stale.cfg MCBootstrapRetirement` | A resume is killed in the middle of a retirement, with the receipt archived. A coordinator started afresh does not look into the archive; its new bootstrap has the inode of the old one. The next resume finishes the transaction and archives the new bootstrap's proofs as the old one's, or refuses; the receipt may stand beside credentials. |

### Why these bounds

*Records.* The safety properties relate at most two calls of a kind on one run,
so two finishes beside an invalidation meet every conflict; a second run
matters only for the power loss (one call's `fsync` makes another run's entry
durable), which is what `obs_outage` has it for, and for a snapshot that reads
one run after the other. One replaced lock file is enough for two finishes to
hold a run lock each. Two failing calls cover "the change fails and its
roll-back fails"; a third hits the same branches. After an outage every call
that was under way is over. `StartTries` and `ReadTries` are 2 instead of 32
and 4 (1 beside snapshots). The loop of a start reaches its end in `obs_outage`;
that of a read is entered again there, after a finish under another lock file,
and would need a third finish and a second replaced file to run out. The
theorems take any number of tries, calls and replaced files. Three runs are the
least for a cycle through a record that is not an end of the walk. A third
publisher is there for an artifact that is renamed over twice (the mutant).

*Snapshots.* The thresholds (two supporting runs, three quarters of them, two
outcomes) have both sides among three runs; the ten records have every status
and schema, every availability of a metric, repeated decisions, a generation
that is mapped, and one and a project that the older validator refuses; cores
of more than 14 candidates stand for documents that are too long. Symmetry of the runs
is sound: no record and no threshold names one.

*Evaluations.* Two cases let a lane stop between them, three coordinators let
a run be launched, resumed and cleaned up, three kills hit all of them or a
worker twice. In the protocol, a ceiling of two tokens is reached by one lane
while the other waits, in the lane of three cases before its last case; lanes
of different lengths make the order of the replay matter. A retirement needs
three coordinators and the next one four; with six and three kills every cut
of one is met by a fresh and by a resuming one, and a third retirement no
longer fits the archive of 17 (one by six and one by five files have gone
before). Results need two coordinators of one run, which take over each other's
files, and one of another, which replaces their pointer. Symmetry is used only
in instances without liveness.

### Fairness

Weak fairness of every process that was begun: the operating system schedules
it, `flock` grants a lock that is free for good, a model ends or is timed out,
and a wait for an acknowledgement is limited to 300 s. In `CaseAttempts` the
supervisor's poll is a fair step of its own (`DeathNoticed`): it loops over its
workers, and so finds a dead one. Beginning a call or a coordinator is never
forced, and neither is a failure, a kill, an edit or a replacement. No lock is
handed back and forth for ever, because each call asks for each lock a bounded
number of times: weak fairness is enough. Where a call begins once, "from some
point on no call is running" is the same as "each call that began ends", and
takes TLC a third of the time.

## 4. What is proved

Each theorem is about `Spec` with all its failures, kills and power losses, for
every value of the constants; each rests on an inductive invariant that TLC had
checked on the instances above before it was proved. The proofs are split by
action and, below that, by conjunct of the invariant.

### The record lifecycle

`ObservationStoreProofs`, for any sets of calls and runs and any bounds:

* `TypeCorrect`: `Spec => []TypeOK`. `TypeOK` is not inductive, since a step
  indexes the store by the run of its call; `TypeInv` adds which stages belong
  to which kind of call, that a call past its beginning has a run, and that a
  call that has read or backed up a record has a version.
* `AckedCallsStand`: without early callers,
  `Spec => [](AckedStartStands /\ AckedFinishStands)`. The inductive invariant
  `StandsInv` says, on top of the types: the entry a start claimed is its
  own until it is settled, and no finish or invalidation works on that run
  (`ClaimInv`); at most one call holds a record inode, a finish that holds one
  finds it in place and a draft, its backup is that draft, and after the
  rename the record is its own (`FinishInv`); what is on disk is what is in
  sight for runs past their commit (`CommitInv`). The argument is that a finish
  can only replace the inode it has locked, and a final record is never a
  draft that somebody else has locked. It uses the lock on the inode and not
  the run lock: lock files may be replaced at will.

The second part of the module adds three invariants to `StandsInv`; the lemmas
at its beginning say once what a step of one call leaves alone (`RecordsKeep`,
`TombsKeep`, `TempsKeep`, ...), and the steps of the single actions cite them:

* `NothingLeft`, without early callers: `[]NothingIsLeftBehind`, from `OwnInv`.
  Each version and each tombstone that is in sight, or may be after a power
  loss, belongs to calls on that run that are past their change and have not
  said "rejected" (`Owned`, `TombOwned`); what a call has taken out of sight it
  reports only after the `fsync` (`InSight`); and, while no system call has
  failed and the power has stayed on, temporaries and backups exist only at the
  stages that have them.
* `TombstonesOnFinal`, with lock files in place and the power on
  (`MaxSwaps = 0`, `MaxOutages = 0`): `[]TombstoneOnFinal`, from `LockInv` (one
  call at a time holds the lock of a run) and `FinalForGood` (a record that a
  tombstone, or a call about to write one, depends on is final and past the
  stages at which it could be taken back). Both conditions are needed:
  `ObservationStore_crash_tombstone.cfg` shows the power loss, and with a
  replaced lock file an invalidation reads the record of a finish that then
  rolls back.
* `StoreImplementsLedger`, under the same conditions: `Spec` implies
  `ImplementsRunLedger`. `EffectShown` is the key lemma (whoever reports "ok"
  can be found in the record or the tombstone); then the steps are sorted into
  those the ledger does not see (`QuietStep`), those that settle a change, and
  reports.

The assumptions are those declared in `ObservationStore`: the kinds of calls
are disjoint (`CallsDisjoint`), `None` is neither a version nor a call
(`NoneIsNoVersion`), bounds are naturals (`BoundsAreNat`). That no run is named
before its start is over (`~EarlyCallers`) is what the code's callers do, since
the id comes from the start; `ObservationStore_early.cfg` shows that it is
needed.

`SupersessionProofs`, for any runs, finishes and readers: `CyclesNeedOverlap`,
`VerdictsAreRight` and `NoSuccessorMissed`, from `SupInv`.

* `WalkInv`: the chain of a walk leads from record to record and on to where
  the walk is; for a finish, in the successors as it asks for them (`Asked`).
  So a walk that comes back to its chain has found a set that is closed under
  successors, which is what `HasCycle` means by a cycle. Other finishes do
  not change the chain, since a record with a successor is final
  (`SuccessorsExist`) and a commit replaces a draft (`LockInv`); for the same
  reason a cycle, once there, stays (`CyclesStay`, `AskedCyclesStay`).
* `AloneInv`, as long as no two finishes overlapped: there is no cycle, so one
  that a finish asks for goes through its own run (`ThroughItsRun`), and then
  through every record that its walk comes to (`Together`). A walk that ends,
  ends at a record without a successor, which is on no cycle
  (`WalkFindsCycles`). So the length of the chain is no matter of induction:
  each step of the walk hands the argument to the next.

The assumptions are that finishes are not readers and that `None` is no run.

### Snapshots of the store

The last part of `ObservationStoreProofs`, headed "Readers", for any number of
readers, calls and runs, any query (`SelectedAreRuns`) and without early callers
(it is in that module because the lemmas about the store are what it uses):

* `SnapshotOfOne`: `ReadersSpec => []SnapshotOfOneStore`. The moment that a
  snapshot shows is the listing of the records in its second reading. Whoever
  may still take a record back has a temporary or a backup in that directory
  (`TempsThere`), and a strict listing refuses these, so every record it lists
  is settled; `Persists` says that it, or the final record made of it, stays in
  place, and `Keeping` that no step of the store undoes that. Hence every
  record read after the listing is the listed one or was completed since
  (`ThereOf`), and one that was not listed is not read (`NotThereOf`). What
  is left is to exclude the completed ones: if both readings saw a completion
  that was not settled at the listing, its finish had it in place before
  (`WasSeen`), and a finish that has withdrawn its version does not put it
  back (`IsGone`, `GoneOf`). For tombstones, `TombsOf` says the same with the
  directory.
* `SnapshotsStand`: `ReadersSpec => []SnapshotStands` when no system call fails
  or the power stays on (`MaxFaults = 0 \/ MaxOutages = 0`). With the power on
  it follows from `Persists`. With power losses one has to know that what was
  listed is on the disk: a start drops its temporary, and a finish its backup,
  only after the `fsync` (`StartsAreSure`, `FinishesAreSure`). The condition is
  needed: after a failed `fsync` and a failed roll-back a start reports that
  its record may remain, and drops its temporary; a snapshot shows the draft,
  and a power loss may take it.

### The analysis of a snapshot

`SnapshotAnalysisProofs` proves the five safety properties of the pipeline for
any store, any invalidations of its final records, any reviewed mapping and
query, both schemas and any thresholds. The assumptions are those declared in
`SnapshotAnalysis`: the records are ones that `episode_schema.py` accepts
(`RecordsAreValid`), there are finitely many runs, `None` is no run,
generation or category, and the policy numbers have the ranges that
`policy_artifacts.py` enforces, minimum counts at least 1 among them (`Policy`).

The invariant is `Faithful` (`CoreIsFaithful`): the inputs do not change, the
bundle is the one that acquisition made of them, and whatever core is at hand
is `BuildCore` of that bundle in the schema that the core names. Every step
but two leaves the core alone; `Build` makes it so, and for `Migrate` it is
`MigratedIsToday`. What remains is to say what `BuildCore` does:

* `MigrationRebuilds`. The metrics, the counts and the candidates of the two
  schemas differ only in the availability that the older one lacks, and nothing
  has it: no projection ever makes it (`SoundBundle`). `CoreRecut` says so of the
  whole core, candidates and their identities included; it serves the migration
  and also the view that the older validator gets (`LegacyViewIsEarlier`).
* `RefusalsAreKnown`, from `Justified`, which adds to the property that what
  reaches publication has passed the older validator. Each of the layers is
  shown to accept: the constructor (`ConstructorIsSatisfied`), the analyzer
  (`AnalyzerIsSatisfied`) and its check that candidates have different
  identities (`DraftsAreDistinct`), its validator (`CoreIsAccepted`, with
  `CountsAreExhaustive`: the availabilities of a metric add up to the outcomes),
  and the older one (`EstablishedIsSatisfied`), provided it takes the texts of
  generations and projects; only the limit on a document's size is left. For the last, the two tables of candidates are compared row by row
  (`TablesAgree`), strength and bounds of a pattern are derived
  (`PatternsAreAccepted`, `SupportIsBounded`), and recurring patterns and
  decision candidates correspond one to one (`DecisionsBind`).
* `EpisodesAreAccounted`. An episode fits exactly the cohort that it was
  grouped in (`FitsItsCohort`, `CohortIsUnique`), and what a ledger row says of
  it is what the cohort counted it as (`LedgerTells`, `CohortIsAccounted`).
* `OnlyOutcomesSpeak`. The groups of the cleaned bundle have the same outcomes
  and patterns (`CleanSaysTheSame`), what a group says of results is a function
  of these (`DraftsFollow`), and a group without outcomes says nothing
  (`SilentGroups`).
* `RecurringDecisionsAreEarned`. Support is counted in episodes of the bundle,
  the property in runs of the store: a run takes a decision exactly when it is
  a pattern of its episode (`TakenIsPattern`), and the valid outcomes of a
  cohort are the episodes of the valid runs of its project and generation
  (`ValidAreOutcomes`), one for one (`RunsAreCounted`).

Sums are treated as in `EvaluationProtocolProofs`: `SumAddsUp` shows, by a
minimal counterexample among the subsets, that any function which adds up
over subsets is the sum, whatever order `MapThenSumSet` takes.

### Publication

`SnapshotPublicationProofs` proves, for any number of publishers and any
bounds, `PublicationTypeCorrect` (`TypeOK`), `ReportsTrue` (`ReportsAreTrue`),
`NoClobber` (`NeverOverwritten`) and `ReportedStands`
(`ReportedArtifactStands`), all from one inductive invariant, `PubInv`:

* `LinkInv`: an inode that is in place, or may be after a power loss, was
  linked by its publisher, who is past the link. Each publisher links once, so
  an artifact that is gone does not come back.
* `PlaceInv`: from its link on a publisher finds an artifact in place, its own
  exactly when its own link made it. That is why the roll-back and the removal
  of the temporary touch nobody else's artifact.
* `DurableInv`: who has synchronised the directory after the link knows that
  the entry is durable, whoever made the link; a report comes after that, hence
  `ReportedStands`. A directory that is itself not durable escapes it, which is
  the difference between `ReportedArtifactStands` and
  `ReportedArtifactIsDurable`, which does not hold.

The assumptions are that `None` is no publisher and that the bounds are
naturals.

### The evaluation

`CaseAttemptsProofs`, for any number of cases, coordinators, kills and failures
(`ConstantsAreNaturals`), proves `RecordsTrue`, `TornDownIsGone`,
`OwnedCasesCleaned`, `EpochsJudgedRightly` and `CleanupFindsNobody` from
`AttemptsInv`. `HomeInv` and `HistoryInv` say what is on the disk of a case
whoever was last at it: directories come before the home, the home before its
record, a tombstone after the credentials are gone, and the list of attempts
tells how often the model was started. `WorkerInv`, `EndedInv`, `CleaningInv`
and `CoordinatorInv` say what the living may rely on at each stage; a worker
and a cleanup are never at a case together. An epoch whose cases are all
committed is turned down only where `OpenArchivedForCleanup` has led to its
judgement and the lane has no seal. A kill keeps the first group and
empties the second, which is why the invariant is split so. That a case has at
most two attempts, the second one only open, is part of it (`Histories`): the
retry never gets further.

`BootstrapRetirementProofs`, for any inodes, coordinators, kills and size of
the archive (`RetirementConstants`), proves `CredentialsOwned`, `ReceiptTrue`,
`RefusalsExplained` and `TornDownComplete` from `RetirementInv`. Its heart are
two descriptions of the four active proofs: while a transaction is open they
are exactly what it says is still to be moved (`ExactInv`), otherwise each
proof stands on the ownership record (`SoundInv`). A coordinator that was
started afresh over an open transaction (`crossed`) escapes both, and the
theorems say what then remains true; `StageInv` is what its stages still know.
`RoomInv` (the archive has room for the rest of an open transaction) is why a
full archive never refuses in the middle of one.

`ResultPersistenceProofs`, for any coordinators, runs and bounds
(`PersistenceConstants`), proves `PointerWhole`, `ReportedStand` and the action
property `NothingUnseenReplaced` from `PersistInv`: only the holder of the
writer lease writes (`LeaseInv`), the pointer is still the one it captured
until it replaces it and its own afterwards (`BaseInv`), and what the pointer
names, and the part of its pair a writer has behind it, is durable or inherited
(`PairInv`).

`EvaluationProtocolProofs`, for any number of lanes and cases, any ceiling and
any coordinators, kills and failures (`ProtocolConstants`), proves
`NobodyIsAliveInCleanup`, `LedgerCanBeRebuilt` and the refinement
`DecisionsAsPromised` from `ProtocolInv`. Two of its parts carry the argument:

* `LedgerStands`: the ledger in memory is what the decisions that it has seen
  make of the messages (`Balanced`: the sum of the tokens, the ended cases,
  what each lane has begun and may try again). `AcceptKeepsBalance` shows it of
  any messages and decisions, so it holds for the coordinator that decides
  and for the one that replays.
* `LogStands`: what the decisions on disk hold among themselves, whoever made
  them (`Sensible`). Each was the only one that its message and its lane allow,
  but for the ceiling; after a stop its lane is never told to go on; an abort
  is the last of its lane and the only one; and all that were told to go on
  stay below the ceiling together, which one first stop then reaches.

From this follows why a replay in an order of its own does not get stuck. It
takes first what goes on, then the stops, then the abort (`InOrder`): while
something that went on is left, the sum of what was seen and of it is below
the ceiling (`GoingComes`); when only stops are left, either the ceiling is
reached already or the first stop of some lane reaches it (`StopComes`); the
abort comes when all else is seen (`AbortComes`). The sum over the messages is
`MapThenSumSet`, which takes them in an order that `CHOOSE` picks; the
lemmas at the beginning of the module show that the order does not matter,
by a minimal counterexample among the subsets instead of an induction.
`Pristine` (nothing was said before the credentials were armed) is why a fresh
start finds no messages.

`RecordsBearOutMessages` and `LedgerRefusesNothing` state the other two safety
properties, `EveryMessageIsBorneOut` and `EveryMessageIsAuthorised`. The first
needs `ProofsInv` as well (theorem `ProofsAreKept`): each end that names a
tombstone has it, and an end without one is a failed case, whose tombstone only
a cleanup can write; when a lane is launched, all
its cases have succeeded with their proofs, and no cleanup comes while a worker
lives. Both need
`LanesInv`, which is inductive beside `ProtocolInv`, and says of every lane:

* on disk: its cases were tried one after the other, all but the last with
  success (`Shape`); a seal is one of all that has ended, in a lane that is
  whole or has failed (`Sealed`); an end that was reported is on record
  (`Told`); and each message fits those before it and the decisions about them,
  for instance a case that starts has not ended before and finds no other one
  active (`Fitting`, under `Spoken`);
* of a living worker: what its plan and the records are at its stage (`Minds`),
  and which case it has in hand according to what was said (`Poised`). A kill
  empties these two, which is why they are apart from the first group;
* of the coordinator: a lane that is going to be launched is whole, has nothing
  in hand and has no message without a decision (`LanesReady`), except the one
  whose worker runs already while the coordinator still has to record its
  process group. And the ledger knows just the lanes whose end it has seen (`ExitsStand`).

What a ledger holds of a lane is, by `Balanced`, a function of the messages and
decisions of that lane alone. So what fits for the lane (`Fitting`) fits in any
ledger that has seen as much of it, in whatever order it has seen the others;
that is the step from `LanesInv` to `LedgerRefusesNothing`.

### Only model-checked

* Liveness under fairness, which is out of the prover's reach
  (`EveryCallReturns`, `EveryWalkEnds`, `EveryPublisherReturns`,
  `EveryCoordinatorEnds`, `EveryProcessEnds`, `WriterLeaseIsReturned`).

Every safety invariant, action property and refinement that a passing run
checks is a theorem. The type invariants are in no run. Five are theorems as
they stand (`TypeCorrect`, `PublicationTypeCorrect`, `AttemptsTypeCorrect`,
`PersistenceTypeCorrect`, `SuccessionTypeCorrect`); the inductive
invariants of `BootstrapRetirement`, `EvaluationProtocol` and `StoreReaders`
have type parts of their own (`TypeInv`, `Typed`, `ReaderTypes`). That of
`SnapshotAnalysis` is not proved: it says that the
bundle is `None` just before acquisition, and that a record is not a constant
is nothing a prover can know (TLC, where `None` is a model value, takes it for
granted). Nothing else rests on it; `Faithful` says what the two variables are.

## 5. Not modelled

The parsing, wording and canonical encoding of records, policies and artifacts;
the aggregation of reports; command-line parsing; packaging and release checks;
the older copies under `evidence/`.

Of the evaluation harness: the plan of an epoch and its fingerprints (pure
functions of the inputs, validated wherever they are read; the models start
from a valid plan); the conversations with the evaluated program and the
grading of its answers; the staging of the marketplace and of fixtures; the
verification of the evaluated archive; the descriptors and capability objects
that carry a lease inside a process. The rest of `_reset_case_for_retry`, and
the reconciliation of what it would leave, are not modelled because no run
reaches them (`attempts_retry`).

`PROJECT.json` lists every component with its status, and every hazard that no
property covers, with the reason.

## 6. Plan

Done: 1. `ObservationStore` with `RunLedger`. 2. `ObservationStoreProofs`.
3. `Supersession`. 4. `StoreReaders`. 5. `SnapshotPublication` with its proofs.
6. `CaseAttempts`. 7. `EvaluationProtocol` with `DecisionLog`.
8. `BootstrapRetirement`. 9. `ResultPersistence`. 10. `SnapshotAnalysis`.
11. Proofs about `ResultPersistence`, `BootstrapRetirement` and `CaseAttempts`.
12. The rest of `ObservationStoreProofs` with the refinement of `RunLedger`.
13. The proofs about `StoreReaders`. 14. `EvaluationProtocolProofs` with the
refinement of `DecisionLog`, the messages of a lane and its records.
15. `SupersessionProofs`. 16. `SnapshotAnalysisProofs`.

Every safety property that a passing run checks is now a theorem. What could
follow: a model of the plan of an epoch and of its shards, and of the
aggregation of reports; an abstract specification of the cases of a lane
between `CaseAttempts` and `EvaluationProtocol`, which now share only what
their comments say.
