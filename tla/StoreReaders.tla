---------------------------- MODULE StoreReaders ----------------------------
(***************************************************************************)
(* Learning snapshots of the whole store beside the calls that change it,  *)
(* which are those of ObservationStore.  A snapshot reads the store twice, *)
(* in strict mode, and is published only when both readings gave the same  *)
(* manifest.  Readers take no lock.                                        *)
(***************************************************************************)
EXTENDS ObservationStore

CONSTANTS
  Readers,   (* the calls of `observe snapshot`                            *)
  Selected   (* the runs that the query of the snapshots selects           *)

ASSUME SelectedAreRuns == Selected \subseteq Runs

VARIABLES
  at,       (* where each reader is                                        *)
  todo,     (* the names it listed and has not read yet                    *)
  peek,     (* the name it reads, and the inode its stat found             *)
  sawDir,   (* did its listing show the invalidations directory?           *)
  got,      (* the records and tombstones read so far                      *)
  first,    (* the manifest of the first reading, or None                  *)
  shot,     (* the manifest it published, or None                          *)
  verdict,  (* how it ended                                                *)
  mid       (* the settled store when its second reading listed records;   *)
            (* not in the code: the snapshot is compared with it           *)

readers == <<at, todo, peek, sawDir, got, first, shot, verdict, mid>>

Image == [rec : [Runs -> Version \cup {None}],
          tomb : [Runs -> Invalidators \cup {None}]]
Blank == [rec |-> [r \in Runs |-> None], tomb |-> [r \in Runs |-> None]]

(* What a manifest keeps of an image: the selected runs.                   *)
Manifest(image) ==
  [rec |-> [r \in Selected |-> image.rec[r]],
   tomb |-> [r \in Selected |-> image.tomb[r]]]
Manifests == [rec : [Selected -> Version \cup {None}],
              tomb : [Selected -> Invalidators \cup {None}]]

ReaderStages == {"idle", "list", "records", "record", "tlist", "tombs",
                 "tomb", "end", "done"}
Verdicts == {"none", "ok", "layout", "unstable", "dangling", "changed",
             "killed"}

ReadersTypeOK ==
  /\ TypeOK
  /\ at \in [Readers -> ReaderStages]
  /\ todo \in [Readers -> SUBSET Runs]
  /\ peek \in [Readers -> [run : Runs, inode : Version \cup Invalidators]
                            \cup {None}]
  /\ sawDir \in [Readers -> BOOLEAN]
  /\ got \in [Readers -> Image]
  /\ first \in [Readers -> Manifests \cup {None}]
  /\ shot \in [Readers -> Manifests \cup {None}]
  /\ verdict \in [Readers -> Verdicts]
  /\ mid \in [Readers -> Manifests \cup {None}]
  /\ \A x \in Readers : at[x] \in {"record", "tomb"} => peek[x] # None

ReadersInit ==
  /\ Init
  /\ at = [x \in Readers |-> "idle"]
  /\ todo = [x \in Readers |-> {}]
  /\ peek = [x \in Readers |-> None]
  /\ sawDir = [x \in Readers |-> FALSE]
  /\ got = [x \in Readers |-> Blank]
  /\ first = [x \in Readers |-> None]
  /\ shot = [x \in Readers |-> None]
  /\ verdict = [x \in Readers |-> "none"]
  /\ mid = [x \in Readers |-> None]

-----------------------------------------------------------------------------
Proceed(x, stage) == at' = [at EXCEPT ![x] = stage] /\ UNCHANGED verdict
Give(x, v) ==
  /\ at' = [at EXCEPT ![x] = "done"]
  /\ verdict' = [verdict EXCEPT ![x] = v]

(* Mutant: snapshots do not read strictly.                                 *)
Tolerant == FALSE
(* The files that a strict reading does not tolerate in each directory.    *)
RecordLitter ==
  \/ temps \cap (Starters \cup Finishers) # {}
  \/ \E c \in Calls : backup[c] # None
TombLitter == temps \cap Invalidators # {}

(* Some call is adding or removing other names of the record's inode,      *)
(* which a reader notices by its ctime.                                    *)
Touched(r) == \E c \in Calls : Live(c) /\ run[c] = r

SettledStore ==
  [rec |-> [r \in Runs |->
              IF rec[r] = None \/ Settled(rec[r].origin) = None THEN None
              ELSE [rec[r] EXCEPT !.finish = Settled(rec[r].finish)]],
   tomb |-> [r \in Runs |-> Settled(tomb[r])]]

Begin(x) ==
  /\ at[x] = "idle"
  /\ Proceed(x, "list")
  /\ UNCHANGED <<vars, todo, peek, sawDir, got, first, shot, mid>>

(* os.listdir of the observations directory.                               *)
ListRecords(x) ==
  /\ at[x] = "list"
  /\ IF RecordLitter THEN Give(x, "layout")
     ELSE Proceed(x, "records")
  /\ todo' = [todo EXCEPT ![x] = {r \in Runs : rec[r] # None}]
  /\ sawDir' = [sawDir EXCEPT ![x] = invDir # "absent"]
  /\ got' = [got EXCEPT ![x] = Blank]
  /\ mid' = IF first[x] = None THEN mid
            ELSE [mid EXCEPT ![x] = Manifest(SettledStore)]
  /\ UNCHANGED <<vars, peek, first, shot>>

(* The stat of the next name listed; it may be gone by now.                *)
StatRecord(x) ==
  /\ at[x] = "records"
  /\ \E r \in todo[x] :
       /\ todo' = [todo EXCEPT ![x] = @ \ {r}]
       /\ \/ /\ rec[r] # None
             /\ peek' = [peek EXCEPT ![x] = [run |-> r, inode |-> rec[r]]]
             /\ Proceed(x, "record")
          \/ rec[r] = None /\ Give(x, "unstable") /\ UNCHANGED peek
  /\ UNCHANGED <<vars, sawDir, got, first, shot, mid>>

(* _read_report_regular_file: the content counts only when the name still  *)
(* leads to the inode that was found first and nothing touched that.       *)
ReadDocument(x) ==
  /\ at[x] = "record"
  /\ LET r == peek[x].run
     IN  \/ /\ rec[r] = peek[x].inode
            /\ got' = [got EXCEPT ![x].rec[r] = rec[r]]
            /\ Proceed(x, "records")
         \/ /\ rec[r] # peek[x].inode \/ Touched(r)
            /\ Give(x, "unstable")
            /\ UNCHANGED got
  /\ UNCHANGED <<vars, todo, peek, sawDir, first, shot, mid>>

(* os.listdir of the invalidations directory, when the first listing       *)
(* showed one.                                                             *)
ListTombs(x) ==
  /\ at[x] = "records" /\ todo[x] = {}
  /\ \/ ~sawDir[x] /\ Proceed(x, "end") /\ UNCHANGED todo
     \/ /\ sawDir[x]
        /\ IF TombLitter THEN Give(x, "layout")
           ELSE Proceed(x, "tombs")
        /\ todo' = [todo EXCEPT ![x] = {r \in Runs : tomb[r] # None}]
  /\ UNCHANGED <<vars, peek, sawDir, got, first, shot, mid>>

StatTomb(x) ==
  /\ at[x] = "tombs"
  /\ \/ /\ todo[x] = {}
        /\ Proceed(x, "end")
        /\ UNCHANGED <<todo, peek>>
     \/ \E r \in todo[x] :
          /\ todo' = [todo EXCEPT ![x] = @ \ {r}]
          /\ \/ /\ tomb[r] # None
                /\ peek' = [peek EXCEPT ![x] = [run |-> r, inode |-> tomb[r]]]
                /\ Proceed(x, "tomb")
             \/ tomb[r] = None /\ Give(x, "unstable") /\ UNCHANGED peek
  /\ UNCHANGED <<vars, sawDir, got, first, shot, mid>>

(* A tombstone must belong to a record of this reading that is final.      *)
ReadTomb(x) ==
  /\ at[x] = "tomb"
  /\ LET r == peek[x].run
         v == got[x].rec[r]
     IN  \/ /\ tomb[r] # peek[x].inode \/ Touched(r)
            /\ Give(x, "unstable")
            /\ UNCHANGED got
         \/ /\ tomb[r] = peek[x].inode
            /\ IF v = None \/ IsDraft(v)
               THEN Give(x, "dangling") /\ UNCHANGED got
               ELSE /\ got' = [got EXCEPT ![x].tomb[r] = tomb[r]]
                    /\ Proceed(x, "tombs")
  /\ UNCHANGED <<vars, todo, peek, sawDir, first, shot, mid>>

(* Mutant: the manifest of the first reading is published.                 *)
PublishFirst(x) ==
  /\ at[x] = "end"
  /\ shot' = [shot EXCEPT ![x] = Manifest(got[x])]
  /\ mid' = [mid EXCEPT ![x] = Manifest(SettledStore)]
  /\ Give(x, "ok")
  /\ UNCHANGED <<vars, todo, peek, sawDir, got, first>>
(* A snapshot is computed from the first reading, and published when a     *)
(* second one has the same manifest.                                       *)
EndReading(x) ==
  /\ at[x] = "end"
  /\ \/ /\ first[x] = None
        /\ first' = [first EXCEPT ![x] = Manifest(got[x])]
        /\ Proceed(x, "list")
        /\ UNCHANGED shot
     \/ /\ first[x] = Manifest(got[x])
        /\ shot' = [shot EXCEPT ![x] = first[x]]
        /\ Give(x, "ok")
        /\ UNCHANGED first
     \/ /\ first[x] \notin {None, Manifest(got[x])}
        /\ Give(x, "changed")
        /\ UNCHANGED <<first, shot>>
  /\ UNCHANGED <<vars, todo, peek, sawDir, got, mid>>

PowerLoss ==
  /\ Outage
  /\ at' = [x \in Readers |-> IF at[x] = "idle" THEN "idle" ELSE "done"]
  /\ verdict' = [x \in Readers |->
                   IF at[x] \in {"idle", "done"} THEN verdict[x]
                   ELSE "killed"]
  /\ UNCHANGED <<todo, peek, sawDir, got, first, shot, mid>>

AllDone ==
  /\ \A c \in Calls : pc[c] = "done"
  /\ \A x \in Readers : at[x] = "done"
  /\ UNCHANGED <<vars, readers>>

StoreStep ==
  /\ \/ \E c \in Calls : CallStep(c) \/ Kill(c)
     \/ \E r \in Runs : SwapLock(r)
  /\ UNCHANGED readers

ReaderStep(x) ==
  \/ Begin(x) \/ ListRecords(x) \/ StatRecord(x) \/ ReadDocument(x)
  \/ ListTombs(x) \/ StatTomb(x) \/ ReadTomb(x) \/ EndReading(x)

ReadersNext ==
  \/ StoreStep
  \/ \E x \in Readers : ReaderStep(x)
  \/ PowerLoss
  \/ AllDone

ReadersSpec == ReadersInit /\ [][ReadersNext]_<<vars, readers>>

-----------------------------------------------------------------------------
(* "A and B must be byte-identical": a published snapshot shows the store  *)
(* as it was at one moment, with nothing that was not settled then, though *)
(* its records were read one by one while calls changed them.              *)
SnapshotOfOneStore == \A x \in Readers : shot[x] # None => shot[x] = mid[x]

(* No final record and no tombstone of a published snapshot is ever taken  *)
(* back: nothing that a call rolls back later is in one, and no record     *)
(* that a power loss takes.  (A tombstone may go with its directory.)      *)
SnapshotStands ==
  \A x \in Readers : shot[x] # None =>
    \A r \in Selected :
      LET v == shot[x].rec[r]
      IN  /\ v # None => rec[r] # None /\ rec[r].origin = v.origin
          /\ v # None /\ ~IsDraft(v) => rec[r] = v
          /\ shot[x].tomb[r] # None =>
               tomb[r] = shot[x].tomb[r] \/ budget.outages > 0

(* "invalidation must reference a final observation": a reader that        *)
(* refuses the store for it is right, some tombstone does not.             *)
DanglingVerdictsAreRight ==
  \A x \in Readers : verdict[x] = "dangling" => ~TombstoneOnFinal
=============================================================================
