----------------------- MODULE ResultPersistenceProofs -----------------------
(***************************************************************************)
(* Theorems about ResultPersistence, for any coordinators, any runs and    *)
(* any bounds.                                                             *)
(***************************************************************************)
EXTENDS ResultPersistence, TLAPS

(* A fingerprint of the repository, as a record.                           *)
Views == [pair : Runs \cup {None}, files : SUBSET (Runs \X Modes),
          temps : Nat, edits : Nat]

TypeInv == TypeOK /\ base \in [Coordinators -> Views]

(* The stages between the look at the writer lease and its release, and    *)
(* those up to the replacement of the pointer.                             *)
Replacing == Writing \cup {"point"}
HoldsWriter(c) ==
  \/ pc[c] \in Persisting \cup {"check"}
  \/ pc[c] = "work" /\ c \notin Serial

(* Who writes holds the writer lease, so nobody else does.                 *)
LeaseInv == \A c \in Coordinators : HoldsWriter(c) => writer = c

(* The pointer is still the one a writer saw when it began, until it has   *)
(* replaced it; from then on it is its own.                                *)
BaseInv ==
  \A c \in Coordinators :
    /\ pc[c] \in Replacing => base[c].pair = pointer
    /\ pc[c] \in {"settle", "readback", "verify"} => pointer = RunOf(c)
    /\ pc[c] \in {"readback", "verify"} => saved = RunOf(c)

(* A file that is durable stays: of the pairs that are named, and of the   *)
(* part of its pair that a writer has behind it.                           *)
Secured(r, m) == r \in inherited \/ file[r][m] = "durable"
PairInv ==
  /\ \A r \in {pointer, saved} \ {None} : \A m \in Modes : Secured(r, m)
  /\ \A c \in Coordinators :
       /\ pc[c] \in {"lifecycle", "sync lifecycle", "point"} =>
            Secured(RunOf(c), "forward")
       /\ pc[c] = "point" => Secured(RunOf(c), "lifecycle")
       /\ \A m \in Modes :
            pc[c] = SyncStage(m) => file[RunOf(c)][m] # "absent"

PersistInv == TypeInv /\ LeaseInv /\ BaseInv /\ PairInv /\ ReportedPairStands

-----------------------------------------------------------------------------
(* Nobody has begun: nothing is there, nothing is named.                   *)
LEMMA InitPersistInv == Init => PersistInv
<1> SUFFICES ASSUME Init PROVE PersistInv
  OBVIOUS
<1> USE PersistenceConstants DEF Init
<1>1. TypeInv
  BY DEF TypeInv, TypeOK, Views, Unseen, Stages, Modes
<1>2. LeaseInv /\ BaseInv /\ PairInv /\ ReportedPairStands
  BY DEF LeaseInv, HoldsWriter, BaseInv, PairInv, Persisting, Writing,
         Replacing, ReportedPairStands, SyncStage, Modes
<1> QED
  BY <1>1, <1>2 DEF PersistInv

(* Every step of a coordinator, a kill, a power failure and an edit keep   *)
(* the invariant.                                                          *)
LEMMA StepPersistInv == PersistInv /\ [Next]_vars => PersistInv'
<1> SUFFICES ASSUME PersistInv, [Next]_vars PROVE PersistInv'
  OBVIOUS
<1> USE DEF At, Go, Spend, Keeps, repository, leases, locals, history
<1>a. pc \in [Coordinators -> Stages]
  BY DEF PersistInv, TypeInv, TypeOK
<1>b. base \in [Coordinators -> Views]
  BY DEF PersistInv, TypeInv
<1>c. file \in [Runs -> [Modes -> {"absent", "written", "durable"}]]
  BY DEF PersistInv, TypeInv, TypeOK
<1>d. \A c \in Coordinators : RunOf(c) \in Runs
  BY DEF Runs
<1>e. TypeInv /\ LeaseInv /\ BaseInv /\ PairInv /\ ReportedPairStands
  BY DEF PersistInv
<1>f. None \notin Coordinators /\ None \notin Runs
  BY PersistenceConstants
<1>1. ASSUME NEW c \in Coordinators, Start(c)
      PROVE  PersistInv'
  <2>1. TypeInv'
    <3>1. used' \in [{"starts", "kills", "losses"} -> Nat]
      BY <1>1, <1>e DEF Start, TypeInv, TypeOK
    <3>2. pc' \in [Coordinators -> Stages]
      BY <1>1, <1>a DEF Start, Stages, Persisting, Writing
    <3> QED
      BY <1>1, <3>1, <3>2, <1>e DEF Start, TypeInv, TypeOK
  <2>2. LeaseInv'
    BY <1>1, <1>a, <1>e, <1>f DEF Start, LeaseInv, HoldsWriter, Persisting,
       Writing
  <2>3. BaseInv'
    BY <1>1, <1>a, <1>b, <1>e DEF Start, BaseInv, LeaseInv, HoldsWriter,
       Replacing, Persisting, Writing
  <2>4. PairInv'
    BY <1>1, <1>a, <1>c, <1>d, <1>e DEF Start, PairInv, Secured, SyncStage,
       Modes
  <2>5. ReportedPairStands'
    BY <1>1, <1>a, <1>d, <1>e, <1>f DEF Start, ReportedPairStands, BaseInv
  <2> QED
    BY <2>1, <2>2, <2>3, <2>4, <2>5 DEF PersistInv
<1>2. ASSUME NEW c \in Coordinators, AcquireRun(c)
      PROVE  PersistInv'
  <2>1. TypeInv'
    <3>1. pc' \in [Coordinators -> Stages]
      BY <1>2, <1>a DEF AcquireRun, Ends, Stages, Persisting, Writing
    <3>2. runLease' \in [Runs -> Coordinators \cup {None}]
      BY <1>2, <1>d, <1>e DEF AcquireRun, TypeInv, TypeOK
    <3>3. result' \in [Coordinators -> {"none", "failed", "committed"}]
      BY <1>2, <1>e DEF AcquireRun, Ends, TypeInv, TypeOK
    <3> QED
      BY <1>2, <1>e, <3>1, <3>2, <3>3 DEF AcquireRun, TypeInv, TypeOK
  <2>2. LeaseInv'
    BY <1>2, <1>a, <1>e, <1>f DEF AcquireRun, Ends, LeaseInv, HoldsWriter,
       Persisting, Writing
  <2>3. BaseInv'
    BY <1>2, <1>a, <1>b, <1>e DEF AcquireRun, Ends, BaseInv, LeaseInv,
       HoldsWriter, Replacing, Persisting, Writing
  <2>4. PairInv'
    BY <1>2, <1>a, <1>c, <1>d, <1>e DEF AcquireRun, Ends, PairInv, Secured,
       SyncStage, Modes
  <2>5. ReportedPairStands'
    BY <1>2, <1>a, <1>d, <1>e, <1>f DEF AcquireRun, Ends, ReportedPairStands,
       BaseInv
  <2> QED
    BY <2>1, <2>2, <2>3, <2>4, <2>5 DEF PersistInv
<1>3. ASSUME NEW c \in Coordinators, CaptureGuard(c)
      PROVE  PersistInv'
  <2>1. TypeInv'
    <3>1. View \in Views
      BY <1>3, <1>e DEF View, Views, Present, TypeInv, TypeOK
    <3>2. base' \in [Coordinators -> Views]
      BY <1>3, <1>b, <3>1 DEF CaptureGuard
    <3>3. \A k \in Coordinators : base'[k].files \subseteq Runs \X Modes
      BY <1>3, <3>2 DEF Views
    <3>4. pc' \in [Coordinators -> Stages]
      BY <1>3, <1>a DEF CaptureGuard, Stages, Persisting, Writing
    <3> QED
      BY <1>3, <3>1, <3>2, <3>3, <3>4, <1>e DEF CaptureGuard, TypeInv, TypeOK
  <2>2. LeaseInv'
    BY <1>3, <1>a, <1>e, <1>f DEF CaptureGuard, View, Present, Views,
       LeaseInv, HoldsWriter, Persisting, Writing
  <2>3. BaseInv'
    BY <1>3, <1>a, <1>b, <1>e DEF CaptureGuard, View, Present, Views,
       BaseInv, LeaseInv, HoldsWriter, Replacing, Persisting, Writing
  <2>4. PairInv'
    BY <1>3, <1>a, <1>c, <1>d, <1>e DEF CaptureGuard, View, Present, Views,
       PairInv, Secured, SyncStage, Modes
  <2>5. ReportedPairStands'
    BY <1>3, <1>a, <1>d, <1>e, <1>f DEF CaptureGuard, View, Present, Views,
       ReportedPairStands, BaseInv
  <2> QED
    BY <2>1, <2>2, <2>3, <2>4, <2>5 DEF PersistInv
<1>4. ASSUME NEW c \in Coordinators, AcquireWriter(c)
      PROVE  PersistInv'
  <2>1. TypeInv'
    BY <1>4, <1>a, <1>b, <1>c, <1>d, <1>e DEF AcquireWriter, Ends, TypeInv,
       TypeOK, Stages, Persisting, Writing, Modes
  <2>2. LeaseInv'
    BY <1>4, <1>a, <1>e, <1>f DEF AcquireWriter, Ends, LeaseInv, HoldsWriter,
       Persisting, Writing
  <2>3. BaseInv'
    BY <1>4, <1>a, <1>b, <1>e DEF AcquireWriter, Ends, BaseInv, LeaseInv,
       HoldsWriter, Replacing, Persisting, Writing
  <2>4. PairInv'
    BY <1>4, <1>a, <1>c, <1>d, <1>e DEF AcquireWriter, Ends, PairInv,
       Secured, SyncStage, Modes
  <2>5. ReportedPairStands'
    BY <1>4, <1>a, <1>d, <1>e, <1>f DEF AcquireWriter, Ends,
       ReportedPairStands, BaseInv
  <2> QED
    BY <2>1, <2>2, <2>3, <2>4, <2>5 DEF PersistInv
<1>5. ASSUME NEW c \in Coordinators, Work(c)
      PROVE  PersistInv'
  <2>1. TypeInv'
    BY <1>5, <1>a, <1>b, <1>c, <1>d, <1>e DEF Work, Ends, TypeInv, TypeOK,
       Stages, Persisting, Writing, Modes
  <2>2. LeaseInv'
    BY <1>5, <1>a, <1>e, <1>f DEF Work, Ends, LeaseInv, HoldsWriter,
       Persisting, Writing
  <2>3. BaseInv'
    BY <1>5, <1>a, <1>b, <1>e DEF Work, Ends, BaseInv, LeaseInv, HoldsWriter,
       Replacing, Persisting, Writing
  <2>4. PairInv'
    BY <1>5, <1>a, <1>c, <1>d, <1>e DEF Work, Ends, PairInv, Secured,
       SyncStage, Modes
  <2>5. ReportedPairStands'
    BY <1>5, <1>a, <1>d, <1>e, <1>f DEF Work, Ends, ReportedPairStands,
       BaseInv
  <2> QED
    BY <2>1, <2>2, <2>3, <2>4, <2>5 DEF PersistInv
<1>6. ASSUME NEW c \in Coordinators, Check(c)
      PROVE  PersistInv'
  <2>1. TypeInv'
    BY <1>6, <1>a, <1>b, <1>c, <1>d, <1>e DEF Check, Ends, HoldsLeases,
       TypeInv, TypeOK, Stages, Persisting, Writing, Modes
  <2>2. LeaseInv'
    BY <1>6, <1>a, <1>e, <1>f DEF Check, Ends, HoldsLeases, LeaseInv,
       HoldsWriter, Persisting, Writing
  <2>3. BaseInv'
    <3>1. View = base[c] => base[c].pair = pointer
      BY DEF View
    <3> QED
      BY <1>6, <3>1, <1>a, <1>b, <1>e DEF Check, Ends, HoldsLeases, BaseInv,
         Replacing, Writing
  <2>4. PairInv'
    BY <1>6, <1>a, <1>c, <1>d, <1>e DEF Check, Ends, HoldsLeases, PairInv,
       Secured, SyncStage, Modes
  <2>5. ReportedPairStands'
    BY <1>6, <1>a, <1>d, <1>e, <1>f DEF Check, Ends, HoldsLeases,
       ReportedPairStands, BaseInv
  <2> QED
    BY <2>1, <2>2, <2>3, <2>4, <2>5 DEF PersistInv
<1>7. ASSUME NEW c \in Coordinators, NEW m \in Modes, Reuse(c, m)
      PROVE  PersistInv'
  <2>1. TypeInv'
    BY <1>7, <1>a, <1>b, <1>c, <1>d, <1>e DEF Reuse, AfterMode, Modes,
       TypeInv, TypeOK, Stages, Persisting, Writing, Modes
  <2>2. LeaseInv'
    BY <1>7, <1>a, <1>e, <1>f DEF Reuse, AfterMode, Modes, LeaseInv,
       HoldsWriter, Persisting, Writing
  <2>3. BaseInv'
    BY <1>7, <1>a, <1>b, <1>e DEF Reuse, AfterMode, Modes, BaseInv, LeaseInv,
       HoldsWriter, Replacing, Persisting, Writing
  <2>4. PairInv'
    BY <1>7, <1>a, <1>c, <1>d, <1>e DEF Reuse, AfterMode, Modes, PairInv,
       Secured, SyncStage, Modes
  <2>5. ReportedPairStands'
    BY <1>7, <1>a, <1>d, <1>e, <1>f DEF Reuse, AfterMode, Modes,
       ReportedPairStands, BaseInv
  <2> QED
    BY <2>1, <2>2, <2>3, <2>4, <2>5 DEF PersistInv
<1>8. ASSUME NEW c \in Coordinators, NEW m \in Modes, Write(c, m)
      PROVE  PersistInv'
  <2>1. TypeInv'
    BY <1>8, <1>a, <1>b, <1>c, <1>d, <1>e DEF Write, SyncStage, Keeps, Modes,
       TypeInv, TypeOK, Stages, Persisting, Writing, Modes
  <2>2. LeaseInv'
    BY <1>8, <1>a, <1>e, <1>f DEF Write, SyncStage, Keeps, Modes, LeaseInv,
       HoldsWriter, Persisting, Writing
  <2>3. BaseInv'
    BY <1>8, <1>a, <1>b, <1>e DEF Write, SyncStage, Keeps, Modes, BaseInv,
       LeaseInv, HoldsWriter, Replacing, Persisting, Writing
  <2>4. PairInv'
    <3>1. ASSUME NEW r \in Runs, NEW k \in Modes, Secured(r, k)
          PROVE  Secured(r, k)'
      BY <1>8, <3>1, <1>c, <1>d DEF Write, Keeps, Secured, Modes
    <3>2. (pointer \in Runs \cup {None}) /\ (saved \in Runs \cup {None})
      BY <1>e DEF TypeInv, TypeOK
    <3>3. file'[RunOf(c)][m] # "absent"
      BY <1>8, <1>c, <1>d DEF Write
    <3>4. ASSUME NEW r \in Runs, NEW k \in Modes, file[r][k] # "absent"
          PROVE  file'[r][k] # "absent"
      BY <1>8, <3>4, <1>c DEF Write
    <3>5. pc' = [pc EXCEPT ![c] = SyncStage(m)] /\ pc[c] = m
          /\ pointer' = pointer /\ saved' = saved
      BY <1>8 DEF Write
    <3> QED
      BY <1>8, <3>1, <3>2, <3>3, <3>4, <3>5, <1>a, <1>d, <1>e DEF SyncStage,
         PairInv, Modes
  <2>5. ReportedPairStands'
    BY <1>8, <1>a, <1>d, <1>e, <1>f DEF Write, SyncStage, Keeps, Modes,
       ReportedPairStands, BaseInv
  <2> QED
    BY <2>1, <2>2, <2>3, <2>4, <2>5 DEF PersistInv
<1>9. ASSUME NEW c \in Coordinators, NEW m \in Modes, Sync(c, m)
      PROVE  PersistInv'
  <2>1. TypeInv'
    <3>1. file' \in [Runs -> [Modes -> {"absent", "written", "durable"}]]
      BY <1>9, <1>c DEF Sync, Durable, Modes
    <3>2. pc' \in [Coordinators -> Stages]
      BY <1>9, <1>a DEF Sync, AfterMode, SyncStage, Modes, Stages, Persisting,
         Writing
    <3> QED
      BY <1>9, <3>1, <3>2, <1>e DEF Sync, TypeInv, TypeOK
  <2>2. LeaseInv'
    BY <1>9, <1>a, <1>e, <1>f DEF Sync, SyncStage, AfterMode, Keeps, Modes,
       Durable, LeaseInv, HoldsWriter, Persisting, Writing
  <2>3. BaseInv'
    BY <1>9, <1>a, <1>b, <1>e DEF Sync, SyncStage, AfterMode, Keeps, Modes,
       Durable, BaseInv, LeaseInv, HoldsWriter, Replacing, Persisting, Writing
  <2>4. PairInv'
    <3>1. ASSUME NEW r \in Runs, NEW k \in Modes, Secured(r, k)
          PROVE  Secured(r, k)'
      BY <1>9, <3>1, <1>c, <1>d DEF Sync, Durable, Keeps, Secured, Modes
    <3>2. (pointer \in Runs \cup {None}) /\ (saved \in Runs \cup {None})
      BY <1>e DEF TypeInv, TypeOK
    <3>3. Secured(RunOf(c), m)'
      BY <1>9, <1>a, <1>c, <1>d, <1>e DEF Sync, Durable, PairInv, Secured, Modes
    <3>4. ASSUME NEW r \in Runs, NEW k \in Modes, file[r][k] # "absent"
          PROVE  file'[r][k] # "absent"
      BY <1>9, <3>4, <1>c DEF Sync, Durable
    <3>5. pc' = [pc EXCEPT ![c] = AfterMode(m)] /\ pc[c] = SyncStage(m)
          /\ pointer' = pointer /\ saved' = saved
      BY <1>9 DEF Sync
    <3> QED
      BY <1>9, <3>1, <3>2, <3>3, <3>4, <3>5, <1>a, <1>d, <1>e DEF SyncStage,
         AfterMode, PairInv, Modes
  <2>5. ReportedPairStands'
    BY <1>9, <1>a, <1>d, <1>e, <1>f DEF Sync, SyncStage, AfterMode, Keeps,
       Modes, Durable, ReportedPairStands, BaseInv
  <2> QED
    BY <2>1, <2>2, <2>3, <2>4, <2>5 DEF PersistInv
<1>10. ASSUME NEW c \in Coordinators, Point(c)
      PROVE  PersistInv'
  <2>1. TypeInv'
    BY <1>10, <1>a, <1>b, <1>c, <1>d, <1>e DEF Point, TypeInv, TypeOK,
       Stages, Persisting, Writing, Modes
  <2>2. LeaseInv'
    BY <1>10, <1>a, <1>e, <1>f DEF Point, LeaseInv, HoldsWriter, Persisting,
       Writing
  <2>3. BaseInv'
    BY <1>10, <1>a, <1>b, <1>e DEF Point, BaseInv, LeaseInv, HoldsWriter,
       Replacing, Persisting, Writing
  <2>4. PairInv'
    BY <1>10, <1>a, <1>c, <1>d, <1>e DEF Point, PairInv, Secured, SyncStage,
       Modes
  <2>5. ReportedPairStands'
    BY <1>10, <1>a, <1>d, <1>e, <1>f DEF Point, ReportedPairStands, BaseInv
  <2> QED
    BY <2>1, <2>2, <2>3, <2>4, <2>5 DEF PersistInv
<1>11. ASSUME NEW c \in Coordinators, Settle(c)
      PROVE  PersistInv'
  <2>1. TypeInv'
    BY <1>11, <1>a, <1>b, <1>c, <1>d, <1>e DEF Settle, Keeps, TypeInv,
       TypeOK, Stages, Persisting, Writing, Modes
  <2>2. LeaseInv'
    BY <1>11, <1>a, <1>e, <1>f DEF Settle, Keeps, LeaseInv, HoldsWriter,
       Persisting, Writing
  <2>3. BaseInv'
    BY <1>11, <1>a, <1>b, <1>e DEF Settle, Keeps, BaseInv, LeaseInv,
       HoldsWriter, Replacing, Persisting, Writing
  <2>4. PairInv'
    BY <1>11, <1>a, <1>c, <1>d, <1>e DEF Settle, Keeps, PairInv, Secured,
       SyncStage, Modes
  <2>5. ReportedPairStands'
    BY <1>11, <1>a, <1>d, <1>e, <1>f DEF Settle, Keeps, ReportedPairStands,
       BaseInv
  <2> QED
    BY <2>1, <2>2, <2>3, <2>4, <2>5 DEF PersistInv
<1>12. ASSUME NEW c \in Coordinators, ReadBack(c)
      PROVE  PersistInv'
  <2>1. TypeInv'
    BY <1>12, <1>a, <1>b, <1>c, <1>d, <1>e DEF ReadBack, Ends, TypeInv,
       TypeOK, Stages, Persisting, Writing, Modes
  <2>2. LeaseInv'
    BY <1>12, <1>a, <1>e, <1>f DEF ReadBack, Ends, LeaseInv, HoldsWriter,
       Persisting, Writing
  <2>3. BaseInv'
    BY <1>12, <1>a, <1>b, <1>e DEF ReadBack, Ends, BaseInv, LeaseInv,
       HoldsWriter, Replacing, Persisting, Writing
  <2>4. PairInv'
    BY <1>12, <1>a, <1>c, <1>d, <1>e DEF ReadBack, Ends, PairInv, Secured,
       SyncStage, Modes
  <2>5. ReportedPairStands'
    BY <1>12, <1>a, <1>d, <1>e, <1>f DEF ReadBack, Ends, ReportedPairStands,
       BaseInv
  <2> QED
    BY <2>1, <2>2, <2>3, <2>4, <2>5 DEF PersistInv
<1>13. ASSUME NEW c \in Coordinators, Verify(c)
      PROVE  PersistInv'
  <2>1. TypeInv'
    BY <1>13, <1>a, <1>b, <1>c, <1>d, <1>e DEF Verify, Ends, TypeInv, TypeOK,
       Stages, Persisting, Writing, Modes
  <2>2. LeaseInv'
    BY <1>13, <1>a, <1>e, <1>f DEF Verify, Ends, LeaseInv, HoldsWriter,
       Persisting, Writing
  <2>3. BaseInv'
    BY <1>13, <1>a, <1>b, <1>e DEF Verify, Ends, BaseInv, LeaseInv,
       HoldsWriter, Replacing, Persisting, Writing
  <2>4. PairInv'
    BY <1>13, <1>a, <1>c, <1>d, <1>e DEF Verify, Ends, PairInv, Secured,
       SyncStage, Modes
  <2>5. ReportedPairStands'
    BY <1>13, <1>a, <1>d, <1>e, <1>f DEF Verify, Ends, ReportedPairStands,
       BaseInv
  <2> QED
    BY <2>1, <2>2, <2>3, <2>4, <2>5 DEF PersistInv
<1>14. ASSUME NEW c \in Coordinators, Release(c)
      PROVE  PersistInv'
  <2>1. TypeInv'
    BY <1>14, <1>a, <1>b, <1>c, <1>d, <1>e DEF Release, Keeps, TypeInv,
       TypeOK, Stages, Persisting, Writing, Modes
  <2>2. LeaseInv'
    BY <1>14, <1>a, <1>e, <1>f DEF Release, Keeps, LeaseInv, HoldsWriter,
       Persisting, Writing
  <2>3. BaseInv'
    BY <1>14, <1>a, <1>b, <1>e DEF Release, Keeps, BaseInv, LeaseInv,
       HoldsWriter, Replacing, Persisting, Writing
  <2>4. PairInv'
    BY <1>14, <1>a, <1>c, <1>d, <1>e DEF Release, Keeps, PairInv, Secured,
       SyncStage, Modes
  <2>5. ReportedPairStands'
    BY <1>14, <1>a, <1>d, <1>e, <1>f DEF Release, Keeps, ReportedPairStands,
       BaseInv
  <2> QED
    BY <2>1, <2>2, <2>3, <2>4, <2>5 DEF PersistInv
<1>15. ASSUME NEW c \in Coordinators, End(c)
      PROVE  PersistInv'
  <2>1. TypeInv'
    <3>1. Unseen \in Views
      BY <1>15, <1>f DEF Unseen, Views
    <3>2. base' \in [Coordinators -> Views]
      BY <1>15, <1>b, <3>1 DEF End, Exits
    <3>3. \A k \in Coordinators : base'[k].files \subseteq Runs \X Modes
      BY <1>15, <3>2 DEF Views
    <3>4. pc' \in [Coordinators -> Stages]
      BY <1>15, <1>a DEF End, Exits, Stages, Persisting, Writing
    <3>5. result' \in [Coordinators -> {"none", "failed", "committed"}]
      BY <1>15, <1>e DEF End, Exits, TypeInv, TypeOK
    <3>6. runLease' \in [Runs -> Coordinators \cup {None}]
      BY <1>15, <1>e DEF End, TypeInv, TypeOK
    <3> QED
      BY <1>15, <3>1, <3>2, <3>3, <3>4, <3>5, <3>6, <1>e DEF End, TypeInv, TypeOK
  <2>2. LeaseInv'
    BY <1>15, <1>a, <1>e, <1>f DEF End, Exits, LeaseInv, HoldsWriter,
       Persisting, Writing
  <2>3. BaseInv'
    BY <1>15, <1>a, <1>b, <1>e DEF End, Exits, BaseInv, LeaseInv,
       HoldsWriter, Replacing, Persisting, Writing
  <2>4. PairInv'
    BY <1>15, <1>a, <1>c, <1>d, <1>e DEF End, Exits, PairInv, Secured,
       SyncStage, Modes
  <2>5. ReportedPairStands'
    BY <1>15, <1>a, <1>d, <1>e, <1>f DEF End, Exits, ReportedPairStands,
       BaseInv
  <2> QED
    BY <2>1, <2>2, <2>3, <2>4, <2>5 DEF PersistInv
<1>16. ASSUME NEW c \in Coordinators, Killed(c)
      PROVE  PersistInv'
  <2>1. TypeInv'
    <3>1. Unseen \in Views
      BY <1>16, <1>f DEF Unseen, Views
    <3>2. base' \in [Coordinators -> Views]
      BY <1>16, <1>b, <3>1 DEF Killed, Exits
    <3>3. \A k \in Coordinators : base'[k].files \subseteq Runs \X Modes
      BY <1>16, <3>2 DEF Views
    <3>4. pc' \in [Coordinators -> Stages]
      BY <1>16, <1>a DEF Killed, Exits, Stages, Persisting, Writing
    <3>5. result' \in [Coordinators -> {"none", "failed", "committed"}]
      BY <1>16, <1>e DEF Killed, Exits, TypeInv, TypeOK
    <3>6. runLease' \in [Runs -> Coordinators \cup {None}]
      BY <1>16, <1>e DEF Killed, TypeInv, TypeOK
    <3>7. used' \in [{"starts", "kills", "losses"} -> Nat]
      BY <1>16, <1>e DEF Killed, TypeInv, TypeOK
    <3>8. litter' \in Nat
      BY <1>16, <1>e DEF Killed, TypeInv, TypeOK
    <3>9. writer' \in Coordinators \cup {None}
      BY <1>16, <1>e DEF Killed, TypeInv, TypeOK
    <3> QED
      BY <1>16, <3>1, <3>2, <3>3, <3>4, <3>5, <3>6, <3>7, <3>8, <3>9, <1>e DEF
         Killed, TypeInv, TypeOK
  <2>2. LeaseInv'
    BY <1>16, <1>a, <1>e, <1>f DEF Killed, Exits, LeaseInv, HoldsWriter,
       Persisting, Writing
  <2>3. BaseInv'
    BY <1>16, <1>a, <1>b, <1>e DEF Killed, Exits, BaseInv, LeaseInv,
       HoldsWriter, Replacing, Persisting, Writing
  <2>4. PairInv'
    BY <1>16, <1>a, <1>c, <1>d, <1>e DEF Killed, Exits, PairInv, Secured,
       SyncStage, Modes
  <2>5. ReportedPairStands'
    BY <1>16, <1>a, <1>d, <1>e, <1>f DEF Killed, Exits, ReportedPairStands,
       BaseInv
  <2> QED
    BY <2>1, <2>2, <2>3, <2>4, <2>5 DEF PersistInv
<1>17. CASE PowerFails
  <2>1. TypeInv'
    <3>1. Unseen \in Views
      BY <1>17, <1>f DEF Unseen, Views
    <3>2. base' \in [Coordinators -> Views]
      BY <1>17, <3>1 DEF PowerFails
    <3>3. \A k \in Coordinators : base'[k].files \subseteq Runs \X Modes
      BY <1>17, <3>2 DEF Views
    <3>4. file' \in [Runs -> [Modes -> {"absent", "written", "durable"}]]
      BY <1>17, <1>c DEF PowerFails, Durable, Modes
    <3>5. used' \in [{"starts", "kills", "losses"} -> Nat]
      BY <1>17, <1>e DEF PowerFails, TypeInv, TypeOK
    <3>6. pc' \in [Coordinators -> Stages]
      BY <1>17, <1>a DEF PowerFails, Stages
    <3>7. result' \in [Coordinators -> {"none", "failed", "committed"}]
      BY <1>17, <1>a DEF PowerFails
    <3>8. runLease' \in [Runs -> Coordinators \cup {None}]
      BY <1>17, <1>a DEF PowerFails
    <3> QED
      BY <1>17, <3>1, <3>2, <3>3, <3>4, <3>5, <3>6, <3>7, <3>8, <1>e DEF
         PowerFails, TypeInv, TypeOK
  <2>2. LeaseInv'
    BY <1>17, <1>a, <1>e, <1>f DEF PowerFails, LeaseInv, HoldsWriter,
       Persisting, Writing
  <2>3. BaseInv'
    BY <1>17, <1>a, <1>b, <1>e DEF PowerFails, BaseInv, LeaseInv,
       HoldsWriter, Replacing, Persisting, Writing
  <2>4. PairInv'
    <3>1. ASSUME NEW r \in Runs, NEW k \in Modes, Secured(r, k)
          PROVE  Secured(r, k)'
      BY <1>17, <3>1, <1>c, <1>d DEF PowerFails, Durable, Secured, Modes
    <3>2. (pointer \in Runs \cup {None}) /\ (saved \in Runs \cup {None})
      BY <1>e DEF TypeInv, TypeOK
    <3>3. pointer' \in {pointer, saved} /\ saved' = pointer'
          /\ \A c \in Coordinators : pc'[c] = "down"
      BY <1>17 DEF PowerFails
    <3> QED
      BY <3>1, <3>2, <3>3, <1>e DEF PairInv, SyncStage, Modes
  <2>5. ReportedPairStands'
    BY <1>17, <1>a, <1>d, <1>e, <1>f DEF PowerFails, ReportedPairStands,
       BaseInv
  <2> QED
    BY <2>1, <2>2, <2>3, <2>4, <2>5 DEF PersistInv
<1>18. CASE Edit
  <2>1. TypeInv'
    <3>1. edits' \in Nat
      BY <1>18, <1>e DEF Edit, TypeInv, TypeOK
    <3> QED
      BY <1>18, <3>1, <1>e DEF Edit, TypeInv, TypeOK
  <2>2. LeaseInv'
    BY <1>18, <1>a, <1>e, <1>f DEF Edit, LeaseInv, HoldsWriter, Persisting,
       Writing
  <2>3. BaseInv'
    BY <1>18, <1>a, <1>b, <1>e DEF Edit, BaseInv, LeaseInv, HoldsWriter,
       Replacing, Persisting, Writing
  <2>4. PairInv'
    BY <1>18, <1>a, <1>c, <1>d, <1>e DEF Edit, PairInv, Secured, SyncStage,
       Modes
  <2>5. ReportedPairStands'
    BY <1>18, <1>a, <1>d, <1>e, <1>f DEF Edit, ReportedPairStands, BaseInv
  <2> QED
    BY <2>1, <2>2, <2>3, <2>4, <2>5 DEF PersistInv
<1>19. CASE UNCHANGED vars
  <2>1. TypeInv'
    BY <1>19, <1>a, <1>b, <1>c, <1>d, <1>e DEF vars, TypeInv, TypeOK, Stages,
       Persisting, Writing, Modes
  <2>2. LeaseInv'
    BY <1>19, <1>a, <1>e, <1>f DEF vars, LeaseInv, HoldsWriter, Persisting,
       Writing
  <2>3. BaseInv'
    BY <1>19, <1>a, <1>b, <1>e DEF vars, BaseInv, LeaseInv, HoldsWriter,
       Replacing, Persisting, Writing
  <2>4. PairInv'
    BY <1>19, <1>a, <1>c, <1>d, <1>e DEF vars, PairInv, Secured, SyncStage,
       Modes
  <2>5. ReportedPairStands'
    BY <1>19, <1>a, <1>d, <1>e, <1>f DEF vars, ReportedPairStands, BaseInv
  <2> QED
    BY <2>1, <2>2, <2>3, <2>4, <2>5 DEF PersistInv
<1> QED
  BY <1>1, <1>2, <1>3, <1>4, <1>5, <1>6, <1>7, <1>8, <1>9, <1>10, <1>11,
     <1>12, <1>13, <1>14, <1>15, <1>16, <1>17, <1>18, <1>19 DEF Next, Steps,
     Persist

-----------------------------------------------------------------------------
(* A pointer that names a pair whose files are there, or was taken over,   *)
(* is whole.                                                               *)
LEMMA SecuredPairIsWhole == PersistInv => PointerIsWhole
<1> SUFFICES ASSUME PersistInv, pointer # None, pointer \notin inherited
             PROVE  Resolves(pointer)
  BY DEF PointerIsWhole
<1>1. pointer \in Runs
  BY DEF PersistInv, TypeInv, TypeOK
<1>2. \A m \in Modes : file[pointer][m] = "durable"
  BY DEF PersistInv, PairInv, Secured
<1> QED
  BY <1>1, <1>2 DEF Resolves, PairOf, Present

(* A step that moves the pointer is the replacement by the holder of the   *)
(* writer lease, over what it saw when it began, or a power failure that   *)
(* brings back what was saved.                                             *)
LEMMA PointerMoves ==
  ASSUME PersistInv, [Next]_vars, pointer' # pointer
  PROVE  \/ \E c \in Coordinators :
              At(c, "point") /\ base[c].pair = pointer /\ writer = c
         \/ pointer' = saved
<1>1. CASE PowerFails
  BY <1>1 DEF PowerFails
<1>2. CASE \E c \in Coordinators : Point(c)
  <2>1. PICK c \in Coordinators : At(c, "point")
    BY <1>2 DEF Point
  <2>2. base[c].pair = pointer /\ writer = c
    BY <2>1 DEF PersistInv, BaseInv, LeaseInv, HoldsWriter, Replacing,
                Persisting, At
  <2> QED
    BY <2>1, <2>2
<1>3. CASE ~PowerFails /\ ~(\E c \in Coordinators : Point(c))
  BY <1>3 DEF Next, Steps, Persist, Start, AcquireRun, CaptureGuard,
              AcquireWriter, Work, Check, Reuse, Write, Sync, Settle,
              ReadBack, Verify, Release, End, Killed, Edit, Keeps, vars,
              repository
<1> QED
  BY <1>1, <1>2, <1>3

(* PersistInv holds in every reachable state.                              *)
THEOREM PersistInvariant == Spec => []PersistInv
<1> QED
  BY InitPersistInv, StepPersistInv, PTL DEF Spec

(* The variables have their types.                                         *)
THEOREM PersistenceTypeCorrect == Spec => []TypeOK
<1>1. PersistInv => TypeOK
  BY DEF PersistInv, TypeInv
<1> QED
  BY PersistInvariant, <1>1, PTL

(* Readers that follow the commit pointer find a complete pair, whoever is *)
(* killed and whenever the power fails; the exception is a pair taken over *)
(* before it was durable.                                                  *)
THEOREM PointerWhole == Spec => []PointerIsWhole
<1> QED
  BY PersistInvariant, SecuredPairIsWhole, PTL

(* Results that were reported as committed stay the ones that count, also  *)
(* after a power failure, until another coordinator replaces them.         *)
THEOREM ReportedStand == Spec => []ReportedPairStands
<1>1. PersistInv => ReportedPairStands
  BY DEF PersistInv
<1> QED
  BY PersistInvariant, <1>1, PTL

(* The pointer moves only over results that the holder of the writer lease *)
(* saw when it began, or back to what was saved when the power fails.      *)
THEOREM NothingUnseenReplaced == Spec => NothingReplacedUnseen
<1>1. PersistInv /\ [Next]_vars =>
        [pointer' # pointer =>
           \/ \E c \in Coordinators :
                At(c, "point") /\ base[c].pair = pointer /\ writer = c
           \/ pointer' = saved]_vars
  BY PointerMoves
<1> QED
  BY PersistInvariant, <1>1, PTL DEF Spec, NothingReplacedUnseen
=============================================================================
