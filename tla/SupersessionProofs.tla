------------------------ MODULE SupersessionProofs ------------------------
(***************************************************************************)
(* Theorems about Supersession, for any number of runs, finishes and       *)
(* readers: successors exist, verdicts of a cycle are right, and finishes  *)
(* that do not overlap make no cycle.                                      *)
(***************************************************************************)
EXTENDS Supersession, TLAPS

USE DEF Calls

(* The successors as they will be when finish c commits.                   *)
Asked(c) == [succ EXCEPT ![run[c]] = by[c]]
Active(c) == pc[c] \notin {"idle", "done"}

(* Which calls are at which stage, and what they know there.               *)
StagesFit ==
  /\ \A c \in Finishers : pc[c] \notin {"next"}
  /\ \A c \in Readers : pc[c] \notin {"lock", "commit"}
  /\ \A c \in Finishers : Active(c) => run[c] \in Runs
  /\ \A c \in Calls : out[c] # "none" => pc[c] = "done"
  /\ \A c \in Finishers : out[c] = "cycle" => run[c] \in Runs

TypeInv == TypeOK /\ StagesFit

(* A successor was there when its record named it, and records stay.       *)
SuccessorsExist ==
  \A r \in Runs : succ[r] # None =>
    status[r] = "final" /\ status[succ[r]] # "absent"
WalksOnRecords ==
  /\ \A c \in Readers :
       /\ Walking(c) => status[at[c]] # "absent"
       /\ \A r \in todo[c] : status[r] # "absent"
  /\ \A c \in Finishers :
       /\ Walking(c) =>
            by[c] \in Runs /\ (at[c] = by[c] \/ status[by[c]] # "absent")
       /\ pc[c] \in {"read", "commit"} /\ by[c] # None =>
            status[by[c]] # "absent"
MissesInv ==
  SuccessorsExist /\ WalksOnRecords /\ NoReaderMissesASuccessor

(* The lock of a run: what it guards stays a draft.                        *)
LockInv ==
  /\ \A c \in Finishers : HoldsRunLock(c) => status[run[c]] = "draft"
  /\ \A c, d \in Finishers :
       HoldsRunLock(c) /\ HoldsRunLock(d) /\ run[c] = run[d] => c = d

(* The chain is the way from where the walk began to where it is; for a    *)
(* finish it begins with the record as it shall become.                    *)
ChainOf(c) == IF c \in Finishers THEN Asked(c) ELSE succ
WalkInv ==
  \A c \in Calls : Walking(c) =>
    /\ \A r \in chain[c] : ChainOf(c)[r] \in chain[c] \cup {at[c]}
    /\ c \in Finishers => run[c] \in chain[c]
    /\ pc[c] = "read" => at[c] \notin chain[c]

(* While finishes come one at a time there is no cycle, and whatever is    *)
(* closed under what a finish asks for holds all that its walk has come    *)
(* to; so its walk does not end on such a set.                             *)
Together(c) == \A S \in SUBSET Runs : Closed(S, Asked(c)) => at[c] \in S
AloneInv ==
  ~overlap =>
    /\ ~HasCycle(succ)
    /\ \A c, d \in Finishers : Active(c) /\ Active(d) => c = d
    /\ \A c \in Finishers :
         /\ Walking(c) => Together(c)
         /\ pc[c] = "commit" => ~HasCycle(Asked(c))

SupInv ==
  /\ TypeInv /\ MissesInv /\ LockInv /\ WalkInv /\ CycleVerdictsAreRight
  /\ AloneInv
-----------------------------------------------------------------------------
(* What a step of one call is to the others, and to the store.             *)
OthersStay(c) ==
  \A d \in Calls \ {c} :
    /\ pc'[d] = pc[d] /\ out'[d] = out[d]
    /\ run'[d] = run[d] /\ by'[d] = by[d]
    /\ todo'[d] = todo[d] /\ chain'[d] = chain[d] /\ at'[d] = at[d]

(* A call changes no other call.                                           *)
LEMMA StepsAreOwn ==
  ASSUME TypeInv, NEW c \in Calls, CallStep(c)
  PROVE  OthersStay(c)
<1>1. /\ pc \in [Calls -> Stages] /\ DOMAIN out = Calls
      /\ DOMAIN run = Calls /\ DOMAIN by = Calls /\ DOMAIN todo = Calls
      /\ DOMAIN chain = Calls /\ DOMAIN at = Calls
  BY DEF TypeInv, TypeOK
<1> SUFFICES ASSUME NEW d \in Calls \ {c}
             PROVE  /\ pc'[d] = pc[d] /\ out'[d] = out[d]
                    /\ run'[d] = run[d] /\ by'[d] = by[d]
                    /\ todo'[d] = todo[d] /\ chain'[d] = chain[d]
                    /\ at'[d] = at[d]
  BY DEF OthersStay
<1>2. CASE BeginFinish(c)
  BY <1>1, <1>2 DEF BeginFinish, Goto, walk
<1>3. CASE TakeLock(c)
  BY <1>1, <1>3 DEF TakeLock, Goto, Return, Arrive
<1>4. CASE Commit(c)
  BY <1>1, <1>4 DEF Commit, Return, Arrive
<1>5. CASE BeginRead(c)
  BY <1>1, <1>5 DEF BeginRead, Goto, walk
<1>6. CASE NextRecord(c)
  BY <1>1, <1>6 DEF NextRecord, Goto, Return, Arrive
<1>7. CASE Look(c)
  BY <1>1, <1>7 DEF Look, Goto, Return, Arrive
<1>8. CASE ReadTarget(c)
  BY <1>1, <1>8 DEF ReadTarget, Goto, Return, Arrive
<1> QED
  BY <1>2, <1>3, <1>4, <1>5, <1>6, <1>7, <1>8
  DEF CallStep, FinishStep, ReadStep

-----------------------------------------------------------------------------
(* Types.  Nobody has begun at first.                                      *)
LEMMA TypeInit == Init => TypeInv
<1> SUFFICES ASSUME Init PROVE TypeInv
  OBVIOUS
<1>1. status \in [Runs -> {"absent", "draft", "final"}]
  BY DEF Init
<1>2. TypeOK
  BY <1>1 DEF Init, TypeOK, Stages
<1>3. StagesFit
  BY DEF Init, StagesFit, Active
<1> QED
  BY <1>2, <1>3 DEF TypeInv

(* Each action keeps the types.                                            *)
LEMMA TypeStep == TypeInv /\ [Next]_vars => TypeInv'
<1> SUFFICES ASSUME TypeInv, [Next]_vars
             PROVE  TypeInv'
  OBVIOUS
<1>1. CASE UNCHANGED vars
  BY <1>1 DEF TypeInv, TypeOK, StagesFit, Active, vars, store, walk
<1>2. ASSUME NEW r \in Runs, Create(r) PROVE TypeInv'
  BY <1>2 DEF Create, TypeInv, TypeOK, StagesFit, Active, walk
<1>3. ASSUME NEW c \in Calls, CallStep(c) PROVE TypeInv'
  <2> USE FinishersAreNotReaders DEF TypeInv, TypeOK, StagesFit, Active
  <2>1. CASE c \in Finishers /\ BeginFinish(c)
    BY <2>1 DEF BeginFinish, Goto, walk, store, Stages
  <2>2. CASE c \in Finishers /\ TakeLock(c)
    <3>1. run[c] \in Runs
      BY <2>2 DEF TakeLock
    <3> QED
      BY <3>1, <2>2 DEF TakeLock, Goto, Return, Arrive, store, Stages
  <2>3. CASE c \in Finishers /\ Commit(c)
    <3>1. run[c] \in Runs
      BY <2>3 DEF Commit
    <3> QED
      BY <3>1, <2>3 DEF Commit, Return, Arrive, store, Stages
  <2>4. CASE c \in Readers /\ BeginRead(c)
    BY <2>4 DEF BeginRead, Goto, walk, store, Stages
  <2>5. CASE c \in Readers /\ NextRecord(c)
    BY <2>5 DEF NextRecord, Goto, Return, Arrive, store, Stages
  <2>6. CASE Look(c)
    <3>1. at[c] \in Runs /\ (c \in Finishers => run[c] \in Runs)
      BY <2>6 DEF Look
    <3>2. Entry(at[c]) \in Entries
      BY <3>1 DEF Entry, Entries
    <3> QED
      BY <3>1, <3>2, <2>6 DEF Look, Goto, Return, Arrive, store, Stages
  <2>7. CASE ReadTarget(c)
    <3>1. at[c] \in Runs /\ succ[at[c]] \in Runs \cup {None}
      BY <2>7 DEF ReadTarget
    <3> QED
      BY <3>1, <2>7 DEF ReadTarget, Goto, Return, Arrive, store, Stages
  <2> QED
    BY <1>3, <2>1, <2>2, <2>3, <2>4, <2>5, <2>6, <2>7
    DEF CallStep, FinishStep, ReadStep
<1> QED
  BY <1>1, <1>2, <1>3 DEF Next, Terminated

(* Every variable keeps its type, for any runs and calls.                  *)
THEOREM SuccessionTypeCorrect == Spec => []TypeOK
<1>1. TypeInv => TypeOK
  BY DEF TypeInv
<1> QED
  BY <1>1, TypeInit, TypeStep, PTL DEF Spec

-----------------------------------------------------------------------------
(* Records and the locks of their runs.                                    *)

(* But for a commit, a call leaves the store as it is.                     *)
LEMMA StoreStays ==
  ASSUME TypeInv, NEW c \in Calls, CallStep(c)
  PROVE  \/ UNCHANGED store
         \/ /\ c \in Finishers /\ Commit(c)
            /\ status' = [status EXCEPT ![run[c]] = "final"]
            /\ succ' = [succ EXCEPT ![run[c]] = by[c]]
BY DEF CallStep, FinishStep, ReadStep, BeginFinish, TakeLock, Commit,
       BeginRead, NextRecord, Look, ReadTarget

(* A run that a finish holds the lock of is a draft until that finish      *)
(* commits, and only its own.                                              *)
LEMMA LockStep ==
  ASSUME TypeInv, LockInv, [Next]_vars
  PROVE  LockInv'
<1>1. CASE UNCHANGED vars
  BY <1>1 DEF LockInv, HoldsRunLock, Walking, vars, store
<1>2. ASSUME NEW r \in Runs, Create(r) PROVE LockInv'
  BY <1>2 DEF Create, LockInv, HoldsRunLock, Walking, TypeInv, TypeOK,
              StagesFit, Active
<1>3. ASSUME NEW c \in Calls, CallStep(c) PROVE LockInv'
  <2>1. OthersStay(c)
    BY <1>3, StepsAreOwn
  <2>2. ASSUME NEW d \in Finishers, d # c
        PROVE  /\ HoldsRunLock(d)' <=> HoldsRunLock(d)
               /\ run'[d] = run[d]
    BY <2>1, <2>2 DEF OthersStay, HoldsRunLock, Walking
  <2>3. ASSUME c \in Finishers, HoldsRunLock(c)'
        PROVE  /\ UNCHANGED <<store, run>>
               /\ \/ HoldsRunLock(c)
                  \/ RunLockFree(c) /\ status[run[c]] = "draft"
    <3> USE FinishersAreNotReaders
        DEF HoldsRunLock, Walking, TypeInv, TypeOK, StagesFit
    <3>1. CASE BeginFinish(c)
      BY <2>3, <3>1 DEF BeginFinish, Goto
    <3>2. CASE TakeLock(c)
      BY <2>3, <3>2 DEF TakeLock, Return
    <3>3. CASE Commit(c)
      BY <2>3, <3>3 DEF Commit, Return
    <3>4. CASE Look(c)
      BY <2>3, <3>4 DEF Look
    <3>5. CASE ReadTarget(c)
      BY <2>3, <3>5 DEF ReadTarget
    <3> QED
      BY <1>3, <2>3, <3>1, <3>2, <3>3, <3>4, <3>5
      DEF CallStep, FinishStep
  <2>4. ASSUME NEW d \in Finishers, HoldsRunLock(d)'
        PROVE  status'[run'[d]] = "draft"
    <3>1. CASE d = c
      BY <2>3, <2>4, <3>1 DEF LockInv, store
    <3>2. CASE d # c
      <4>1. HoldsRunLock(d) /\ run'[d] = run[d] /\ status[run[d]] = "draft"
        BY <2>2, <2>4, <3>2 DEF LockInv
      <4>2. CASE UNCHANGED store
        BY <4>1, <4>2 DEF store
      <4>3. CASE c \in Finishers /\ Commit(c)
                   /\ status' = [status EXCEPT ![run[c]] = "final"]
        <5>1. HoldsRunLock(c)
          BY <4>3 DEF Commit, HoldsRunLock
        <5>2. run[c] # run[d]
          BY <5>1, <4>1, <4>3, <3>2 DEF LockInv
        <5> QED
          BY <5>2, <4>1, <4>3 DEF TypeInv, TypeOK
      <4> QED
        BY <4>2, <4>3, <1>3, StoreStays
    <3> QED
      BY <3>1, <3>2
  <2>5. ASSUME NEW d \in Finishers, NEW e \in Finishers, HoldsRunLock(d)',
               HoldsRunLock(e)', run'[d] = run'[e]
        PROVE  d = e
    <3>1. CASE d # c /\ e # c
      BY <3>1, <2>2, <2>5 DEF LockInv
    <3>2. ASSUME NEW x \in Finishers, x # c, HoldsRunLock(x)',
                 c \in Finishers, HoldsRunLock(c)', run'[x] = run'[c]
          PROVE  FALSE
      BY <2>2, <2>3, <3>2 DEF LockInv, RunLockFree
    <3> QED
      BY <3>1, <3>2, <2>5
  <2> QED
    BY <2>4, <2>5 DEF LockInv
<1> QED
  BY <1>1, <1>2, <1>3 DEF Next, Terminated

(* Records do not go away, and each successor is one.                      *)
LEMMA MissesStep ==
  ASSUME TypeInv, LockInv, MissesInv, [Next]_vars
  PROVE  MissesInv'
<1>1. CASE UNCHANGED vars
  BY <1>1 DEF MissesInv, SuccessorsExist, WalksOnRecords,
              NoReaderMissesASuccessor, Walking, vars, store, walk
<1>2. ASSUME NEW r \in Runs, Create(r) PROVE MissesInv'
  BY <1>2, NoneIsNoRun
  DEF Create, MissesInv, SuccessorsExist, WalksOnRecords,
      NoReaderMissesASuccessor, Walking, TypeInv, TypeOK, walk
<1>3. ASSUME NEW c \in Calls, CallStep(c) PROVE MissesInv'
  <2>1. OthersStay(c) /\ TypeInv'
    BY <1>3, StepsAreOwn, TypeStep DEF Next
  <2>2. \A r \in Runs : status[r] # "absent" => status'[r] # "absent"
    BY <1>3, StoreStays DEF TypeInv, TypeOK, store
  <2>3. SuccessorsExist'
    <3>1. CASE UNCHANGED store
      BY <3>1 DEF MissesInv, SuccessorsExist, store
    <3>2. CASE /\ c \in Finishers /\ Commit(c)
               /\ status' = [status EXCEPT ![run[c]] = "final"]
               /\ succ' = [succ EXCEPT ![run[c]] = by[c]]
      <4>1. by[c] # None => by[c] \in Runs /\ status[by[c]] # "absent"
        BY <3>2 DEF Commit, MissesInv, WalksOnRecords, TypeInv, TypeOK
      <4> QED
        BY <3>2, <4>1, <2>2
        DEF MissesInv, SuccessorsExist, TypeInv, TypeOK
    <3> QED
      BY <3>1, <3>2, <1>3, StoreStays
  <2>4. ASSUME NEW d \in Readers
        PROVE  /\ Walking(d)' => status'[at'[d]] # "absent"
               /\ \A r \in todo'[d] : status'[r] # "absent"
               /\ out'[d] # "missing"
    <3>1. /\ Walking(d) => at[d] \in Runs /\ status[at[d]] # "absent"
          /\ todo[d] \subseteq Runs
          /\ \A r \in todo[d] : status[r] # "absent"
          /\ out[d] # "missing"
      BY DEF MissesInv, WalksOnRecords, NoReaderMissesASuccessor, TypeInv,
             TypeOK, Walking
    <3>2. CASE d # c
      <4>1. /\ Walking(d)' <=> Walking(d)
            /\ at'[d] = at[d] /\ todo'[d] = todo[d] /\ out'[d] = out[d]
        BY <2>1, <3>2 DEF OthersStay, Walking
      <4> QED
        BY <4>1, <3>1, <2>2
    <3>3. CASE d = c
      <4> USE DEF TypeInv, TypeOK, Walking
      <4>1. CASE BeginRead(c)
        BY <3>1, <3>3, <4>1 DEF BeginRead, Goto, store
      <4>2. CASE NextRecord(c)
        BY <3>1, <3>3, <4>2 DEF NextRecord, Goto, Return, Arrive, store
      <4>3. CASE Look(c)
        BY <3>1, <3>3, <4>3 DEF Look, Goto, Return, Arrive, store
      <4>4. CASE ReadTarget(c)
        <5>1. at[c] \in Runs
          BY <3>1, <3>3, <4>4 DEF ReadTarget
        <5>2. succ[at[c]] # None => status[succ[at[c]]] # "absent"
          BY <5>1 DEF MissesInv, SuccessorsExist
        <5> QED
          BY <3>1, <3>3, <4>4, <5>1, <5>2
          DEF ReadTarget, Goto, Return, Arrive, store
      <4> QED
        BY <1>3, <3>3, <4>1, <4>2, <4>3, <4>4, FinishersAreNotReaders
        DEF CallStep, ReadStep
    <3> QED
      BY <3>2, <3>3
  <2>5. ASSUME NEW d \in Finishers
        PROVE  /\ Walking(d)' =>
                    /\ by'[d] \in Runs
                    /\ at'[d] = by'[d] \/ status'[by'[d]] # "absent"
               /\ pc'[d] \in {"read", "commit"} /\ by'[d] # None =>
                    status'[by'[d]] # "absent"
    <3>1. /\ Walking(d) =>
               /\ by[d] \in Runs
               /\ at[d] = by[d] \/ status[by[d]] # "absent"
          /\ pc[d] \in {"read", "commit"} /\ by[d] # None =>
               status[by[d]] # "absent"
          /\ by[d] \in Runs \cup {None}
      BY DEF MissesInv, WalksOnRecords, TypeInv, TypeOK
    <3>2. CASE d # c
      <4>1. /\ Walking(d)' <=> Walking(d)
            /\ at'[d] = at[d] /\ by'[d] = by[d] /\ pc'[d] = pc[d]
        BY <2>1, <3>2 DEF OthersStay, Walking
      <4> QED
        BY <4>1, <3>1, <2>2
    <3>3. CASE d = c
      <4> USE DEF TypeInv, TypeOK, Walking
      <4>1. CASE BeginFinish(c)
        BY <3>3, <4>1 DEF BeginFinish, Goto
      <4>2. CASE TakeLock(c)
        BY <3>3, <4>2 DEF TakeLock, Goto, Return, Arrive
      <4>3. CASE Commit(c)
        BY <3>3, <4>3 DEF Commit, Return
      <4>4. CASE Look(c)
        BY <3>1, <3>3, <4>4 DEF Look, Goto, Return, Arrive, store
      <4>5. CASE ReadTarget(c)
        BY <3>1, <3>3, <4>5, NoneIsNoRun
        DEF ReadTarget, Goto, Return, Arrive, store
      <4> QED
        BY <1>3, <3>3, <4>1, <4>2, <4>3, <4>4, <4>5, FinishersAreNotReaders
        DEF CallStep, FinishStep
    <3> QED
      BY <3>2, <3>3
  <2> QED
    BY <2>3, <2>4, <2>5
    DEF MissesInv, WalksOnRecords, NoReaderMissesASuccessor
<1> QED
  BY <1>1, <1>2, <1>3 DEF Next, Terminated

-----------------------------------------------------------------------------
(* Chains and cycles.                                                      *)

(* A record with a successor is final, and so keeps it.                    *)
LEMMA NamedStays ==
  ASSUME TypeInv, LockInv, SuccessorsExist, NEW c \in Calls, CallStep(c),
         NEW x \in Runs, succ[x] \in Runs
  PROVE  succ'[x] = succ[x]
<1>1. CASE UNCHANGED store
  BY <1>1 DEF store
<1>2. CASE /\ c \in Finishers /\ Commit(c)
           /\ succ' = [succ EXCEPT ![run[c]] = by[c]]
  <2>1. HoldsRunLock(c)
    BY <1>2 DEF Commit, HoldsRunLock
  <2>2. status[run[c]] = "draft"
    BY <1>2, <2>1 DEF LockInv
  <2>3. status[x] = "final"
    BY NoneIsNoRun DEF SuccessorsExist
  <2> QED
    BY <1>2, <2>2, <2>3 DEF TypeInv, TypeOK
<1> QED
  BY <1>1, <1>2, StoreStays

(* The same of what a finish asks for, which replaces the record of its    *)
(* own run whatever becomes of it.                                         *)
LEMMA AskedStays ==
  ASSUME TypeInv, LockInv, SuccessorsExist, NEW c \in Calls, CallStep(c),
         NEW d \in Finishers, run'[d] = run[d], by'[d] = by[d],
         NEW x \in Runs, Asked(d)[x] \in Runs
  PROVE  Asked(d)'[x] = Asked(d)[x]
<1>1. DOMAIN succ = Runs /\ DOMAIN succ' = Runs
  BY TypeStep DEF TypeInv, TypeOK, Next
<1>2. CASE x = run[d]
  BY <1>1, <1>2 DEF Asked
<1>3. CASE x # run[d]
  <2>1. Asked(d)[x] = succ[x] /\ Asked(d)'[x] = succ'[x]
    BY <1>1, <1>3 DEF Asked
  <2> QED
    BY <2>1, NamedStays
<1> QED
  BY <1>2, <1>3

(* A cycle is there for good.                                              *)
LEMMA CyclesStay ==
  ASSUME TypeInv, LockInv, SuccessorsExist, NEW c \in Calls, CallStep(c),
         HasCycle(succ)
  PROVE  HasCycle(succ)'
<1>1. PICK S \in SUBSET Runs : Closed(S, succ)
  BY DEF HasCycle
<1>2. \A r \in S : succ'[r] = succ[r]
  BY <1>1, NamedStays DEF Closed
<1> QED
  BY <1>1, <1>2 DEF HasCycle, Closed

(* The same of a cycle that a finish asks for.                             *)
LEMMA AskedCyclesStay ==
  ASSUME TypeInv, LockInv, SuccessorsExist, NEW c \in Calls, CallStep(c),
         NEW d \in Finishers, run'[d] = run[d], by'[d] = by[d],
         HasCycle(Asked(d))
  PROVE  HasCycle(Asked(d))'
<1>1. PICK S \in SUBSET Runs : Closed(S, Asked(d))
  BY DEF HasCycle
<1>2. \A r \in S : Asked(d)'[r] = Asked(d)[r]
  BY <1>1, AskedStays DEF Closed
<1> QED
  BY <1>1, <1>2 DEF HasCycle, Closed

(* Whatever other finishes commit, the chain leads where it led, and each  *)
(* step of the walk makes it one record longer.                            *)
LEMMA WalkStep ==
  ASSUME TypeInv, LockInv, MissesInv, WalkInv, [Next]_vars
  PROVE  WalkInv'
<1>1. CASE UNCHANGED vars
  BY <1>1 DEF WalkInv, ChainOf, Asked, Walking, vars, store, walk
<1>2. ASSUME NEW r \in Runs, Create(r) PROVE WalkInv'
  BY <1>2 DEF Create, WalkInv, ChainOf, Asked, Walking, walk
<1>3. ASSUME NEW c \in Calls, CallStep(c) PROVE WalkInv'
  <2>1. OthersStay(c) /\ SuccessorsExist
    BY <1>3, StepsAreOwn DEF MissesInv
  <2>2. ASSUME NEW d \in Calls, Walking(d)'
        PROVE  /\ \A r \in chain'[d] :
                     ChainOf(d)'[r] \in chain'[d] \cup {at'[d]}
               /\ d \in Finishers => run'[d] \in chain'[d]
               /\ pc'[d] = "read" => at'[d] \notin chain'[d]
    <3>1. Walking(d) =>
            /\ at[d] \in Runs /\ chain[d] \subseteq Runs
            /\ \A r \in chain[d] : ChainOf(d)[r] \in chain[d] \cup {at[d]}
            /\ d \in Finishers => run[d] \in chain[d]
            /\ pc[d] = "read" => at[d] \notin chain[d]
      BY DEF WalkInv, TypeInv, TypeOK, Walking
    <3>2. CASE d # c
      <4>1. /\ Walking(d) /\ pc'[d] = pc[d]
            /\ run'[d] = run[d] /\ by'[d] = by[d]
            /\ chain'[d] = chain[d] /\ at'[d] = at[d]
        BY <2>1, <2>2, <3>2 DEF OthersStay, Walking
      <4>2. ASSUME NEW r \in chain[d]
            PROVE  ChainOf(d)'[r] = ChainOf(d)[r]
        <5>1. r \in Runs /\ ChainOf(d)[r] \in Runs
          BY <3>1, <4>1, <4>2
        <5>2. CASE d \in Finishers
          BY <1>3, <2>1, <4>1, <5>1, <5>2, AskedStays DEF ChainOf
        <5>3. CASE d \notin Finishers
          BY <1>3, <2>1, <5>1, <5>3, NamedStays DEF ChainOf
        <5> QED
          BY <5>2, <5>3
      <4> QED
        BY <3>1, <4>1, <4>2
    <3>3. CASE d = c
      <4> USE DEF Walking
      <4>1. CASE c \in Finishers /\ TakeLock(c)
        <5>1. /\ chain'[c] = {run[c]} /\ at'[c] = by[c] /\ pc'[c] = "look"
              /\ UNCHANGED <<succ, run, by>> /\ run[c] \in Runs
          BY <2>2, <3>3, <4>1
          DEF TakeLock, Goto, Return, Arrive, TypeInv, TypeOK, StagesFit,
              Active, store
        <5>2. ChainOf(c)'[run[c]] = by[c]
          BY <4>1, <5>1 DEF ChainOf, Asked, TypeInv, TypeOK
        <5> QED
          BY <3>3, <5>1, <5>2
      <4>2. CASE c \in Readers /\ NextRecord(c)
        BY <2>2, <3>3, <4>2, FinishersAreNotReaders
        DEF NextRecord, Goto, Return, Arrive, TypeInv, TypeOK
      <4>3. CASE Look(c)
        <5>1. /\ Walking(c) /\ at[c] \notin chain[c]
              /\ UNCHANGED <<succ, run, by, chain, at>>
          BY <2>2, <3>3, <4>3 DEF Look, Return, TypeInv, TypeOK, store
        <5> QED
          BY <3>1, <3>3, <5>1 DEF ChainOf, Asked
      <4>4. CASE ReadTarget(c)
        <5>1. /\ Walking(c) /\ pc[c] = "read" /\ pc'[c] = "look"
              /\ chain'[c] = chain[c] \cup {at[c]} /\ at'[c] = succ[at[c]]
              /\ UNCHANGED <<succ, run, by>>
          BY <2>2, <3>3, <4>4
          DEF ReadTarget, Goto, Return, Arrive, TypeInv, TypeOK, store
        <5>2. ChainOf(c)' = ChainOf(c)
          BY <5>1 DEF ChainOf, Asked
        <5>3. ChainOf(c)[at[c]] = succ[at[c]]
          BY <3>1, <3>3, <5>1 DEF ChainOf, Asked, TypeInv, TypeOK
        <5> QED
          BY <3>1, <3>3, <5>1, <5>2, <5>3
      <4>5. CASE BeginFinish(c) \/ Commit(c) \/ BeginRead(c)
        BY <2>2, <3>3, <4>5
        DEF BeginFinish, Commit, BeginRead, Goto, Return, TypeInv, TypeOK
      <4> QED
        BY <1>3, <4>1, <4>2, <4>3, <4>4, <4>5
        DEF CallStep, FinishStep, ReadStep
    <3> QED
      BY <3>2, <3>3
  <2> QED
    BY <2>2 DEF WalkInv
<1> QED
  BY <1>1, <1>2, <1>3 DEF Next, Terminated

(* A walk that comes back to its chain has found a cycle.                  *)
LEMMA VerdictsStep ==
  ASSUME TypeInv, LockInv, MissesInv, WalkInv, CycleVerdictsAreRight,
         [Next]_vars
  PROVE  CycleVerdictsAreRight'
<1> DEFINE Right(d) ==
      HasCycle(succ) \/ (d \in Finishers /\ HasCycle(Asked(d)))
<1>1. CycleVerdictsAreRight <=> \A d \in Calls : out[d] = "cycle" => Right(d)
  BY DEF CycleVerdictsAreRight, Asked
<1>2. CycleVerdictsAreRight'
        <=> \A d \in Calls : out'[d] = "cycle" => Right(d)'
  BY DEF CycleVerdictsAreRight, Asked
<1>3. CASE UNCHANGED vars
  BY <1>3 DEF CycleVerdictsAreRight, HasCycle, Closed, vars, store
<1>4. ASSUME NEW r \in Runs, Create(r) PROVE CycleVerdictsAreRight'
  BY <1>4 DEF Create, CycleVerdictsAreRight, HasCycle, Closed
<1>5. ASSUME NEW c \in Calls, CallStep(c) PROVE CycleVerdictsAreRight'
  <2>1. OthersStay(c) /\ SuccessorsExist
    BY <1>5, StepsAreOwn DEF MissesInv
  <2>2. ASSUME NEW d \in Calls, out'[d] = "cycle" PROVE Right(d)'
    <3>1. CASE d # c
      <4>1. out[d] = "cycle" /\ run'[d] = run[d] /\ by'[d] = by[d]
        BY <2>1, <2>2, <3>1 DEF OthersStay
      <4>2. Right(d)
        BY <1>1, <4>1
      <4>3. CASE HasCycle(succ)
        BY <1>5, <2>1, <4>3, CyclesStay
      <4>4. CASE d \in Finishers /\ HasCycle(Asked(d))
        BY <1>5, <2>1, <4>1, <4>4, AskedCyclesStay
      <4> QED
        BY <4>2, <4>3, <4>4
    <3>2. CASE d = c /\ Look(c) /\ at[c] \in chain[c]
      <4>1. Walking(c) /\ UNCHANGED <<succ, run, by>>
        BY <3>2 DEF Look, Walking, store
      <4>2. /\ chain[c] \in SUBSET Runs /\ chain[c] # {}
            /\ \A r \in chain[c] : ChainOf(c)[r] \in chain[c]
        BY <3>2, <4>1 DEF WalkInv, TypeInv, TypeOK
      <4>3. HasCycle(ChainOf(c))
        BY <4>2 DEF HasCycle, Closed
      <4>4. Right(c)
        BY <4>3 DEF ChainOf
      <4>5. succ' = succ /\ Asked(c)' = Asked(c)
        BY <4>1 DEF Asked
      <4> QED
        BY <3>2, <4>4, <4>5
    <3>3. ASSUME d = c, ~(Look(c) /\ at[c] \in chain[c]) PROVE FALSE
      <4>1. pc[c] # "done" /\ out[c] # "cycle"
        BY <1>5 DEF CallStep, FinishStep, ReadStep, BeginFinish, TakeLock,
          Commit, BeginRead, NextRecord, Look, ReadTarget, TypeInv, StagesFit
      <4> QED
        BY <1>5, <2>2, <3>3, <4>1
        DEF CallStep, FinishStep, ReadStep, BeginFinish, TakeLock, Commit,
            BeginRead, NextRecord, Look, ReadTarget, Goto, Return, TypeInv,
            TypeOK
    <3> QED
      BY <3>1, <3>2, <3>3
  <2> QED
    BY <1>2, <2>2
<1> QED
  BY <1>3, <1>4, <1>5 DEF Next, Terminated

-----------------------------------------------------------------------------
(* Finishes one at a time.                                                 *)

(* Where there is no cycle, one that a finish asks for would go through    *)
(* its own run.                                                            *)
LEMMA ThroughItsRun ==
  ASSUME TypeInv, ~HasCycle(succ), NEW c \in Finishers, run[c] \in Runs,
         NEW S \in SUBSET Runs, Closed(S, Asked(c))
  PROVE  run[c] \in S /\ by[c] \in S
<1>1. run[c] \in S
  <2> SUFFICES ASSUME run[c] \notin S PROVE FALSE
    OBVIOUS
  <2>1. \A r \in S : succ[r] = Asked(c)[r]
    BY DEF Asked, TypeInv, TypeOK
  <2>2. Closed(S, succ)
    BY <2>1 DEF Closed
  <2> QED
    BY <2>2 DEF HasCycle
<1>2. Asked(c)[run[c]] = by[c]
  BY DEF Asked, TypeInv, TypeOK
<1> QED
  BY <1>1, <1>2 DEF Closed

(* A walk that ends at a record without a successor has met no cycle.      *)
LEMMA WalkFindsCycles ==
  ASSUME TypeInv, WalkInv, NEW c \in Finishers, pc[c] = "read", Together(c)
  PROVE  /\ \A S \in SUBSET Runs : Closed(S, Asked(c)) => succ[at[c]] \in S
         /\ succ[at[c]] = None => ~HasCycle(Asked(c))
<1>1. at[c] \in Runs /\ at[c] # run[c] /\ Asked(c)[at[c]] = succ[at[c]]
  BY DEF WalkInv, Walking, Asked, TypeInv, TypeOK
<1>2. \A S \in SUBSET Runs : Closed(S, Asked(c)) => succ[at[c]] \in S
  BY <1>1 DEF Together, Closed
<1>3. ASSUME succ[at[c]] = None PROVE ~HasCycle(Asked(c))
  BY <1>2, <1>3, NoneIsNoRun DEF HasCycle
<1> QED
  BY <1>2, <1>3

(* A commit, when it comes, makes no cycle.                                *)
LEMMA AloneStep ==
  ASSUME TypeInv, WalkInv, AloneInv, [Next]_vars
  PROVE  AloneInv'
<1>1. CASE UNCHANGED vars
  BY <1>1 DEF AloneInv, HasCycle, Closed, Together, Asked, Active, Walking,
              vars, store, walk
<1>2. ASSUME NEW r \in Runs, Create(r) PROVE AloneInv'
  BY <1>2 DEF Create, AloneInv, HasCycle, Closed, Together, Asked, Active,
              Walking, walk
<1>3. ASSUME NEW c \in Calls, CallStep(c) PROVE AloneInv'
  <2> SUFFICES ASSUME ~overlap'
               PROVE  /\ ~HasCycle(succ)'
                      /\ \A d, e \in Finishers :
                           Active(d)' /\ Active(e)' => d = e
                      /\ \A d \in Finishers :
                           /\ Walking(d)' => Together(d)'
                           /\ pc'[d] = "commit" => ~HasCycle(Asked(d))'
    BY DEF AloneInv
  <2>1. ~overlap
    BY <1>3 DEF CallStep, FinishStep, ReadStep, BeginFinish, TakeLock, Commit,
                BeginRead, NextRecord, Look, ReadTarget
  <2>2. /\ ~HasCycle(succ)
        /\ \A d, e \in Finishers : Active(d) /\ Active(e) => d = e
        /\ \A d \in Finishers :
             /\ Walking(d) => Together(d)
             /\ pc[d] = "commit" => ~HasCycle(Asked(d))
    BY <2>1 DEF AloneInv
  <2>3. OthersStay(c)
    BY <1>3, StepsAreOwn
  <2>4. ASSUME NEW d \in Finishers, d # c
        PROVE  /\ pc'[d] = pc[d] /\ run'[d] = run[d] /\ by'[d] = by[d]
               /\ at'[d] = at[d] /\ (Active(d)' <=> Active(d))
               /\ Walking(d)' <=> Walking(d)
    BY <2>3, <2>4 DEF OthersStay, Active, Walking
  <2>5. CASE c \in Readers
    <3>1. succ' = succ
      BY <1>3, <2>5, StoreStays, FinishersAreNotReaders DEF store
    <3>2. \A d \in Finishers : d # c
      BY <2>5, FinishersAreNotReaders
    <3>3. \A d \in Finishers : Asked(d)' = Asked(d)
      BY <2>4, <3>1, <3>2 DEF Asked
    <3> QED
      BY <2>2, <2>4, <3>1, <3>2, <3>3 DEF Together
  <2>6. CASE c \in Finishers
    <3>1. \A d \in Finishers \ {c} : ~Active(d)
      BY <1>3, <2>2, <2>6, FinishersAreNotReaders
      DEF CallStep, FinishStep, BeginFinish, TakeLock, Commit, Look,
          ReadTarget, Active
    <3>2. \A d \in Finishers \ {c} :
            ~Active(d)' /\ ~Walking(d)' /\ pc'[d] # "commit"
      BY <2>4, <3>1 DEF Active, Walking
    <3>3. /\ ~HasCycle(succ)'
          /\ Walking(c)' => Together(c)'
          /\ pc'[c] = "commit" => ~HasCycle(Asked(c))'
      <4> USE DEF Walking
      <4>1. CASE BeginFinish(c)
        BY <2>2, <4>1
        DEF BeginFinish, Goto, store, HasCycle, Closed, TypeInv, TypeOK
      <4>2. CASE TakeLock(c)
        <5>1. run[c] \in Runs /\ UNCHANGED <<succ, run, by>>
          BY <2>6, <4>2 DEF TakeLock, store, TypeInv, StagesFit, Active
        <5>2. Asked(c)' = Asked(c)
          BY <5>1 DEF Asked
        <5>3. \A S \in SUBSET Runs : Closed(S, Asked(c)) => by[c] \in S
          BY <2>2, <2>6, <5>1, ThroughItsRun
        <5>4. CASE pc'[c] = "done"
          BY <2>2, <5>1, <5>4
        <5>5. CASE pc'[c] = "look" /\ at'[c] = by[c]
          BY <2>2, <5>1, <5>2, <5>3, <5>5 DEF Together
        <5>6. CASE pc'[c] = "commit" /\ by[c] = None
          BY <2>2, <5>1, <5>2, <5>3, <5>6, NoneIsNoRun DEF HasCycle
        <5> QED
          BY <4>2, <5>4, <5>5, <5>6
          DEF TakeLock, Goto, Return, Arrive, TypeInv, TypeOK
      <4>3. CASE Commit(c)
        <5>1. pc'[c] = "done"
          BY <4>3 DEF Commit, Return, TypeInv, TypeOK
        <5>2. succ' = succ \/ succ' = Asked(c)
          BY <4>3 DEF Commit, Asked, store
        <5>3. ~HasCycle(Asked(c))
          BY <2>2, <2>6, <4>3 DEF Commit
        <5> QED
          BY <2>2, <5>1, <5>2, <5>3
      <4>4. CASE Look(c)
        <5>1. /\ Walking(c) /\ UNCHANGED <<succ, run, by>>
              /\ \/ pc'[c] = "done"
                 \/ pc'[c] = "read" /\ at' = at
          BY <4>4 DEF Look, Goto, Return, TypeInv, TypeOK, store
        <5>2. Asked(c)' = Asked(c)
          BY <5>1 DEF Asked
        <5> QED
          BY <2>2, <2>6, <5>1, <5>2 DEF Together
      <4>5. CASE ReadTarget(c)
        <5>1. /\ pc[c] = "read" /\ UNCHANGED <<succ, run, by>>
              /\ \/ pc'[c] = "done"
                 \/ pc'[c] = "look" /\ at'[c] = succ[at[c]]
                 \/ pc'[c] = "commit" /\ succ[at[c]] = None
          BY <2>6, <4>5
          DEF ReadTarget, Goto, Return, Arrive, TypeInv, TypeOK, store
        <5>2. Asked(c)' = Asked(c)
          BY <5>1 DEF Asked
        <5>3. /\ \A S \in SUBSET Runs :
                   Closed(S, Asked(c)) => succ[at[c]] \in S
              /\ succ[at[c]] = None => ~HasCycle(Asked(c))
          BY <2>2, <2>6, <5>1, WalkFindsCycles
        <5> QED
          BY <2>2, <5>1, <5>2, <5>3 DEF Together
      <4> QED
        BY <1>3, <2>6, <4>1, <4>2, <4>3, <4>4, <4>5, FinishersAreNotReaders
        DEF CallStep, FinishStep
    <3> QED
      BY <3>2, <3>3
  <2> QED
    BY <2>5, <2>6
<1> QED
  BY <1>1, <1>2, <1>3 DEF Next, Terminated

-----------------------------------------------------------------------------
(* Everything together.                                                    *)
LEMMA SupInit == Init => SupInv
<1> SUFFICES ASSUME Init PROVE SupInv
  OBVIOUS
<1>1. \A c \in Calls : pc[c] = "idle" /\ out[c] = "none" /\ todo[c] = {}
  BY DEF Init
<1>2. MissesInv
  BY <1>1 DEF Init, MissesInv, SuccessorsExist, WalksOnRecords,
              NoReaderMissesASuccessor, Walking
<1>3. LockInv /\ WalkInv /\ CycleVerdictsAreRight
  BY <1>1 DEF LockInv, HoldsRunLock, WalkInv, Walking, CycleVerdictsAreRight
<1>4. ~HasCycle(succ)
  BY NoneIsNoRun DEF Init, HasCycle, Closed
<1>5. AloneInv
  BY <1>1, <1>4 DEF AloneInv, Active, Walking
<1> QED
  BY <1>2, <1>3, <1>5, TypeInit DEF SupInv

(* The invariant holds of all that any calls do together.                  *)
THEOREM SuccessionStands == Spec => []SupInv
<1>1. SupInv /\ [Next]_vars => SupInv'
  <2> SUFFICES ASSUME SupInv, [Next]_vars PROVE SupInv'
    OBVIOUS
  <2>1. /\ TypeInv /\ MissesInv /\ LockInv /\ WalkInv
        /\ CycleVerdictsAreRight /\ AloneInv
    BY DEF SupInv
  <2> QED
    BY <2>1, TypeStep, MissesStep, LockStep, WalkStep, VerdictsStep,
       AloneStep DEF SupInv
<1> QED
  BY <1>1, SupInit, PTL DEF Spec

(* As long as finishes come one at a time, beside any readers and any new  *)
(* drafts, the walk along the chain before a commit keeps the successors   *)
(* free of cycles.                                                         *)
THEOREM CyclesNeedOverlap == Spec => []CycleNeedsOverlap
<1>1. SupInv => CycleNeedsOverlap
  BY DEF SupInv, AloneInv, CycleNeedsOverlap
<1> QED
  BY <1>1, SuccessionStands, PTL

(* A call that is refused for a cycle was right, also when finishes change *)
(* the chain while it is walked, and also ever after.                      *)
THEOREM VerdictsAreRight == Spec => []CycleVerdictsAreRight
<1>1. SupInv => CycleVerdictsAreRight
  BY DEF SupInv
<1> QED
  BY <1>1, SuccessionStands, PTL

(* A reader always finds the successor of a record that it has read.       *)
THEOREM NoSuccessorMissed == Spec => []NoReaderMissesASuccessor
<1>1. SupInv => NoReaderMissesASuccessor
  BY DEF SupInv, MissesInv
<1> QED
  BY <1>1, SuccessionStands, PTL
=============================================================================
