--------------------- MODULE SnapshotPublicationProofs ---------------------
(***************************************************************************)
(* Theorems about SnapshotPublication, for any number of publishers and    *)
(* any bounds.                                                             *)
(***************************************************************************)
EXTENDS SnapshotPublication, TLAPS

(* The stages at which a publisher has tried to link its file, and those   *)
(* at which some artifact is in place.                                     *)
PastLink == {"sync", "drop", "dropsync", "undo", "undosync", "stat", "read",
             "done"}
InPlace == {"sync", "drop", "dropsync", "stat", "read"}

(* An inode is linked once: its publisher is past that, in whatever way    *)
(* the inode is known.                                                     *)
LinkInv ==
  /\ \A p \in Publishers : p \in fileDisk \cup {file} => made[p]
  /\ \A p \in Publishers : made[p] => pc[p] \in PastLink
  /\ \A p, q \in Publishers : seen[p][1] = q => pc[q] \in PastLink

(* From the link on there is an artifact, and it is the publisher's own    *)
(* exactly when its link created it.                                       *)
PlaceInv ==
  \A p \in Publishers : pc[p] \in InPlace =>
    file # None /\ (made[p] <=> file = p)

(* Who has synchronised the directory after the link knows that the entry  *)
(* is durable, also when the artifact is reported.                         *)
DurableInv ==
  \A p \in Publishers :
    /\ pc[p] \in {"stat", "read"} => fileDisk = {file}
    /\ Reported(p) =>
         /\ pc[p] = "done" /\ seen[p][1] # None
         /\ file = seen[p][1] => fileDisk = {file}

PubInv == TypeOK /\ LinkInv /\ PlaceInv /\ DurableInv /\ ReportsAreTrue

-----------------------------------------------------------------------------
(* The initial home, in which nobody has published, satisfies the          *)
(* invariant.                                                              *)
LEMMA InitPubInv == Init => PubInv
<1> SUFFICES ASSUME Init PROVE PubInv
  OBVIOUS
<1> USE NoneIsNoPublisher DEF Init, Stages, Outcomes, Levels
<1>1. TypeOK
  <2>1. dir \in [Levels -> {"absent", "volatile", "durable"}]
    OBVIOUS
  <2>2. budget \in [faults : Nat, kills : Nat, outages : Nat]
    OBVIOUS
  <2>3. seen \in [Publishers -> (Publishers \cup {None}) \X BOOLEAN]
    OBVIOUS
  <2> QED
    BY <2>1, <2>2, <2>3 DEF TypeOK
<1>2. LinkInv /\ PlaceInv /\ DurableInv /\ ReportsAreTrue
  BY DEF LinkInv, PlaceInv, InPlace, DurableInv, Reported, ReportsAreTrue
<1> QED
  BY <1>1, <1>2 DEF PubInv

(* Every step of a publisher, a kill and a power loss keep the invariant.  *)
LEMMA StepPubInv == PubInv /\ [Next]_vars => PubInv'
<1> SUFFICES ASSUME PubInv, [Next]_vars PROVE PubInv'
  OBVIOUS
<1> USE NoneIsNoPublisher
    DEF PubInv, TypeOK, LinkInv, PlaceInv, DurableInv, ReportsAreTrue,
        Reported, PastLink, InPlace, Stages, Outcomes, Levels
<1>1. ASSUME NEW p \in Publishers, Begin(p)
      PROVE  PubInv'
  BY <1>1 DEF Begin, files, Goto
<1>2. ASSUME NEW p \in Publishers,
             LookForDirectory(p, 1, "look1", "make1", "look2")
      PROVE  PubInv'
  BY <1>2 DEF LookForDirectory, files, Goto
<1>3. ASSUME NEW p \in Publishers,
             LookForDirectory(p, 2, "look2", "make2", "temp")
      PROVE  PubInv'
  BY <1>3 DEF LookForDirectory, files, Goto
<1>4. ASSUME NEW p \in Publishers,
             MakeDirectory(p, 1, "make1", "sync1", "look2")
      PROVE  PubInv'
  <2>1. TypeOK'
    BY <1>4, SMTT(30) DEF MakeDirectory, Goto, Return, Fault, NoFault
  <2>2. LinkInv'
    BY <1>4, SMTT(30) DEF MakeDirectory, Goto, Return, Fault, NoFault
  <2>3. PlaceInv'
    BY <1>4, SMTT(30) DEF MakeDirectory, Goto, Return, Fault, NoFault
  <2>4. DurableInv'
    BY <1>4, SMTT(30) DEF MakeDirectory, Goto, Return, Fault, NoFault
  <2>5. ReportsAreTrue'
    BY <1>4, SMTT(30) DEF MakeDirectory, Goto, Return, Fault, NoFault
  <2> QED
    BY <2>1, <2>2, <2>3, <2>4, <2>5
<1>5. ASSUME NEW p \in Publishers,
             MakeDirectory(p, 2, "make2", "sync2", "temp")
      PROVE  PubInv'
  <2>1. TypeOK'
    BY <1>5, SMTT(30) DEF MakeDirectory, Goto, Return, Fault, NoFault
  <2>2. LinkInv'
    BY <1>5, SMTT(30) DEF MakeDirectory, Goto, Return, Fault, NoFault
  <2>3. PlaceInv'
    BY <1>5, SMTT(30) DEF MakeDirectory, Goto, Return, Fault, NoFault
  <2>4. DurableInv'
    BY <1>5, SMTT(30) DEF MakeDirectory, Goto, Return, Fault, NoFault
  <2>5. ReportsAreTrue'
    BY <1>5, SMTT(30) DEF MakeDirectory, Goto, Return, Fault, NoFault
  <2> QED
    BY <2>1, <2>2, <2>3, <2>4, <2>5
<1>6. ASSUME NEW p \in Publishers, SyncParent(p, 1, "sync1", "look2")
      PROVE  PubInv'
  <2>1. TypeOK'
    <3>1. dir' \in [Levels -> {"absent", "volatile", "durable"}]
      BY <1>6, SMTT(30) DEF SyncParent, Goto, Return, Fault, NoFault
    <3>2. /\ file' \in Publishers \cup {None}
          /\ fileDisk' \in SUBSET (Publishers \cup {None})
      BY <1>6, SMTT(30) DEF SyncParent, Goto, Return, Fault, NoFault
    <3>3. pc' \in [Publishers -> Stages] /\ out' \in [Publishers -> Outcomes]
      BY <1>6, SMTT(90) DEF SyncParent, Goto, Return, Fault, NoFault
    <3>4. made' \in [Publishers -> BOOLEAN]
      BY <1>6, SMTT(30) DEF SyncParent, Goto, Return, Fault, NoFault
    <3>5. seen' \in [Publishers -> (Publishers \cup {None}) \X BOOLEAN]
      BY <1>6, SMTT(30) DEF SyncParent, Goto, Return, Fault, NoFault
    <3>6. budget' \in [faults : Nat, kills : Nat, outages : Nat]
      BY <1>6, SMTT(30) DEF SyncParent, Goto, Return, Fault, NoFault
    <3>7. temps' = temps /\ tempDisk' = tempDisk /\ rereads' = rereads
      BY <1>6, SMTT(30) DEF SyncParent, Goto, Return, Fault, NoFault
    <3>8. \A q \in Publishers :
            /\ pc'[q] \in {"link", "sync", "drop"} => q \in temps
            /\ q \in temps =>
                 pc'[q] \in {"link", "sync", "drop", "undo", "done"}
            /\ q \in tempDisk => pc'[q] # "idle"
      BY <1>6, SMTT(30) DEF SyncParent, Goto, Return, Fault, NoFault
    <3> QED
      BY <3>1, <3>2, <3>3, <3>4, <3>5, <3>6, <3>7, <3>8
  <2>2. LinkInv'
    BY <1>6, SMTT(30) DEF SyncParent, Goto, Return, Fault, NoFault
  <2>3. PlaceInv'
    BY <1>6, SMTT(30) DEF SyncParent, Goto, Return, Fault, NoFault
  <2>4. DurableInv'
    BY <1>6, SMTT(30) DEF SyncParent, Goto, Return, Fault, NoFault
  <2>5. ReportsAreTrue'
    BY <1>6, SMTT(30) DEF SyncParent, Goto, Return, Fault, NoFault
  <2> QED
    BY <2>1, <2>2, <2>3, <2>4, <2>5
<1>7. ASSUME NEW p \in Publishers, SyncParent(p, 2, "sync2", "temp")
      PROVE  PubInv'
  <2>1. TypeOK'
    <3>1. dir' \in [Levels -> {"absent", "volatile", "durable"}]
      BY <1>7, SMTT(30) DEF SyncParent, Goto, Return, Fault, NoFault
    <3>2. /\ file' \in Publishers \cup {None}
          /\ fileDisk' \in SUBSET (Publishers \cup {None})
      BY <1>7, SMTT(30) DEF SyncParent, Goto, Return, Fault, NoFault
    <3>3. pc' \in [Publishers -> Stages] /\ out' \in [Publishers -> Outcomes]
      BY <1>7, SMTT(90) DEF SyncParent, Goto, Return, Fault, NoFault
    <3>4. made' \in [Publishers -> BOOLEAN]
      BY <1>7, SMTT(30) DEF SyncParent, Goto, Return, Fault, NoFault
    <3>5. seen' \in [Publishers -> (Publishers \cup {None}) \X BOOLEAN]
      BY <1>7, SMTT(30) DEF SyncParent, Goto, Return, Fault, NoFault
    <3>6. budget' \in [faults : Nat, kills : Nat, outages : Nat]
      BY <1>7, SMTT(30) DEF SyncParent, Goto, Return, Fault, NoFault
    <3>7. temps' = temps /\ tempDisk' = tempDisk /\ rereads' = rereads
      BY <1>7, SMTT(30) DEF SyncParent, Goto, Return, Fault, NoFault
    <3>8. \A q \in Publishers :
            /\ pc'[q] \in {"link", "sync", "drop"} => q \in temps
            /\ q \in temps =>
                 pc'[q] \in {"link", "sync", "drop", "undo", "done"}
            /\ q \in tempDisk => pc'[q] # "idle"
      BY <1>7, SMTT(30) DEF SyncParent, Goto, Return, Fault, NoFault
    <3> QED
      BY <3>1, <3>2, <3>3, <3>4, <3>5, <3>6, <3>7, <3>8
  <2>2. LinkInv'
    BY <1>7, SMTT(30) DEF SyncParent, Goto, Return, Fault, NoFault
  <2>3. PlaceInv'
    BY <1>7, SMTT(30) DEF SyncParent, Goto, Return, Fault, NoFault
  <2>4. DurableInv'
    BY <1>7, SMTT(30) DEF SyncParent, Goto, Return, Fault, NoFault
  <2>5. ReportsAreTrue'
    BY <1>7, SMTT(30) DEF SyncParent, Goto, Return, Fault, NoFault
  <2> QED
    BY <2>1, <2>2, <2>3, <2>4, <2>5
<1>8. ASSUME NEW p \in Publishers, WriteTemp(p)
      PROVE  PubInv'
  <2>1. TypeOK'
    BY <1>8, SMTT(30) DEF WriteTemp, Goto, Return, Fault, NoFault
  <2>2. LinkInv'
    BY <1>8, SMTT(30) DEF WriteTemp, Goto, Return, Fault, NoFault
  <2>3. PlaceInv'
    BY <1>8, SMTT(30) DEF WriteTemp, Goto, Return, Fault, NoFault
  <2>4. DurableInv'
    BY <1>8, SMTT(30) DEF WriteTemp, Goto, Return, Fault, NoFault
  <2>5. ReportsAreTrue'
    BY <1>8, SMTT(30) DEF WriteTemp, Goto, Return, Fault, NoFault
  <2> QED
    BY <2>1, <2>2, <2>3, <2>4, <2>5
<1>9. ASSUME NEW p \in Publishers, Link(p)
      PROVE  PubInv'
  <2>1. TypeOK'
    <3>1. dir' \in [Levels -> {"absent", "volatile", "durable"}]
      BY <1>9, SMTT(30) DEF Link, Goto, Fault, NoFault
    <3>2. /\ file' \in Publishers \cup {None}
          /\ fileDisk' \in SUBSET (Publishers \cup {None})
      BY <1>9, SMTT(30) DEF Link, Goto, Fault, NoFault
    <3>3. pc' \in [Publishers -> Stages] /\ out' \in [Publishers -> Outcomes]
      BY <1>9, SMTT(30) DEF Link, Goto, Fault, NoFault
    <3>4. made' \in [Publishers -> BOOLEAN]
      <4>1. made' = made \/ made' = [made EXCEPT ![p] = TRUE]
        BY <1>9 DEF Link
      <4>2. made \in [Publishers -> BOOLEAN]
        OBVIOUS
      <4> HIDE NoneIsNoPublisher
          DEF PubInv, TypeOK, LinkInv, PlaceInv, DurableInv, ReportsAreTrue,
              Reported, PastLink, InPlace, Stages, Outcomes, Levels
      <4> QED
        BY <4>1, <4>2
    <3>5. seen' \in [Publishers -> (Publishers \cup {None}) \X BOOLEAN]
      BY <1>9, SMTT(30) DEF Link, Goto, Fault, NoFault
    <3>6. budget' \in [faults : Nat, kills : Nat, outages : Nat]
      BY <1>9, SMTT(30) DEF Link, Goto, Fault, NoFault
    <3>7. temps' = temps /\ tempDisk' = tempDisk /\ rereads' = rereads
      BY <1>9, SMTT(30) DEF Link, Goto, Fault, NoFault
    <3>8. \A q \in Publishers :
            /\ pc'[q] \in {"link", "sync", "drop"} => q \in temps
            /\ q \in temps =>
                 pc'[q] \in {"link", "sync", "drop", "undo", "done"}
            /\ q \in tempDisk => pc'[q] # "idle"
      BY <1>9, SMTT(30) DEF Link, Goto, Fault, NoFault
    <3> QED
      BY <3>1, <3>2, <3>3, <3>4, <3>5, <3>6, <3>7, <3>8
  <2>2. LinkInv'
    BY <1>9, SMTT(30) DEF Link, Goto, Fault, NoFault
  <2>3. PlaceInv'
    BY <1>9, SMTT(30) DEF Link, Goto, Fault, NoFault
  <2>4. DurableInv'
    BY <1>9, SMTT(30) DEF Link, Goto, Fault, NoFault
  <2>5. ReportsAreTrue'
    BY <1>9, SMTT(30) DEF Link, Goto, Fault, NoFault
  <2> QED
    BY <2>1, <2>2, <2>3, <2>4, <2>5
<1>10. ASSUME NEW p \in Publishers, SyncLink(p)
      PROVE  PubInv'
  <2>1. TypeOK'
    BY <1>10, SMTT(30) DEF SyncLink, SyncFile, Goto, Fault, NoFault
  <2>2. LinkInv'
    BY <1>10, SMTT(30) DEF SyncLink, SyncFile, Goto, Fault, NoFault
  <2>3. PlaceInv'
    BY <1>10, SMTT(30) DEF SyncLink, SyncFile, Goto, Fault, NoFault
  <2>4. DurableInv'
    BY <1>10, SMTT(30) DEF SyncLink, SyncFile, Goto, Fault, NoFault
  <2>5. ReportsAreTrue'
    BY <1>10, SMTT(30) DEF SyncLink, SyncFile, Goto, Fault, NoFault
  <2> QED
    BY <2>1, <2>2, <2>3, <2>4, <2>5
<1>11. ASSUME NEW p \in Publishers, DropTemp(p)
      PROVE  PubInv'
  <2>1. TypeOK'
    BY <1>11, SMTT(30) DEF DropTemp, Goto, Fault, NoFault
  <2>2. LinkInv'
    BY <1>11, SMTT(30) DEF DropTemp, Goto, Fault, NoFault
  <2>3. PlaceInv'
    BY <1>11, SMTT(30) DEF DropTemp, Goto, Fault, NoFault
  <2>4. DurableInv'
    BY <1>11, SMTT(30) DEF DropTemp, Goto, Fault, NoFault
  <2>5. ReportsAreTrue'
    BY <1>11, SMTT(30) DEF DropTemp, Goto, Fault, NoFault
  <2> QED
    BY <2>1, <2>2, <2>3, <2>4, <2>5
<1>12. ASSUME NEW p \in Publishers, SyncDrop(p)
      PROVE  PubInv'
  <2>1. TypeOK'
    BY <1>12, SMTT(90) DEF SyncDrop, SyncFile, Goto, Fault, NoFault
  <2>2. LinkInv'
    BY <1>12, SMTT(30) DEF SyncDrop, SyncFile, Goto, Fault, NoFault
  <2>3. PlaceInv'
    BY <1>12, SMTT(30) DEF SyncDrop, SyncFile, Goto, Fault, NoFault
  <2>4. DurableInv'
    BY <1>12, SMTT(30) DEF SyncDrop, SyncFile, Goto, Fault, NoFault
  <2>5. ReportsAreTrue'
    BY <1>12, SMTT(30) DEF SyncDrop, SyncFile, Goto, Fault, NoFault
  <2> QED
    BY <2>1, <2>2, <2>3, <2>4, <2>5
<1>13. ASSUME NEW p \in Publishers, UndoTemp(p)
      PROVE  PubInv'
  <2>1. TypeOK'
    BY <1>13, SMTT(30) DEF UndoTemp, Goto, Return, Fault, NoFault
  <2>2. LinkInv'
    BY <1>13, SMTT(30) DEF UndoTemp, Goto, Return, Fault, NoFault
  <2>3. PlaceInv'
    BY <1>13, SMTT(30) DEF UndoTemp, Goto, Return, Fault, NoFault
  <2>4. DurableInv'
    BY <1>13, SMTT(30) DEF UndoTemp, Goto, Return, Fault, NoFault
  <2>5. ReportsAreTrue'
    BY <1>13, SMTT(30) DEF UndoTemp, Goto, Return, Fault, NoFault
  <2> QED
    BY <2>1, <2>2, <2>3, <2>4, <2>5
<1>14. ASSUME NEW p \in Publishers, UndoSync(p)
      PROVE  PubInv'
  <2>1. TypeOK'
    BY <1>14, SMTT(30) DEF UndoSync, SyncFile, Return, Fault, NoFault
  <2>2. LinkInv'
    BY <1>14, SMTT(30) DEF UndoSync, SyncFile, Return, Fault, NoFault
  <2>3. PlaceInv'
    BY <1>14, SMTT(30) DEF UndoSync, SyncFile, Return, Fault, NoFault
  <2>4. DurableInv'
    BY <1>14, SMTT(30) DEF UndoSync, SyncFile, Return, Fault, NoFault
  <2>5. ReportsAreTrue'
    BY <1>14, SMTT(30) DEF UndoSync, SyncFile, Return, Fault, NoFault
  <2> QED
    BY <2>1, <2>2, <2>3, <2>4, <2>5
<1>15. ASSUME NEW p \in Publishers, StatArtifact(p)
      PROVE  PubInv'
  <2>1. TypeOK'
    <3>1. dir' \in [Levels -> {"absent", "volatile", "durable"}]
      BY <1>15, SMTT(30)
      DEF StatArtifact, Identity, files, Goto, Return, Fault, NoFault
    <3>2. /\ file' \in Publishers \cup {None}
          /\ fileDisk' \in SUBSET (Publishers \cup {None})
      BY <1>15, SMTT(30)
      DEF StatArtifact, Identity, files, Goto, Return, Fault, NoFault
    <3>3. pc' \in [Publishers -> Stages] /\ out' \in [Publishers -> Outcomes]
      BY <1>15, SMTT(30)
      DEF StatArtifact, Identity, files, Goto, Return, Fault, NoFault
    <3>4. made' \in [Publishers -> BOOLEAN]
      BY <1>15, SMTT(30)
      DEF StatArtifact, Identity, files, Goto, Return, Fault, NoFault
    <3>5. seen' \in [Publishers -> (Publishers \cup {None}) \X BOOLEAN]
      <4>1. Identity \in (Publishers \cup {None}) \X BOOLEAN
        <5>1. (file \in temps) \in BOOLEAN /\ file \in Publishers \cup {None}
          OBVIOUS
        <5> HIDE NoneIsNoPublisher
            DEF PubInv, TypeOK, LinkInv, PlaceInv, DurableInv, Reported,
                ReportsAreTrue, PastLink, InPlace, Stages, Outcomes, Levels
        <5> QED
          BY <5>1, Zenon DEF Identity
      <4>2. seen' = seen \/ seen' = [seen EXCEPT ![p] = Identity]
        BY <1>15 DEF StatArtifact
      <4>3. seen \in [Publishers -> (Publishers \cup {None}) \X BOOLEAN]
        OBVIOUS
      <4> HIDE NoneIsNoPublisher
          DEF PubInv, TypeOK, LinkInv, PlaceInv, DurableInv, ReportsAreTrue,
              Reported, PastLink, InPlace, Stages, Outcomes, Levels
      <4> DEFINE Seen == (Publishers \cup {None}) \X BOOLEAN
      <4>4. Identity \in Seen /\ seen \in [Publishers -> Seen]
        BY <4>1, <4>3
      <4>5. seen' \in [Publishers -> Seen]
        <5> HIDE DEF Seen
        <5> QED
          BY <4>2, <4>4
      <4> QED
        BY <4>5
    <3>6. budget' \in [faults : Nat, kills : Nat, outages : Nat]
      BY <1>15, SMTT(30)
      DEF StatArtifact, Identity, files, Goto, Return, Fault, NoFault
    <3>7. temps' = temps /\ tempDisk' = tempDisk /\ rereads' = rereads
      BY <1>15, SMTT(30)
      DEF StatArtifact, Identity, files, Goto, Return, Fault, NoFault
    <3>8. \A q \in Publishers :
            /\ pc'[q] \in {"link", "sync", "drop"} => q \in temps
            /\ q \in temps =>
                 pc'[q] \in {"link", "sync", "drop", "undo", "done"}
            /\ q \in tempDisk => pc'[q] # "idle"
      BY <1>15, SMTT(30)
      DEF StatArtifact, Identity, files, Goto, Return, Fault, NoFault
    <3> QED
      BY <3>1, <3>2, <3>3, <3>4, <3>5, <3>6, <3>7, <3>8
  <2>2. LinkInv'
    BY <1>15, SMTT(90)
    DEF StatArtifact, Identity, files, Goto, Return, Fault, NoFault
  <2>3. PlaceInv'
    BY <1>15, SMTT(30)
    DEF StatArtifact, Identity, files, Goto, Return, Fault, NoFault
  <2>4. DurableInv'
    BY <1>15, SMTT(30)
    DEF StatArtifact, Identity, files, Goto, Return, Fault, NoFault
  <2>5. ReportsAreTrue'
    BY <1>15, SMTT(30)
    DEF StatArtifact, Identity, files, Goto, Return, Fault, NoFault
  <2> QED
    BY <2>1, <2>2, <2>3, <2>4, <2>5
<1>16. ASSUME NEW p \in Publishers, ReadArtifact(p)
      PROVE  PubInv'
  <2>1. TypeOK'
    BY <1>16, SMTT(30)
    DEF ReadArtifact, Identity, files, Goto, Return, Fault, NoFault
  <2>2. LinkInv'
    BY <1>16, SMTT(30)
    DEF ReadArtifact, Identity, files, Goto, Return, Fault, NoFault
  <2>3. PlaceInv'
    BY <1>16, SMTT(30)
    DEF ReadArtifact, Identity, files, Goto, Return, Fault, NoFault
  <2>4. DurableInv'
    BY <1>16, SMTT(30)
    DEF ReadArtifact, Identity, files, Goto, Return, Fault, NoFault
  <2>5. ReportsAreTrue'
    BY <1>16, SMTT(30)
    DEF ReadArtifact, Identity, files, Goto, Return, Fault, NoFault
  <2> QED
    BY <2>1, <2>2, <2>3, <2>4, <2>5
<1>17. ASSUME NEW p \in Publishers, Kill(p)
      PROVE  PubInv'
  BY <1>17 DEF Kill, Live, files, Return
<1>18. CASE Outage
  <2>1. TypeOK'
    BY <1>18, SMTT(30) DEF Outage, Live
  <2>2. LinkInv'
    BY <1>18, SMTT(30) DEF Outage, Live
  <2>3. PlaceInv'
    BY <1>18, SMTT(30) DEF Outage, Live
  <2>4. DurableInv'
    BY <1>18, SMTT(30) DEF Outage, Live
  <2>5. ReportsAreTrue'
    BY <1>18, SMTT(30) DEF Outage, Live
  <2> QED
    BY <2>1, <2>2, <2>3, <2>4, <2>5
<1>19. CASE UNCHANGED vars
  BY <1>19 DEF vars
<1> QED
  BY <1>1, <1>2, <1>3, <1>4, <1>5, <1>6, <1>7, <1>8, <1>9, <1>10, <1>11,
     <1>12, <1>13, <1>14, <1>15, <1>16, <1>17, <1>18, <1>19
  DEF Next, PublishStep, OpenDirectories, Terminated

(* The invariant holds in every reachable state.                           *)
LEMMA AlwaysPubInv == Spec => []PubInv
<1>1. Init => PubInv
  BY InitPubInv
<1>2. PubInv /\ [Next]_vars => PubInv'
  BY StepPubInv
<1> QED
  BY <1>1, <1>2, PTL DEF Spec

(* Every variable of the publication keeps its type, and a publisher's     *)
(* temporary file is there exactly at the stages that need it.             *)
THEOREM PublicationTypeCorrect == Spec => []TypeOK
<1>1. PubInv => TypeOK
  BY DEF PubInv
<1> QED
  BY <1>1, AlwaysPubInv, PTL

(* Created or reused: what publishers report is true, whoever fails, is    *)
(* killed or loses power.                                                  *)
THEOREM ReportsTrue == Spec => []ReportsAreTrue
<1>1. PubInv => ReportsAreTrue
  BY DEF PubInv
<1> QED
  BY <1>1, AlwaysPubInv, PTL

(* No step but a power loss replaces or removes an artifact.               *)
THEOREM NoClobber == Spec => NeverOverwritten
<1> DEFINE Kept == file # None /\ file' # file
                     => budget'.outages > budget.outages
<1>1. PubInv /\ [Next]_vars => [Kept]_vars
  <2> SUFFICES ASSUME PubInv, Next PROVE Kept
    BY DEF vars
  <2>1. ASSUME NEW p \in Publishers, PublishStep(p) \/ Kill(p) PROVE Kept
    <3>1. CASE Link(p)
      BY <3>1 DEF Link
    <3>2. CASE ~Link(p)
      BY <2>1, <3>2
      DEF PublishStep, Begin, OpenDirectories, LookForDirectory,
          MakeDirectory, SyncParent, WriteTemp, SyncLink, DropTemp, SyncDrop,
          UndoTemp, UndoSync, StatArtifact, ReadArtifact, Kill, files
    <3> QED
      BY <3>1, <3>2
  <2>2. CASE Outage
    BY <2>2 DEF Outage, PubInv, TypeOK
  <2>3. CASE Terminated
    BY <2>3 DEF Terminated, vars
  <2> QED
    BY <2>1, <2>2, <2>3 DEF Next
<1> QED
  BY <1>1, AlwaysPubInv, PTL DEF Spec, NeverOverwritten

(* In a durable home a reported artifact stays, also in a power loss: its  *)
(* reporter has synchronised the directory after the link, whoever made    *)
(* the link.                                                               *)
THEOREM ReportedStands == Spec => ReportedArtifactStands
<1> DEFINE Stays ==
      \A p \in Publishers :
        /\ Reported(p) /\ file = seen[p][1]
        /\ \A l \in Levels : dir[l] = "durable"
        => file' = file
<1>1. PubInv /\ [Next]_vars => [Stays]_vars
  <2> SUFFICES ASSUME PubInv, Next,
                      NEW p \in Publishers, Reported(p), file = seen[p][1],
                      \A l \in Levels : dir[l] = "durable"
               PROVE  file' = file
    BY DEF vars
  <2>1. file # None /\ fileDisk = {file}
    BY DEF PubInv, DurableInv
  <2>2. ASSUME NEW q \in Publishers, PublishStep(q) \/ Kill(q)
        PROVE  file' = file
    <3>1. CASE Link(q)
      BY <2>1, <3>1 DEF Link
    <3>2. CASE ~Link(q)
      BY <2>2, <3>2
      DEF PublishStep, Begin, OpenDirectories, LookForDirectory,
          MakeDirectory, SyncParent, WriteTemp, SyncLink, DropTemp, SyncDrop,
          UndoTemp, UndoSync, StatArtifact, ReadArtifact, Kill, files
    <3> QED
      BY <3>1, <3>2
  <2>3. CASE Outage
    <3>1. \A l \in Levels : dir[l] = "durable" /\ dir[l] # "volatile"
      OBVIOUS
    <3>2. dir'[2] # "absent"
      BY <2>3, <3>1 DEF Outage, Levels
    <3> QED
      BY <2>1, <2>3, <3>2 DEF Outage
  <2>4. CASE Terminated
    BY <2>4 DEF Terminated, vars
  <2> QED
    BY <2>2, <2>3, <2>4 DEF Next
<1> QED
  BY <1>1, AlwaysPubInv, PTL DEF Spec, ReportedArtifactStands

=============================================================================
