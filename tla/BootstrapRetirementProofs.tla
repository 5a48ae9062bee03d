---------------------- MODULE BootstrapRetirementProofs ----------------------
(***************************************************************************)
(* Theorems about BootstrapRetirement, for any inodes, any size of the     *)
(* archive and any number of coordinators and kills.                       *)
(***************************************************************************)
EXTENDS BootstrapRetirement, SequenceTheorems, TLAPS

(* The transaction that is not complete, if there is one.                  *)
Transactions == [phase : {"temp", "prepared"}, members : SourceSets,
                 moved : 0 .. 4, stop : Inodes \cup {0}]
Open == txn # NoTxn
Size == Len(txn.members)
Done == txn.moved
Left == Size - Done

DiskType ==
  /\ boot \in Inodes \cup {0} /\ auth \in {"none", "partial", "whole"}
  /\ file \in [Proofs -> Inodes \cup {0}]
  /\ litter \in BOOLEAN /\ archive \in BOOLEAN /\ torn \in BOOLEAN
  /\ stored \in Nat
TxnType == Open => txn \in Transactions /\ txn.moved <= Len(txn.members)
MemoryType ==
  /\ cpc \in {"down", "running", "decide"} \cup Opening \cup Closing
  /\ resumes \in BOOLEAN /\ held \in BOOLEAN /\ crossed \in BOOLEAN
  /\ result \in {"none", "torn down", "refused", "killed"}
UsedType == used \in [{"runs", "kills"} -> Nat]
TypeInv == DiskType /\ TxnType /\ MemoryType /\ UsedType

(* Who is where: only a resume, in its two stages, works on a transaction, *)
(* and any other that is under way while one is open has crossed it.       *)
ControlInv ==
  /\ Open => archive
  /\ held => resumes
  /\ result # "none" => cpc = "down"
  /\ cpc = "reconcile" \/ (cpc = "flags" /\ held) => held /\ archive
  /\ cpc \in {"rearm", "publish", "retire", "decide"} => held
  /\ cpc \in {"publish", "retire"} => archive
  /\ cpc = "retire" => Open
  /\ Open /\ cpc \notin {"down", "reconcile", "retire"} =>
       crossed /\ ~resumes

(* There is room in the archive for the rest of a transaction.             *)
RoomInv ==
  /\ stored <= MaxRecords
  /\ Open => stored + Left + 1 <= MaxRecords
  /\ cpc = "publish" => stored + Len(Retiring) + 2 <= MaxRecords

(* The proofs are as the open transaction says.                            *)
Exact ==
  /\ boot = 0
  /\ Active("tear") <=> Done = 0
  /\ Active("stop") <=> Size = 4 /\ Done < 2
  /\ Active("own") <=> Left > 1
  /\ Active("tomb") <=> Left > 0
  /\ Active("stop") => file["stop"] = txn.stop
  /\ Active("own") => TombstoneStands
  /\ Active("tear") => file["tear"] = file["tomb"]
ExactInv == Open /\ (~crossed \/ cpc = "retire") => Exact

(* With no transaction open, each proof stands on the ownership record.    *)
Sound ==
  /\ Active("tear") \/ Active("tomb") \/ Active("stop") => Active("own")
  /\ Active("tomb") => TombstoneStands
  /\ Active("tear") => file["tear"] = file["tomb"] /\ boot = 0
  /\ Active("own") => boot = file["own"] \/ (boot = 0 /\ Active("tomb"))
  /\ cpc \in {"arm", "running", "decide"} => Active("own")
  /\ cpc \in {"cancel", "recover"} => Active("own") \/ boot # 0
  /\ cpc = "copy" => ~Active("tomb")
SoundInv == ~Open /\ ~crossed => Sound

(* Whatever the history, the stages that make and remove the bootstrap     *)
(* know this of it, and the ownership record of an open transaction is not *)
(* that of a bootstrap.                                                    *)
StageInv ==
  /\ Open /\ Left > 1 => boot = 0 /\ Active("own") /\ TombstoneStands
  /\ cpc = "mkdir" => ~Active("own")
  /\ cpc = "own" => boot # 0 /\ auth = "none" /\ ~Active("own")
  /\ cpc = "copy" => boot # 0 /\ boot = file["own"]
  /\ cpc = "rearm" => Active("tear")
  /\ cpc = "publish" =>
       boot = 0 /\ ProofsStand /\ Active("tear")
  /\ cpc \in {"scrub", "entomb"} => boot # 0 /\ boot = file["own"]
  /\ cpc = "scrub" => ~Active("tomb")
  /\ cpc = "entomb" => auth = "none"
  /\ cpc \in {"remove", "receipt"} =>
       auth = "none" /\ Active("own") /\ TombstoneStands
  /\ cpc = "receipt" => boot = 0

RetirementInv ==
  /\ TypeInv /\ ControlInv /\ RoomInv /\ ExactInv /\ SoundInv /\ StageInv
  /\ CredentialsAreOwned /\ RefusalsAreExplained /\ TornDownIsComplete
-----------------------------------------------------------------------------
(* What the operators on a transaction return.                             *)

(* A transaction has three or four members, in an order that is fixed from *)
(* both ends.                                                              *)
LEMMA SourceSetShape ==
  ASSUME NEW s \in SourceSets
  PROVE  /\ Len(s) \in {3, 4}
         /\ s[1] = "tear" /\ s[Len(s) - 1] = "own" /\ s[Len(s)] = "tomb"
         /\ Len(s) = 4 => s[2] = "stop"
<1>1. CASE s = <<"tear", "own", "tomb">>
  BY <1>1
<1>2. CASE s = <<"tear", "stop", "own", "tomb">>
  BY <1>2
<1> QED
  BY <1>1, <1>2 DEF SourceSets

(* The lengths of an open transaction.                                     *)
LEMMA LeftBounds ==
  ASSUME TypeInv, Open
  PROVE  /\ Size \in {3, 4} /\ Done \in 0 .. 4 /\ Done <= Size
         /\ Left = Size - Done /\ Left \in Nat
<1>1. /\ txn.members \in SourceSets /\ Done \in 0 .. 4 /\ Done <= Size
  BY DEF TypeInv, TxnType, Transactions, Size, Done
<1>2. Size \in {3, 4}
  BY <1>1, SourceSetShape DEF Size
<1> QED
  BY <1>1, <1>2 DEF Left

(* The next member to be moved, by how many are left.                      *)
LEMMA MemberByPlace ==
  ASSUME TypeInv, Open, ~AllMoved
  PROVE  /\ Done \in 0 .. 3 /\ Left \in 1 .. 4
         /\ Member = IF Left = 1 THEN "tomb" ELSE IF Left = 2 THEN "own"
                     ELSE IF Done = 0 THEN "tear" ELSE "stop"
<1>1. /\ Size \in {3, 4} /\ Done \in 0 .. 4 /\ Done <= Size
      /\ Left = Size - Done
  BY LeftBounds
<1>2. Done # Size
  BY DEF AllMoved, Done, Size
<1>3. /\ txn.members[1] = "tear"
      /\ txn.members[Size - 1] = "own" /\ txn.members[Size] = "tomb"
      /\ Size = 4 => txn.members[2] = "stop"
  BY SourceSetShape DEF TypeInv, TxnType, Transactions, Size
<1>4. Member = txn.members[Done + 1]
  BY DEF Member, Done
<1>5. CASE Size = 3
  BY <1>1, <1>2, <1>3, <1>4, <1>5
<1>6. CASE Size = 4
  BY <1>1, <1>2, <1>3, <1>4, <1>6
<1> QED
  BY <1>1, <1>5, <1>6

(* What a retirement retires.                                              *)
LEMMA RetiringShape ==
  /\ Retiring \in SourceSets
  /\ Len(Retiring) = IF Active("stop") THEN 4 ELSE 3
<1>1. /\ <<"tear">> \in Seq(Proofs) /\ <<"stop">> \in Seq(Proofs)
      /\ <<"own", "tomb">> \in Seq(Proofs)
  BY DEF Proofs
<1>2. CASE Active("stop")
  <2> DEFINE s == <<"tear">> \o <<"stop">>
             t == <<"tear", "stop", "own", "tomb">>
  <2>1. s \in Seq(Proofs) /\ Len(s) = 2 /\ s[1] = "tear" /\ s[2] = "stop"
    BY <1>1
  <2>2. Retiring = s \o <<"own", "tomb">>
    BY <1>2 DEF Retiring, StopMember
  <2> HIDE DEF s
  <2>3. Retiring \in Seq(Proofs) /\ Len(Retiring) = 4
    BY <1>1, <2>1, <2>2, ConcatProperties
  <2>a. Len(<<"own", "tomb">>) = 2
    OBVIOUS
  <2>b. \A i \in 1 .. 4 :
          Retiring[i] = IF i <= 2 THEN s[i] ELSE <<"own", "tomb">>[i - 2]
    <3>1. \A i \in 1 .. Len(s) + Len(<<"own", "tomb">>) :
            (s \o <<"own", "tomb">>)[i] =
              IF i <= Len(s) THEN s[i] ELSE <<"own", "tomb">>[i - Len(s)]
      BY <1>1, <2>1, ConcatProperties
    <3> QED
      BY <2>1, <2>2, <2>a, <3>1
  <2>4. /\ Retiring[1] = "tear" /\ Retiring[2] = "stop"
        /\ Retiring[3] = "own" /\ Retiring[4] = "tomb"
    BY <2>1, <2>b
  <2>5. t \in Seq(Proofs) /\ Len(t) = 4
    BY DEF Proofs
  <2>6. \A i \in 1 .. 4 : Retiring[i] = t[i]
    BY <2>4
  <2>7. Retiring = t
    BY <2>3, <2>5, <2>6, SeqEqual
  <2> QED
    BY <1>2, <2>3, <2>7 DEF SourceSets
<1>3. CASE ~Active("stop")
  <2> DEFINE t == <<"tear", "own", "tomb">>
  <2>1. <<"tear">> \o << >> = <<"tear">>
    OBVIOUS
  <2>2. Retiring = <<"tear">> \o <<"own", "tomb">>
    BY <1>3, <2>1 DEF Retiring, StopMember
  <2>3. Retiring \in Seq(Proofs) /\ Len(Retiring) = 3
    BY <1>1, <2>2
  <2>4. Retiring[1] = "tear" /\ Retiring[2] = "own" /\ Retiring[3] = "tomb"
    BY <1>1, <2>2
  <2>5. t \in Seq(Proofs) /\ Len(t) = 3
    BY DEF Proofs
  <2>6. \A i \in 1 .. 3 : Retiring[i] = t[i]
    BY <2>4
  <2>7. Retiring = t
    BY <2>3, <2>5, <2>6, SeqEqual
  <2> QED
    BY <1>3, <2>3, <2>7 DEF SourceSets
<1> QED
  BY <1>2, <1>3

(* Every step of a coordinator and a kill keep the invariant.              *)
LEMMA StepRetirementInv == RetirementInv /\ [Next]_vars => RetirementInv'
<1> SUFFICES ASSUME RetirementInv, [Next]_vars PROVE RetirementInv'
  OBVIOUS
<1>a. /\ DiskType /\ TxnType /\ MemoryType /\ UsedType /\ ControlInv
      /\ RoomInv /\ CredentialsAreOwned /\ RefusalsAreExplained
      /\ TornDownIsComplete
  BY DEF RetirementInv, TypeInv
<1>b. ExactInv /\ SoundInv /\ StageInv
  BY DEF RetirementInv
<1>c. file \in [Proofs -> Inodes \cup {0}]
  BY <1>a DEF DiskType
<1>d. Open => /\ Size \in {3, 4} /\ Done \in 0 .. 4 /\ Done <= Size
              /\ Left = Size - Done /\ Left \in Nat
  BY <1>a, LeftBounds DEF TypeInv
<1> USE RetirementConstants DEF Proofs
<1>1. CASE Start
  <2>1. DiskType'
    BY <1>1, <1>a DEF Start, Spend, DiskKept, disk, DiskType
  <2>2. TxnType'
    BY <1>1, <1>a DEF Start, Spend, DiskKept, disk, TxnType, Open
  <2>3. MemoryType'
    BY <1>1, <1>a DEF Start, Spend, DiskKept, disk, MemoryType, Opening,
       Closing
  <2>4. UsedType'
    BY <1>1, <1>a DEF Start, Spend, DiskKept, disk, UsedType
  <2>5. ControlInv'
    BY <1>1, <1>a DEF Start, Spend, DiskKept, disk, ControlInv, Open
  <2>6. RoomInv'
    BY <1>1, <1>a, <1>d DEF Start, Spend, DiskKept, disk, RoomInv, Left,
       Size, Done, Open, Fits, Retiring, StopMember, Active
  <2>7. ExactInv'
    BY <1>1, <1>a, <1>b, <1>c DEF Start, Spend, DiskKept, disk, ExactInv,
       Exact, ControlInv, Left, Size, Done, Open, Active, TombstoneStands
  <2>8. SoundInv'
    BY <1>1, <1>a, <1>b, <1>c DEF Start, Spend, DiskKept, disk, SoundInv,
       Sound, ControlInv, StageInv, Open, Active, TombstoneStands
  <2>9. StageInv'
    BY <1>1, <1>a, <1>b, <1>c DEF Start, Spend, DiskKept, disk, StageInv,
       ControlInv, Left, Size, Done, Open, Active, TombstoneStands,
       ProofsStand
  <2>10. CredentialsAreOwned'
    BY <1>1, <1>a, <1>b, <1>c DEF Start, Spend, DiskKept, disk,
       CredentialsAreOwned, StageInv, ControlInv, Active
  <2>11. RefusalsAreExplained'
    BY <1>1, <1>a, <1>b, <1>c DEF Start, Spend, DiskKept, disk,
       RefusalsAreExplained, ControlInv, Active, Retiring, StopMember, Fits,
       Open
  <2>12. TornDownIsComplete'
    BY <1>1, <1>a, <1>b, <1>c DEF Start, Spend, DiskKept, disk,
       TornDownIsComplete, StageInv, Active, TombstoneStands
  <2> QED
    BY <2>1, <2>2, <2>3, <2>4, <2>5, <2>6, <2>7, <2>8, <2>9, <2>10, <2>11, <2>12
       DEF RetirementInv, TypeInv
<1>2. CASE ArchiveRefuses
  <2>1. DiskType'
    BY <1>2, <1>a DEF ArchiveRefuses, Refuse, DiskKept, disk, DiskType
  <2>2. TxnType'
    BY <1>2, <1>a DEF ArchiveRefuses, Refuse, DiskKept, disk, TxnType, Open
  <2>3. MemoryType'
    BY <1>2, <1>a DEF ArchiveRefuses, Refuse, DiskKept, disk, MemoryType,
       Opening, Closing
  <2>4. UsedType'
    BY <1>2, <1>a DEF ArchiveRefuses, Refuse, DiskKept, disk, UsedType
  <2>5. ControlInv'
    BY <1>2, <1>a DEF ArchiveRefuses, Refuse, DiskKept, disk, ControlInv, Open
  <2>6. RoomInv'
    BY <1>2, <1>a, <1>d DEF ArchiveRefuses, Refuse, DiskKept, disk, RoomInv,
       Left, Size, Done, Open, Fits, Retiring, StopMember, Active
  <2>7. ExactInv'
    BY <1>2, <1>a, <1>b, <1>c DEF ArchiveRefuses, Refuse, DiskKept, disk,
       ExactInv, Exact, ControlInv, Left, Size, Done, Open, Active,
       TombstoneStands
  <2>8. SoundInv'
    BY <1>2, <1>a, <1>b, <1>c DEF ArchiveRefuses, Refuse, DiskKept, disk,
       SoundInv, Sound, ControlInv, StageInv, Open, Active, TombstoneStands
  <2>9. StageInv'
    BY <1>2, <1>a, <1>b, <1>c DEF ArchiveRefuses, Refuse, DiskKept, disk,
       StageInv, ControlInv, Left, Size, Done, Open, Active, TombstoneStands,
       ProofsStand
  <2>10. CredentialsAreOwned'
    BY <1>2, <1>a, <1>b, <1>c DEF ArchiveRefuses, Refuse, DiskKept, disk,
       CredentialsAreOwned, StageInv, ControlInv, Active
  <2>11. RefusalsAreExplained'
    <3>1. Decodable
      BY <1>a DEF Decodable, TxnType, Transactions, Open
    <3>2. torn' /\ resumes'
      BY <1>2, <3>1, <1>a DEF ArchiveRefuses, Refuse, DiskKept, disk, ControlInv
    <3> QED
      BY <3>2 DEF RefusalsAreExplained
  <2>12. TornDownIsComplete'
    BY <1>2, <1>a, <1>b, <1>c DEF ArchiveRefuses, Refuse, DiskKept, disk,
       TornDownIsComplete, StageInv, Active, TombstoneStands
  <2> QED
    BY <2>1, <2>2, <2>3, <2>4, <2>5, <2>6, <2>7, <2>8, <2>9, <2>10, <2>11, <2>12
       DEF RetirementInv, TypeInv
<1>3. CASE NothingToReconcile
  <2>1. DiskType'
    BY <1>3, <1>a DEF NothingToReconcile, Enter, DiskKept, disk, DiskType
  <2>2. TxnType'
    BY <1>3, <1>a DEF NothingToReconcile, Enter, DiskKept, disk, TxnType, Open
  <2>3. MemoryType'
    BY <1>3, <1>a DEF NothingToReconcile, Enter, DiskKept, disk, MemoryType,
       Opening, Closing
  <2>4. UsedType'
    BY <1>3, <1>a DEF NothingToReconcile, Enter, DiskKept, disk, UsedType
  <2>5. ControlInv'
    BY <1>3, <1>a DEF NothingToReconcile, Enter, DiskKept, disk, ControlInv,
       Open
  <2>6. RoomInv'
    BY <1>3, <1>a, <1>d DEF NothingToReconcile, Enter, DiskKept, disk,
       RoomInv, Left, Size, Done, Open, Fits, Retiring, StopMember, Active
  <2>7. ExactInv'
    BY <1>3, <1>a, <1>b, <1>c DEF NothingToReconcile, Enter, DiskKept, disk,
       ExactInv, Exact, ControlInv, Left, Size, Done, Open, Active,
       TombstoneStands
  <2>8. SoundInv'
    BY <1>3, <1>a, <1>b, <1>c DEF NothingToReconcile, Enter, DiskKept, disk,
       SoundInv, Sound, ControlInv, StageInv, Open, Active, TombstoneStands
  <2>9. StageInv'
    BY <1>3, <1>a, <1>b, <1>c DEF NothingToReconcile, Enter, DiskKept, disk,
       StageInv, ControlInv, Left, Size, Done, Open, Active, TombstoneStands,
       ProofsStand
  <2>10. CredentialsAreOwned'
    BY <1>3, <1>a, <1>b, <1>c DEF NothingToReconcile, Enter, DiskKept, disk,
       CredentialsAreOwned, StageInv, ControlInv, Active
  <2>11. RefusalsAreExplained'
    BY <1>3, <1>a, <1>b, <1>c DEF NothingToReconcile, Enter, DiskKept, disk,
       RefusalsAreExplained, ControlInv, Active, Retiring, StopMember, Fits,
       Open
  <2>12. TornDownIsComplete'
    BY <1>3, <1>a, <1>b, <1>c DEF NothingToReconcile, Enter, DiskKept, disk,
       TornDownIsComplete, StageInv, Active, TombstoneStands
  <2> QED
    BY <2>1, <2>2, <2>3, <2>4, <2>5, <2>6, <2>7, <2>8, <2>9, <2>10, <2>11, <2>12
       DEF RetirementInv, TypeInv
<1>4. CASE Promote
  <2>a. /\ Open /\ Open' /\ txn' \in Transactions
        /\ Size' = Size /\ Done' = Done /\ Left' = Left
        /\ txn'.stop = txn.stop
    BY <1>4, <1>a DEF Promote, TxnType, Transactions, Open, NoTxn, Size, Done,
                    Left
  <2>b. /\ UNCHANGED <<boot, auth, file, litter, archive, stored, torn>>
        /\ UNCHANGED <<cpc, resumes, held, result, crossed, used>>
        /\ cpc \in {"reconcile", "retire"}
    BY <1>4 DEF Promote, Enter
  <2>1. DiskType'
    BY <2>a, <2>b, <1>d, <1>a DEF DiskType
  <2>2. TxnType'
    BY <2>a, <1>d DEF TxnType, Size, Done
  <2>3. MemoryType'
    BY <2>a, <2>b, <1>d, <1>a DEF MemoryType, Opening, Closing
  <2>4. UsedType'
    BY <2>a, <2>b, <1>d, <1>a DEF UsedType
  <2>5. ControlInv'
    BY <2>a, <2>b, <1>d, <1>a DEF ControlInv
  <2>6. RoomInv'
    BY <2>a, <2>b, <1>a DEF RoomInv
  <2>7. ExactInv'
    BY <2>a, <2>b, <1>a, <1>b DEF ExactInv, Exact, Active,
       TombstoneStands
  <2>8. SoundInv'
    BY <2>a, <2>b, <1>d, <1>a, <1>b, <1>c DEF SoundInv, Sound, ControlInv,
       StageInv, Active, TombstoneStands
  <2>9. StageInv'
    BY <2>a, <2>b, <1>a, <1>b DEF StageInv, Active,
       TombstoneStands
  <2>10. CredentialsAreOwned'
    BY <2>a, <2>b, <1>d, <1>a, <1>b, <1>c DEF CredentialsAreOwned, StageInv,
       ControlInv, Active
  <2>11. RefusalsAreExplained'
    BY <2>a, <2>b, <1>d, <1>a, <1>b, <1>c DEF RefusalsAreExplained,
       ControlInv, Active
  <2>12. TornDownIsComplete'
    BY <2>a, <2>b, <1>d, <1>a, <1>b, <1>c DEF TornDownIsComplete, StageInv,
       Active, TombstoneStands
  <2> QED
    BY <2>1, <2>2, <2>3, <2>4, <2>5, <2>6, <2>7, <2>8, <2>9, <2>10, <2>11, <2>12
       DEF RetirementInv, TypeInv
<1>5. CASE MoveMember
  <2>a. Open /\ ~AllMoved /\ Done \in 0 .. 3
    BY <1>5, <1>a, MemberByPlace DEF MoveMember, Moving, Open, NoTxn, TypeInv
  <2>b. /\ Open' /\ txn' \in Transactions
        /\ Size' = Size /\ Done' = Done + 1 /\ txn'.stop = txn.stop
    BY <1>5, <2>a, <1>a DEF MoveMember, TxnType, Transactions, Open, NoTxn,
                          Size, Done
  <2>c. /\ Size \in {3, 4} /\ Left \in 1 .. 4 /\ Left = Size - Done
        /\ Left' = Size - (Done + 1)
        /\ Member = IF Left = 1 THEN "tomb" ELSE IF Left = 2 THEN "own"
                    ELSE IF Done = 0 THEN "tear" ELSE "stop"
    BY <2>a, <2>b, <1>a, <1>d, MemberByPlace DEF TypeInv, Left
  <2>d. /\ UNCHANGED <<boot, auth, litter, archive, torn>>
        /\ UNCHANGED <<cpc, resumes, held, result, crossed, used>>
        /\ cpc \in {"reconcile", "retire"} /\ stored' = stored + 1
        /\ file' = [file EXCEPT ![Member] = 0]
    BY <1>5 DEF MoveMember, Moving, IsArchived, Enter
  <2>e. \A p \in Proofs : file'[p] = IF p = Member THEN 0 ELSE file[p]
    BY <2>d, <1>c
  <2>1. DiskType'
    BY <2>c, <2>d, <1>a DEF DiskType
  <2>2. TxnType'
    <3>1. Done' <= Size'
      BY <2>a, <2>b, <2>c
    <3> QED
      BY <2>b, <3>1 DEF TxnType, Size, Done
  <2>3. MemoryType'
    BY <2>a, <2>b, <2>c, <2>d, <2>e, <1>a DEF MemoryType, Opening, Closing
  <2>4. UsedType'
    BY <2>a, <2>b, <2>c, <2>d, <2>e, <1>a DEF UsedType
  <2>5. ControlInv'
    BY <2>a, <2>b, <2>c, <2>d, <2>e, <1>a DEF ControlInv
  <2>6. RoomInv'
    BY <2>a, <2>b, <2>c, <2>d, <1>a DEF RoomInv, DiskType
  <2>7. ExactInv'
    <3> SUFFICES ASSUME ~crossed \/ cpc = "retire"
                 PROVE  Exact'
      BY <2>d DEF ExactInv
    <3>1. Exact
      BY <2>a, <1>b DEF ExactInv
    <3>2. /\ boot' = 0
          /\ Active("tear")' <=> Done + 1 = 0
          /\ Active("stop")' <=> Size = 4 /\ Done + 1 < 2
          /\ Active("own")' <=> Left - 1 > 1
          /\ Active("tomb")' <=> Left - 1 > 0
      BY <2>a, <2>c, <2>d, <2>e, <3>1 DEF Exact, Active
    <3>3. /\ Active("stop")' => file'["stop"] = txn'.stop
          /\ Active("own")' => file'["tomb"] = file'["own"]
          /\ Active("tear")' => file'["tear"] = file'["tomb"]
      BY <2>a, <2>b, <2>c, <2>e, <3>1, <3>2
         DEF Exact, Active, TombstoneStands
    <3>4. Left' = Left - 1
      BY <2>a, <2>c
    <3> QED
      BY <2>b, <3>2, <3>3, <3>4 DEF Exact, TombstoneStands
  <2>8. SoundInv'
    BY <2>a, <2>b, <2>c, <2>d, <2>e, <1>a, <1>b, <1>c DEF SoundInv, Sound,
       ControlInv, StageInv, Active, TombstoneStands
  <2>9. StageInv'
    BY <2>a, <2>b, <2>c, <2>d, <2>e, <1>a, <1>b, <1>c DEF StageInv,
       ControlInv, Active, TombstoneStands, ProofsStand
  <2>10. CredentialsAreOwned'
    BY <2>a, <2>b, <2>c, <2>d, <2>e, <1>a, <1>b, <1>c DEF
       CredentialsAreOwned, StageInv, ControlInv, Active
  <2>11. RefusalsAreExplained'
    BY <2>a, <2>b, <2>c, <2>d, <2>e, <1>a, <1>b, <1>c DEF
       RefusalsAreExplained, ControlInv, Active
  <2>12. TornDownIsComplete'
    BY <2>a, <2>b, <2>c, <2>d, <2>e, <1>a, <1>b, <1>c DEF TornDownIsComplete,
       StageInv, Active, TombstoneStands
  <2> QED
    BY <2>1, <2>2, <2>3, <2>4, <2>5, <2>6, <2>7, <2>8, <2>9, <2>10, <2>11, <2>12
       DEF RetirementInv, TypeInv
<1>6. CASE MemberChanged
  <2>1. DiskType'
    BY <1>6, <1>a DEF MemberChanged, Moving, AllMoved, AsRecorded, Refuse,
       DiskKept, disk, DiskType
  <2>2. TxnType'
    BY <1>6, <1>a DEF MemberChanged, Moving, AllMoved, AsRecorded, Refuse,
       DiskKept, disk, TxnType, Open
  <2>3. MemoryType'
    BY <1>6, <1>a DEF MemberChanged, Moving, AllMoved, AsRecorded, Refuse,
       DiskKept, disk, MemoryType, Opening, Closing
  <2>4. UsedType'
    BY <1>6, <1>a DEF MemberChanged, Moving, AllMoved, AsRecorded, Refuse,
       DiskKept, disk, UsedType
  <2>5. ControlInv'
    BY <1>6, <1>a DEF MemberChanged, Moving, AllMoved, AsRecorded, Refuse,
       DiskKept, disk, ControlInv, Open
  <2>6. RoomInv'
    BY <1>6, <1>a, <1>d DEF MemberChanged, Moving, AllMoved, AsRecorded,
       Refuse, DiskKept, disk, RoomInv, Left, Size, Done, Open, Fits,
       Retiring, StopMember, Active
  <2>7. ExactInv'
    BY <1>6, <1>a, <1>b, <1>c DEF MemberChanged, Moving, AllMoved,
       AsRecorded, Refuse, DiskKept, disk, ExactInv, Exact, ControlInv, Left,
       Size, Done, Open, Active, TombstoneStands
  <2>8. SoundInv'
    BY <1>6, <1>a, <1>b, <1>c DEF MemberChanged, Moving, AllMoved,
       AsRecorded, Refuse, DiskKept, disk, SoundInv, Sound, ControlInv,
       StageInv, Open, Active, TombstoneStands
  <2>9. StageInv'
    BY <1>6, <1>a, <1>b, <1>c DEF MemberChanged, Moving, AllMoved,
       AsRecorded, Refuse, DiskKept, disk, StageInv, ControlInv, Left, Size,
       Done, Open, Active, TombstoneStands, ProofsStand
  <2>10. CredentialsAreOwned'
    BY <1>6, <1>a, <1>b, <1>c DEF MemberChanged, Moving, AllMoved,
       AsRecorded, Refuse, DiskKept, disk, CredentialsAreOwned, StageInv,
       ControlInv, Active
  <2>11. RefusalsAreExplained'
    <3>1. Open /\ cpc = "reconcile" /\ ~AllMoved
      BY <1>6 DEF MemberChanged, Moving, Open, NoTxn
    <3>2. /\ Left \in 1 .. 4 /\ Size \in {3, 4} /\ Left = Size - Done
          /\ Done \in 0 .. 3
          /\ Member = IF Left = 1 THEN "tomb" ELSE IF Left = 2 THEN "own"
                      ELSE IF Done = 0 THEN "tear" ELSE "stop"
      BY <1>a, <1>d, <3>1, MemberByPlace DEF TypeInv
    <3>3. Exact => AsRecorded(Member)
      BY <3>2 DEF Exact, AsRecorded, Active
    <3>4. crossed
      BY <1>6, <3>1, <3>3, <1>b DEF MemberChanged, ExactInv
    <3> QED
      BY <1>6, <3>4 DEF MemberChanged, Refuse, RefusalsAreExplained
  <2>12. TornDownIsComplete'
    BY <1>6, <1>a, <1>b, <1>c DEF MemberChanged, Moving, AllMoved,
       AsRecorded, Refuse, DiskKept, disk, TornDownIsComplete, StageInv,
       Active, TombstoneStands
  <2> QED
    BY <2>1, <2>2, <2>3, <2>4, <2>5, <2>6, <2>7, <2>8, <2>9, <2>10, <2>11, <2>12
       DEF RetirementInv, TypeInv
<1>7. CASE Complete
  <2>a. Open /\ Done = Size
    BY <1>7 DEF Complete, Moving, AllMoved, Open, NoTxn, Done, Size
  <2>b. Left = 0 /\ Done \in {3, 4} /\ Fits(1)
    BY <2>a, <1>a, <1>d DEF RoomInv, Fits, DiskType
  <2>c. /\ txn' = NoTxn /\ stored' = stored + 1
        /\ UNCHANGED <<boot, auth, file, litter, archive, torn>>
        /\ UNCHANGED <<resumes, held, result, crossed, used>>
        /\ cpc \in {"reconcile", "retire"}
        /\ cpc' = IF cpc = "retire" THEN "mkdir" ELSE "flags"
    BY <1>7, <2>b DEF Complete, Moving, Enter
  <2>d. Exact => /\ ~Active("tear") /\ ~Active("stop")
                 /\ ~Active("own") /\ ~Active("tomb") /\ boot = 0
    BY <2>b DEF Exact
  <2>1. DiskType'
    BY <1>7, <1>a DEF Complete, Moving, AllMoved, Enter, Refuse, DiskType
  <2>2. TxnType'
    BY <2>c DEF TxnType, Open
  <2>3. MemoryType'
    BY <1>7, <1>a DEF Complete, Moving, AllMoved, Enter, Refuse, MemoryType,
       Opening, Closing
  <2>4. UsedType'
    BY <1>7, <1>a DEF Complete, Moving, AllMoved, Enter, Refuse, UsedType
  <2>5. ControlInv'
    BY <1>7, <1>a DEF Complete, Moving, AllMoved, Enter, Refuse, ControlInv,
       Open
  <2>6. RoomInv'
    BY <2>a, <2>b, <2>c, <1>a DEF RoomInv, Open, DiskType
  <2>7. ExactInv'
    BY <2>c DEF ExactInv, Open
  <2>8. SoundInv'
    BY <2>a, <2>c, <2>d, <1>b DEF SoundInv, Sound, ExactInv, Open, Active
  <2>9. StageInv'
    BY <2>a, <2>c, <2>d, <1>b DEF StageInv, ExactInv, Open, Active
  <2>10. CredentialsAreOwned'
    BY <1>7, <1>a, <1>b, <1>c DEF Complete, Moving, AllMoved, Enter, Refuse,
       CredentialsAreOwned, StageInv, ControlInv, Active
  <2>11. RefusalsAreExplained'
    BY <2>c, <1>a DEF RefusalsAreExplained, ControlInv, MemoryType
  <2>12. TornDownIsComplete'
    BY <1>7, <1>a, <1>b, <1>c DEF Complete, Moving, AllMoved, Enter, Refuse,
       TornDownIsComplete, StageInv, Active, TombstoneStands
  <2> QED
    BY <2>1, <2>2, <2>3, <2>4, <2>5, <2>6, <2>7, <2>8, <2>9, <2>10, <2>11, <2>12
       DEF RetirementInv, TypeInv
<1>8. CASE OpenForCleanup
  <2>1. DiskType'
    BY <1>8, <1>a DEF OpenForCleanup, CleanupOnly, Fail, Enter, Refuse,
       DiskKept, disk, DiskType
  <2>2. TxnType'
    BY <1>8, <1>a DEF OpenForCleanup, CleanupOnly, Fail, Enter, Refuse,
       DiskKept, disk, TxnType, Open
  <2>3. MemoryType'
    BY <1>8, <1>a DEF OpenForCleanup, CleanupOnly, Fail, Enter, Refuse,
       DiskKept, disk, MemoryType, Opening, Closing
  <2>4. UsedType'
    BY <1>8, <1>a DEF OpenForCleanup, CleanupOnly, Fail, Enter, Refuse,
       DiskKept, disk, UsedType
  <2>5. ControlInv'
    BY <1>8, <1>a DEF OpenForCleanup, CleanupOnly, Fail, Enter, Refuse,
       DiskKept, disk, ControlInv, Open
  <2>6. RoomInv'
    BY <1>8, <1>a, <1>d DEF OpenForCleanup, CleanupOnly, Fail, Enter, Refuse,
       DiskKept, disk, RoomInv, Left, Size, Done, Open, Fits, Retiring,
       StopMember, Active
  <2>7. ExactInv'
    BY <1>8, <1>a, <1>b, <1>c DEF OpenForCleanup, CleanupOnly, Fail, Enter,
       Refuse, DiskKept, disk, ExactInv, Exact, ControlInv, Left, Size, Done,
       Open, Active, TombstoneStands
  <2>8. SoundInv'
    BY <1>8, <1>a, <1>b, <1>c DEF OpenForCleanup, CleanupOnly, Fail, Enter,
       Refuse, DiskKept, disk, SoundInv, Sound, ControlInv, StageInv, Open,
       Active, TombstoneStands
  <2>9. StageInv'
    BY <1>8, <1>a, <1>b, <1>c DEF OpenForCleanup, CleanupOnly, Fail, Enter,
       Refuse, DiskKept, disk, StageInv, ControlInv, Left, Size, Done, Open,
       Active, TombstoneStands, ProofsStand
  <2>10. CredentialsAreOwned'
    BY <1>8, <1>a, <1>b, <1>c DEF OpenForCleanup, CleanupOnly, Fail, Enter,
       Refuse, DiskKept, disk, CredentialsAreOwned, StageInv, ControlInv,
       Active
  <2>11. RefusalsAreExplained'
    <3>1. CASE result' # "refused"
      BY <3>1 DEF RefusalsAreExplained
    <3>2. CASE result' = "refused"
      <4>1. crossed
        BY <1>8, <3>2, <1>a, <1>b, <1>c DEF OpenForCleanup, CleanupOnly, Fail,
           Enter, Refuse, DiskKept, disk, ControlInv, SoundInv, Sound, Open,
           Active
      <4>2. /\ UNCHANGED <<boot, auth, file, litter, archive, stored, torn>>
            /\ UNCHANGED <<txn, resumes, crossed>>
        BY <1>8, <3>2, <1>a DEF OpenForCleanup, CleanupOnly, Fail, Enter,
           Refuse, DiskKept, disk, ControlInv, MemoryType
      <4> QED
        BY <4>1, <4>2 DEF RefusalsAreExplained, Active
    <3> QED
      BY <3>1, <3>2
  <2>12. TornDownIsComplete'
    BY <1>8, <1>a, <1>b, <1>c DEF OpenForCleanup, CleanupOnly, Fail, Enter,
       Refuse, DiskKept, disk, TornDownIsComplete, StageInv, Active,
       TombstoneStands
  <2> QED
    BY <2>1, <2>2, <2>3, <2>4, <2>5, <2>6, <2>7, <2>8, <2>9, <2>10, <2>11, <2>12
       DEF RetirementInv, TypeInv
<1>9. CASE Reopen
  <2>1. DiskType'
    BY <1>9, <1>a DEF Reopen, CleanupOnly, Reopenable, Fail, Enter, Refuse,
       DiskKept, disk, DiskType
  <2>2. TxnType'
    BY <1>9, <1>a DEF Reopen, CleanupOnly, Reopenable, Fail, Enter, Refuse,
       DiskKept, disk, TxnType, Open
  <2>3. MemoryType'
    BY <1>9, <1>a DEF Reopen, CleanupOnly, Reopenable, Fail, Enter, Refuse,
       DiskKept, disk, MemoryType, Opening, Closing
  <2>4. UsedType'
    BY <1>9, <1>a DEF Reopen, CleanupOnly, Reopenable, Fail, Enter, Refuse,
       DiskKept, disk, UsedType
  <2>5. ControlInv'
    BY <1>9, <1>a DEF Reopen, CleanupOnly, Reopenable, Fail, Enter, Refuse,
       DiskKept, disk, ControlInv, Open
  <2>6. RoomInv'
    BY <1>9, <1>a, <1>d DEF Reopen, CleanupOnly, Reopenable, Fail, Enter,
       Refuse, DiskKept, disk, RoomInv, Left, Size, Done, Open, Fits,
       Retiring, StopMember, Active
  <2>7. ExactInv'
    BY <1>9, <1>a, <1>b, <1>c DEF Reopen, CleanupOnly, Reopenable, Fail,
       Enter, Refuse, DiskKept, disk, ExactInv, Exact, ControlInv, Left,
       Size, Done, Open, Active, TombstoneStands
  <2>8. SoundInv'
    BY <1>9, <1>a, <1>b, <1>c DEF Reopen, CleanupOnly, Reopenable, Fail,
       Enter, Refuse, DiskKept, disk, SoundInv, Sound, ControlInv, StageInv,
       Open, Active, TombstoneStands
  <2>9. StageInv'
    BY <1>9, <1>a, <1>b, <1>c DEF Reopen, CleanupOnly, Reopenable, Fail,
       Enter, Refuse, DiskKept, disk, StageInv, ControlInv, Left, Size, Done,
       Open, Active, TombstoneStands, ProofsStand
  <2>10. CredentialsAreOwned'
    BY <1>9, <1>a, <1>b, <1>c DEF Reopen, CleanupOnly, Reopenable, Fail,
       Enter, Refuse, DiskKept, disk, CredentialsAreOwned, StageInv,
       ControlInv, Active
  <2>11. RefusalsAreExplained'
    <3>1. CASE result' # "refused"
      BY <3>1 DEF RefusalsAreExplained
    <3>2. CASE result' = "refused"
      <4>1. \/ litter \/ crossed
            \/ /\ resumes /\ archive /\ Active("own") /\ boot # 0
               /\ auth # "whole"
        BY <1>9, <3>2, <1>a, <1>b, <1>c DEF Reopen, CleanupOnly, Reopenable,
           Fail, Enter, Refuse, DiskKept, disk, ControlInv, SoundInv, Sound,
           Open, Active
      <4>2. /\ UNCHANGED <<boot, auth, file, litter, archive, stored, torn>>
            /\ UNCHANGED <<txn, resumes, crossed>>
        BY <1>9, <3>2, <1>a DEF Reopen, CleanupOnly, Reopenable, Fail, Enter,
           Refuse, DiskKept, disk, ControlInv, MemoryType
      <4> QED
        BY <4>1, <4>2 DEF RefusalsAreExplained, Active
    <3> QED
      BY <3>1, <3>2
  <2>12. TornDownIsComplete'
    BY <1>9, <1>a, <1>b, <1>c DEF Reopen, CleanupOnly, Reopenable, Fail,
       Enter, Refuse, DiskKept, disk, TornDownIsComplete, StageInv, Active,
       TombstoneStands
  <2> QED
    BY <2>1, <2>2, <2>3, <2>4, <2>5, <2>6, <2>7, <2>8, <2>9, <2>10, <2>11, <2>12
       DEF RetirementInv, TypeInv
<1>10. CASE OpenUnarmed
  <2>1. DiskType'
    BY <1>10, <1>a DEF OpenUnarmed, CleanupOnly, Enter, DiskKept, disk,
       DiskType
  <2>2. TxnType'
    BY <1>10, <1>a DEF OpenUnarmed, CleanupOnly, Enter, DiskKept, disk,
       TxnType, Open
  <2>3. MemoryType'
    BY <1>10, <1>a DEF OpenUnarmed, CleanupOnly, Enter, DiskKept, disk,
       MemoryType, Opening, Closing
  <2>4. UsedType'
    BY <1>10, <1>a DEF OpenUnarmed, CleanupOnly, Enter, DiskKept, disk,
       UsedType
  <2>5. ControlInv'
    BY <1>10, <1>a DEF OpenUnarmed, CleanupOnly, Enter, DiskKept, disk,
       ControlInv, Open
  <2>6. RoomInv'
    BY <1>10, <1>a, <1>d DEF OpenUnarmed, CleanupOnly, Enter, DiskKept, disk,
       RoomInv, Left, Size, Done, Open, Fits, Retiring, StopMember, Active
  <2>7. ExactInv'
    BY <1>10, <1>a, <1>b, <1>c DEF OpenUnarmed, CleanupOnly, Enter, DiskKept,
       disk, ExactInv, Exact, ControlInv, Left, Size, Done, Open, Active,
       TombstoneStands
  <2>8. SoundInv'
    BY <1>10, <1>a, <1>b, <1>c DEF OpenUnarmed, CleanupOnly, Enter, DiskKept,
       disk, SoundInv, Sound, ControlInv, StageInv, Open, Active,
       TombstoneStands
  <2>9. StageInv'
    BY <1>10, <1>a, <1>b, <1>c DEF OpenUnarmed, CleanupOnly, Enter, DiskKept,
       disk, StageInv, ControlInv, Left, Size, Done, Open, Active,
       TombstoneStands, ProofsStand
  <2>10. CredentialsAreOwned'
    BY <1>10, <1>a, <1>b, <1>c DEF OpenUnarmed, CleanupOnly, Enter, DiskKept,
       disk, CredentialsAreOwned, StageInv, ControlInv, Active
  <2>11. RefusalsAreExplained'
    BY <1>10, <1>a, <1>b, <1>c DEF OpenUnarmed, CleanupOnly, Enter, DiskKept,
       disk, RefusalsAreExplained, ControlInv, Active, Retiring, StopMember,
       Fits, Open
  <2>12. TornDownIsComplete'
    BY <1>10, <1>a, <1>b, <1>c DEF OpenUnarmed, CleanupOnly, Enter, DiskKept,
       disk, TornDownIsComplete, StageInv, Active, TombstoneStands
  <2> QED
    BY <2>1, <2>2, <2>3, <2>4, <2>5, <2>6, <2>7, <2>8, <2>9, <2>10, <2>11, <2>12
       DEF RetirementInv, TypeInv
<1>11. CASE OpenTornDown
  <2>1. DiskType'
    BY <1>11, <1>a DEF OpenTornDown, CleanupOnly, Enter, DiskKept, disk,
       DiskType
  <2>2. TxnType'
    BY <1>11, <1>a DEF OpenTornDown, CleanupOnly, Enter, DiskKept, disk,
       TxnType, Open
  <2>3. MemoryType'
    BY <1>11, <1>a DEF OpenTornDown, CleanupOnly, Enter, DiskKept, disk,
       MemoryType, Opening, Closing
  <2>4. UsedType'
    BY <1>11, <1>a DEF OpenTornDown, CleanupOnly, Enter, DiskKept, disk,
       UsedType
  <2>5. ControlInv'
    BY <1>11, <1>a DEF OpenTornDown, CleanupOnly, Enter, DiskKept, disk,
       ControlInv, Open
  <2>6. RoomInv'
    BY <1>11, <1>a, <1>d DEF OpenTornDown, CleanupOnly, Enter, DiskKept,
       disk, RoomInv, Left, Size, Done, Open, Fits, Retiring, StopMember,
       Active
  <2>7. ExactInv'
    BY <1>11, <1>a, <1>b, <1>c DEF OpenTornDown, CleanupOnly, Enter,
       DiskKept, disk, ExactInv, Exact, ControlInv, Left, Size, Done, Open,
       Active, TombstoneStands
  <2>8. SoundInv'
    BY <1>11, <1>a, <1>b, <1>c DEF OpenTornDown, CleanupOnly, Enter,
       DiskKept, disk, SoundInv, Sound, ControlInv, StageInv, Open, Active,
       TombstoneStands
  <2>9. StageInv'
    BY <1>11, <1>a, <1>b, <1>c DEF OpenTornDown, CleanupOnly, Enter,
       DiskKept, disk, StageInv, ControlInv, Left, Size, Done, Open, Active,
       TombstoneStands, ProofsStand
  <2>10. CredentialsAreOwned'
    BY <1>11, <1>a, <1>b, <1>c DEF OpenTornDown, CleanupOnly, Enter,
       DiskKept, disk, CredentialsAreOwned, StageInv, ControlInv, Active
  <2>11. RefusalsAreExplained'
    BY <1>11, <1>a, <1>b, <1>c DEF OpenTornDown, CleanupOnly, Enter,
       DiskKept, disk, RefusalsAreExplained, ControlInv, Active, Retiring,
       StopMember, Fits, Open
  <2>12. TornDownIsComplete'
    BY <1>11, <1>a, <1>b, <1>c DEF OpenTornDown, CleanupOnly, Enter,
       DiskKept, disk, TornDownIsComplete, StageInv, Active, TombstoneStands
  <2> QED
    BY <2>1, <2>2, <2>3, <2>4, <2>5, <2>6, <2>7, <2>8, <2>9, <2>10, <2>11, <2>12
       DEF RetirementInv, TypeInv
<1>12. CASE MakeBootstrap
  <2>1. DiskType'
    BY <1>12, <1>a DEF MakeBootstrap, Fail, Enter, Refuse, DiskType
  <2>2. TxnType'
    BY <1>12, <1>a DEF MakeBootstrap, Fail, Enter, Refuse, TxnType, Open
  <2>3. MemoryType'
    BY <1>12, <1>a DEF MakeBootstrap, Fail, Enter, Refuse, MemoryType,
       Opening, Closing
  <2>4. UsedType'
    BY <1>12, <1>a DEF MakeBootstrap, Fail, Enter, Refuse, UsedType
  <2>5. ControlInv'
    BY <1>12, <1>a DEF MakeBootstrap, Fail, Enter, Refuse, ControlInv, Open
  <2>6. RoomInv'
    BY <1>12, <1>a, <1>d DEF MakeBootstrap, Fail, Enter, Refuse, RoomInv,
       Left, Size, Done, Open, Fits, Retiring, StopMember, Active
  <2>7. ExactInv'
    BY <1>12, <1>a, <1>b, <1>c DEF MakeBootstrap, Fail, Enter, Refuse,
       ExactInv, Exact, ControlInv, Left, Size, Done, Open, Active,
       TombstoneStands
  <2>8. SoundInv'
    BY <1>12, <1>a, <1>b, <1>c DEF MakeBootstrap, Fail, Enter, Refuse,
       SoundInv, Sound, ControlInv, StageInv, Open, Active, TombstoneStands
  <2>9. StageInv'
    BY <1>12, <1>a, <1>b, <1>c DEF MakeBootstrap, Fail, Enter, Refuse,
       StageInv, ControlInv, Left, Size, Done, Open, Active, TombstoneStands,
       ProofsStand, CredentialsAreOwned, DiskType
  <2>10. CredentialsAreOwned'
    BY <1>12, <1>a, <1>b, <1>c DEF MakeBootstrap, Fail, Enter, Refuse,
       CredentialsAreOwned, StageInv, ControlInv, Active
  <2>11. RefusalsAreExplained'
    <3>1. CASE result' # "refused"
      BY <3>1 DEF RefusalsAreExplained
    <3>2. CASE result' = "refused"
      <4>1. boot # 0 /\ ~Active("own")
        BY <1>12, <3>2, <1>a, <1>b, <1>c DEF MakeBootstrap, Fail, Enter, Refuse,
           ControlInv, StageInv, Active
      <4>2. /\ UNCHANGED <<boot, auth, file, litter, archive, stored, torn>>
            /\ UNCHANGED <<txn, resumes, crossed>>
        BY <1>12, <3>2, <1>a DEF MakeBootstrap, Fail, Enter, Refuse, ControlInv,
           MemoryType
      <4> QED
        BY <4>1, <4>2 DEF RefusalsAreExplained, Active
    <3> QED
      BY <3>1, <3>2
  <2>12. TornDownIsComplete'
    BY <1>12, <1>a, <1>b, <1>c DEF MakeBootstrap, Fail, Enter, Refuse,
       TornDownIsComplete, StageInv, Active, TombstoneStands
  <2> QED
    BY <2>1, <2>2, <2>3, <2>4, <2>5, <2>6, <2>7, <2>8, <2>9, <2>10, <2>11, <2>12
       DEF RetirementInv, TypeInv
<1>13. CASE RecordOwnership
  <2>1. DiskType'
    BY <1>13, <1>a DEF RecordOwnership, Enter, DiskType
  <2>2. TxnType'
    BY <1>13, <1>a DEF RecordOwnership, Enter, TxnType, Open
  <2>3. MemoryType'
    BY <1>13, <1>a DEF RecordOwnership, Enter, MemoryType, Opening, Closing
  <2>4. UsedType'
    BY <1>13, <1>a DEF RecordOwnership, Enter, UsedType
  <2>5. ControlInv'
    BY <1>13, <1>a DEF RecordOwnership, Enter, ControlInv, Open
  <2>6. RoomInv'
    BY <1>13, <1>a, <1>d DEF RecordOwnership, Enter, RoomInv, Left, Size,
       Done, Open, Fits, Retiring, StopMember, Active
  <2>7. ExactInv'
    BY <1>13, <1>a, <1>b, <1>c DEF RecordOwnership, Enter, ExactInv, Exact,
       ControlInv, Left, Size, Done, Open, Active, TombstoneStands
  <2>8. SoundInv'
    BY <1>13, <1>a, <1>b, <1>c DEF RecordOwnership, Enter, SoundInv, Sound,
       ControlInv, StageInv, Open, Active, TombstoneStands
  <2>9. StageInv'
    BY <1>13, <1>a, <1>b, <1>c DEF RecordOwnership, Enter, StageInv,
       ControlInv, Left, Size, Done, Open, Active, TombstoneStands,
       ProofsStand
  <2>10. CredentialsAreOwned'
    BY <1>13, <1>a, <1>b, <1>c DEF RecordOwnership, Enter,
       CredentialsAreOwned, StageInv, ControlInv, Active
  <2>11. RefusalsAreExplained'
    BY <1>13, <1>a, <1>b, <1>c DEF RecordOwnership, Enter,
       RefusalsAreExplained, ControlInv, Active, Retiring, StopMember, Fits,
       Open
  <2>12. TornDownIsComplete'
    BY <1>13, <1>a, <1>b, <1>c DEF RecordOwnership, Enter,
       TornDownIsComplete, StageInv, Active, TombstoneStands
  <2> QED
    BY <2>1, <2>2, <2>3, <2>4, <2>5, <2>6, <2>7, <2>8, <2>9, <2>10, <2>11, <2>12
       DEF RetirementInv, TypeInv
<1>14. CASE CopyAuth
  <2>1. DiskType'
    BY <1>14, <1>a DEF CopyAuth, Enter, DiskType
  <2>2. TxnType'
    BY <1>14, <1>a DEF CopyAuth, Enter, TxnType, Open
  <2>3. MemoryType'
    BY <1>14, <1>a DEF CopyAuth, Enter, MemoryType, Opening, Closing
  <2>4. UsedType'
    BY <1>14, <1>a DEF CopyAuth, Enter, UsedType
  <2>5. ControlInv'
    BY <1>14, <1>a DEF CopyAuth, Enter, ControlInv, Open
  <2>6. RoomInv'
    BY <1>14, <1>a, <1>d DEF CopyAuth, Enter, RoomInv, Left, Size, Done,
       Open, Fits, Retiring, StopMember, Active
  <2>7. ExactInv'
    BY <1>14, <1>a, <1>b, <1>c DEF CopyAuth, Enter, ExactInv, Exact,
       ControlInv, Left, Size, Done, Open, Active, TombstoneStands
  <2>8. SoundInv'
    BY <1>14, <1>a, <1>b, <1>c DEF CopyAuth, Enter, SoundInv, Sound,
       ControlInv, StageInv, Open, Active, TombstoneStands, DiskType
  <2>9. StageInv'
    BY <1>14, <1>a, <1>b, <1>c DEF CopyAuth, Enter, StageInv, ControlInv,
       Left, Size, Done, Open, Active, TombstoneStands, ProofsStand
  <2>10. CredentialsAreOwned'
    BY <1>14, <1>a, <1>b, <1>c DEF CopyAuth, Enter, CredentialsAreOwned,
       StageInv, ControlInv, Active, SoundInv, Sound, Open, DiskType
  <2>11. RefusalsAreExplained'
    BY <1>14, <1>a, <1>b, <1>c DEF CopyAuth, Enter, RefusalsAreExplained,
       ControlInv, Active, Retiring, StopMember, Fits, Open
  <2>12. TornDownIsComplete'
    BY <1>14, <1>a, <1>b, <1>c DEF CopyAuth, Enter, TornDownIsComplete,
       StageInv, Active, TombstoneStands
  <2> QED
    BY <2>1, <2>2, <2>3, <2>4, <2>5, <2>6, <2>7, <2>8, <2>9, <2>10, <2>11, <2>12
       DEF RetirementInv, TypeInv
<1>15. CASE Arm
  <2>1. DiskType'
    BY <1>15, <1>a DEF Arm, DiskKept, disk, DiskType
  <2>2. TxnType'
    BY <1>15, <1>a DEF Arm, DiskKept, disk, TxnType, Open
  <2>3. MemoryType'
    BY <1>15, <1>a DEF Arm, DiskKept, disk, MemoryType, Opening, Closing
  <2>4. UsedType'
    BY <1>15, <1>a DEF Arm, DiskKept, disk, UsedType
  <2>5. ControlInv'
    BY <1>15, <1>a DEF Arm, DiskKept, disk, ControlInv, Open
  <2>6. RoomInv'
    BY <1>15, <1>a, <1>d DEF Arm, DiskKept, disk, RoomInv, Left, Size, Done,
       Open, Fits, Retiring, StopMember, Active
  <2>7. ExactInv'
    BY <1>15, <1>a, <1>b, <1>c DEF Arm, DiskKept, disk, ExactInv, Exact,
       ControlInv, Left, Size, Done, Open, Active, TombstoneStands
  <2>8. SoundInv'
    BY <1>15, <1>a, <1>b, <1>c DEF Arm, DiskKept, disk, SoundInv, Sound,
       ControlInv, StageInv, Open, Active, TombstoneStands
  <2>9. StageInv'
    BY <1>15, <1>a, <1>b, <1>c DEF Arm, DiskKept, disk, StageInv, ControlInv,
       Left, Size, Done, Open, Active, TombstoneStands, ProofsStand
  <2>10. CredentialsAreOwned'
    BY <1>15, <1>a, <1>b, <1>c DEF Arm, DiskKept, disk, CredentialsAreOwned,
       StageInv, ControlInv, Active
  <2>11. RefusalsAreExplained'
    BY <1>15, <1>a, <1>b, <1>c DEF Arm, DiskKept, disk, RefusalsAreExplained,
       ControlInv, Active, Retiring, StopMember, Fits, Open
  <2>12. TornDownIsComplete'
    BY <1>15, <1>a, <1>b, <1>c DEF Arm, DiskKept, disk, TornDownIsComplete,
       StageInv, Active, TombstoneStands
  <2> QED
    BY <2>1, <2>2, <2>3, <2>4, <2>5, <2>6, <2>7, <2>8, <2>9, <2>10, <2>11, <2>12
       DEF RetirementInv, TypeInv
<1>16. CASE Rearm
  <2>a. Len(Retiring) \in {3, 4} /\ Len(Retiring)' = Len(Retiring)
    BY <1>16, RetiringShape DEF Rearm, Retiring, StopMember, Active
  <2>b. UNCHANGED <<txn, stored>> /\ Left' = Left
        /\ (cpc' = "publish" => Fits(Len(Retiring) + 2))
    BY <1>16 DEF Rearm, Enter, Refuse, Left, Size, Done
  <2>1. DiskType'
    BY <1>16, <1>a DEF Rearm, ProofsStand, Enter, Refuse, DiskType
  <2>2. TxnType'
    BY <1>16, <1>a DEF Rearm, ProofsStand, Enter, Refuse, TxnType, Open
  <2>3. MemoryType'
    BY <1>16, <1>a DEF Rearm, ProofsStand, Enter, Refuse, MemoryType,
       Opening, Closing
  <2>4. UsedType'
    BY <1>16, <1>a DEF Rearm, ProofsStand, Enter, Refuse, UsedType
  <2>5. ControlInv'
    BY <1>16, <1>a DEF Rearm, ProofsStand, Enter, Refuse, ControlInv, Open
  <2>6. RoomInv'
    BY <2>a, <2>b, <1>a DEF RoomInv, Open, Fits, DiskType
  <2>7. ExactInv'
    BY <1>16, <1>a, <1>b, <1>c DEF Rearm, ProofsStand, Enter, Refuse,
       ExactInv, Exact, ControlInv, Left, Size, Done, Open, Active,
       TombstoneStands
  <2>8. SoundInv'
    BY <1>16, <1>a, <1>b, <1>c DEF Rearm, ProofsStand, Enter, Refuse,
       SoundInv, Sound, ControlInv, StageInv, Open, Active, TombstoneStands
  <2>9. StageInv'
    BY <1>16, <1>a, <1>b, <1>c DEF Rearm, ProofsStand, Enter, Refuse,
       StageInv, ControlInv, Left, Size, Done, Open, Active, TombstoneStands
  <2>10. CredentialsAreOwned'
    BY <1>16, <1>a, <1>b, <1>c DEF Rearm, ProofsStand, Enter, Refuse,
       CredentialsAreOwned, StageInv, ControlInv, Active
  <2>11. RefusalsAreExplained'
    <3>1. CASE result' # "refused"
      BY <3>1 DEF RefusalsAreExplained
    <3>2. CASE result' = "refused"
      <4>1. ~(boot = 0 /\ ~torn /\ ProofsStand /\ Fits(Len(Retiring) + 2))
        BY <1>16, <3>2, <1>a DEF Rearm, Enter, ControlInv, MemoryType
      <4>2. (resumes /\ txn = NoTxn) \/ crossed
        BY <1>16, <1>a DEF Rearm, ControlInv, Open
      <4>3. litter \/ crossed \/ torn \/ ~Fits(Len(Retiring) + 2)
        BY <1>16, <4>1, <4>2, <1>a, <1>b
           DEF Rearm, ProofsStand, SoundInv, Sound, Open, Active, StageInv
      <4>4. UNCHANGED <<litter, stored, torn, txn, resumes, crossed>>
        BY <1>16, <3>2, <4>1 DEF Rearm, Refuse
      <4> QED
        BY <4>2, <4>3, <4>4, <2>a DEF RefusalsAreExplained, Fits
    <3> QED
      BY <3>1, <3>2
  <2>12. TornDownIsComplete'
    BY <1>16, <1>a, <1>b, <1>c DEF Rearm, ProofsStand, Enter, Refuse,
       TornDownIsComplete, StageInv, Active, TombstoneStands
  <2> QED
    BY <2>1, <2>2, <2>3, <2>4, <2>5, <2>6, <2>7, <2>8, <2>9, <2>10, <2>11, <2>12
       DEF RetirementInv, TypeInv
<1>17. CASE Publish
  <2>a. Fits(1)
    BY <1>17, <1>a, <1>c, RetiringShape DEF Publish, RoomInv, Fits, DiskType
  <2>b. /\ Open' /\ txn' \in Transactions
        /\ Size' = Len(Retiring) /\ Done' = 0 /\ txn'.stop = file["stop"]
    BY <1>17, <2>a, <1>c, RetiringShape
       DEF Publish, Transaction, Transactions, Open, NoTxn, Size, Done
  <2>c. /\ UNCHANGED <<boot, auth, file, litter, archive, torn>>
        /\ UNCHANGED <<resumes, held, result, crossed, used>>
        /\ cpc = "publish" /\ cpc' = "retire" /\ stored' = stored + 1
    BY <1>17, <2>a DEF Publish, Enter
  <2>d. /\ Size' = (IF Active("stop") THEN 4 ELSE 3) /\ Left' = Size'
    BY <2>b, RetiringShape DEF Left
  <2>e. ~Open /\ held /\ archive /\ result = "none"
    BY <1>17, <1>a DEF Publish, ControlInv, MemoryType
  <2>1. DiskType'
    BY <2>b, <2>c, <2>d, <2>e, <1>a DEF DiskType
  <2>2. TxnType'
    <3>1. Done' <= Size'
      BY <2>b, <2>d
    <3> QED
      BY <2>b, <3>1 DEF TxnType, Size, Done
  <2>3. MemoryType'
    BY <2>b, <2>c, <2>d, <2>e, <1>a DEF MemoryType, Opening, Closing
  <2>4. UsedType'
    BY <2>b, <2>c, <2>d, <2>e, <1>a DEF UsedType
  <2>5. ControlInv'
    BY <2>b, <2>c, <2>d, <2>e, <1>a DEF ControlInv
  <2>6. RoomInv'
    BY <2>b, <2>c, <2>d, <1>a, <1>c, RetiringShape
       DEF RoomInv, DiskType
  <2>7. ExactInv'
    <3>1. /\ boot = 0 /\ Active("tear") /\ Active("own") /\ TombstoneStands
          /\ file["tear"] = file["tomb"]
      BY <2>c, <1>b DEF StageInv, ProofsStand
    <3> QED
      BY <2>b, <2>c, <2>d, <3>1, <1>c
         DEF ExactInv, Exact, Active, TombstoneStands
  <2>8. SoundInv'
    BY <2>b, <2>c, <2>d, <2>e, <1>a, <1>b, <1>c DEF SoundInv, Sound,
       ControlInv, StageInv, Active, TombstoneStands
  <2>9. StageInv'
    BY <2>b, <2>c, <2>d, <2>e, <1>a, <1>b, <1>c DEF StageInv, ControlInv,
       Active, TombstoneStands, ProofsStand
  <2>10. CredentialsAreOwned'
    BY <2>b, <2>c, <2>d, <2>e, <1>a, <1>b, <1>c DEF CredentialsAreOwned,
       StageInv, ControlInv, Active
  <2>11. RefusalsAreExplained'
    BY <2>b, <2>c, <2>d, <2>e, <1>a, <1>b, <1>c DEF RefusalsAreExplained,
       ControlInv, Active
  <2>12. TornDownIsComplete'
    BY <2>b, <2>c, <2>d, <2>e, <1>a, <1>b, <1>c DEF TornDownIsComplete,
       StageInv, Active, TombstoneStands
  <2> QED
    BY <2>1, <2>2, <2>3, <2>4, <2>5, <2>6, <2>7, <2>8, <2>9, <2>10, <2>11, <2>12
       DEF RetirementInv, TypeInv
<1>18. CASE Decide
  <2>1. DiskType'
    BY <1>18, <1>a DEF Decide, Enter, DiskKept, disk, DiskType
  <2>2. TxnType'
    BY <1>18, <1>a DEF Decide, Enter, DiskKept, disk, TxnType, Open
  <2>3. MemoryType'
    BY <1>18, <1>a DEF Decide, Enter, DiskKept, disk, MemoryType, Opening,
       Closing
  <2>4. UsedType'
    BY <1>18, <1>a DEF Decide, Enter, DiskKept, disk, UsedType
  <2>5. ControlInv'
    BY <1>18, <1>a DEF Decide, Enter, DiskKept, disk, ControlInv, Open
  <2>6. RoomInv'
    BY <1>18, <1>a, <1>d DEF Decide, Enter, DiskKept, disk, RoomInv, Left,
       Size, Done, Open, Fits, Retiring, StopMember, Active
  <2>7. ExactInv'
    BY <1>18, <1>a, <1>b, <1>c DEF Decide, Enter, DiskKept, disk, ExactInv,
       Exact, ControlInv, Left, Size, Done, Open, Active, TombstoneStands
  <2>8. SoundInv'
    BY <1>18, <1>a, <1>b, <1>c DEF Decide, Enter, DiskKept, disk, SoundInv,
       Sound, ControlInv, StageInv, Open, Active, TombstoneStands
  <2>9. StageInv'
    BY <1>18, <1>a, <1>b, <1>c DEF Decide, Enter, DiskKept, disk, StageInv,
       ControlInv, Left, Size, Done, Open, Active, TombstoneStands,
       ProofsStand
  <2>10. CredentialsAreOwned'
    BY <1>18, <1>a, <1>b, <1>c DEF Decide, Enter, DiskKept, disk,
       CredentialsAreOwned, StageInv, ControlInv, Active
  <2>11. RefusalsAreExplained'
    BY <1>18, <1>a, <1>b, <1>c DEF Decide, Enter, DiskKept, disk,
       RefusalsAreExplained, ControlInv, Active, Retiring, StopMember, Fits,
       Open
  <2>12. TornDownIsComplete'
    BY <1>18, <1>a, <1>b, <1>c DEF Decide, Enter, DiskKept, disk,
       TornDownIsComplete, StageInv, Active, TombstoneStands
  <2> QED
    BY <2>1, <2>2, <2>3, <2>4, <2>5, <2>6, <2>7, <2>8, <2>9, <2>10, <2>11, <2>12
       DEF RetirementInv, TypeInv
<1>19. CASE RunEnds
  <2>1. DiskType'
    BY <1>19, <1>a DEF RunEnds, Enter, DiskKept, disk, DiskType
  <2>2. TxnType'
    BY <1>19, <1>a DEF RunEnds, Enter, DiskKept, disk, TxnType, Open
  <2>3. MemoryType'
    BY <1>19, <1>a DEF RunEnds, Enter, DiskKept, disk, MemoryType, Opening,
       Closing
  <2>4. UsedType'
    BY <1>19, <1>a DEF RunEnds, Enter, DiskKept, disk, UsedType
  <2>5. ControlInv'
    BY <1>19, <1>a DEF RunEnds, Enter, DiskKept, disk, ControlInv, Open
  <2>6. RoomInv'
    BY <1>19, <1>a, <1>d DEF RunEnds, Enter, DiskKept, disk, RoomInv, Left,
       Size, Done, Open, Fits, Retiring, StopMember, Active
  <2>7. ExactInv'
    BY <1>19, <1>a, <1>b, <1>c DEF RunEnds, Enter, DiskKept, disk, ExactInv,
       Exact, ControlInv, Left, Size, Done, Open, Active, TombstoneStands
  <2>8. SoundInv'
    BY <1>19, <1>a, <1>b, <1>c DEF RunEnds, Enter, DiskKept, disk, SoundInv,
       Sound, ControlInv, StageInv, Open, Active, TombstoneStands
  <2>9. StageInv'
    BY <1>19, <1>a, <1>b, <1>c DEF RunEnds, Enter, DiskKept, disk, StageInv,
       ControlInv, Left, Size, Done, Open, Active, TombstoneStands,
       ProofsStand
  <2>10. CredentialsAreOwned'
    BY <1>19, <1>a, <1>b, <1>c DEF RunEnds, Enter, DiskKept, disk,
       CredentialsAreOwned, StageInv, ControlInv, Active
  <2>11. RefusalsAreExplained'
    BY <1>19, <1>a, <1>b, <1>c DEF RunEnds, Enter, DiskKept, disk,
       RefusalsAreExplained, ControlInv, Active, Retiring, StopMember, Fits,
       Open
  <2>12. TornDownIsComplete'
    BY <1>19, <1>a, <1>b, <1>c DEF RunEnds, Enter, DiskKept, disk,
       TornDownIsComplete, StageInv, Active, TombstoneStands
  <2> QED
    BY <2>1, <2>2, <2>3, <2>4, <2>5, <2>6, <2>7, <2>8, <2>9, <2>10, <2>11, <2>12
       DEF RetirementInv, TypeInv
<1>20. CASE Cancel
  <2>1. DiskType'
    BY <1>20, <1>a DEF Cancel, Enter, DiskType
  <2>2. TxnType'
    BY <1>20, <1>a DEF Cancel, Enter, TxnType, Open
  <2>3. MemoryType'
    BY <1>20, <1>a DEF Cancel, Enter, MemoryType, Opening, Closing
  <2>4. UsedType'
    BY <1>20, <1>a DEF Cancel, Enter, UsedType
  <2>5. ControlInv'
    BY <1>20, <1>a DEF Cancel, Enter, ControlInv, Open
  <2>6. RoomInv'
    BY <1>20, <1>a, <1>d DEF Cancel, Enter, RoomInv, Left, Size, Done, Open,
       Fits, Retiring, StopMember, Active
  <2>7. ExactInv'
    BY <1>20, <1>a, <1>b, <1>c DEF Cancel, Enter, ExactInv, Exact,
       ControlInv, Left, Size, Done, Open, Active, TombstoneStands
  <2>8. SoundInv'
    BY <1>20, <1>a, <1>b, <1>c DEF Cancel, Enter, SoundInv, Sound,
       ControlInv, StageInv, Open, Active, TombstoneStands
  <2>9. StageInv'
    BY <1>20, <1>a, <1>b, <1>c DEF Cancel, Enter, StageInv, ControlInv, Left,
       Size, Done, Open, Active, TombstoneStands, ProofsStand
  <2>10. CredentialsAreOwned'
    BY <1>20, <1>a, <1>b, <1>c DEF Cancel, Enter, CredentialsAreOwned,
       StageInv, ControlInv, Active
  <2>11. RefusalsAreExplained'
    BY <1>20, <1>a, <1>b, <1>c DEF Cancel, Enter, RefusalsAreExplained,
       ControlInv, Active, Retiring, StopMember, Fits, Open
  <2>12. TornDownIsComplete'
    BY <1>20, <1>a, <1>b, <1>c DEF Cancel, Enter, TornDownIsComplete,
       StageInv, Active, TombstoneStands
  <2> QED
    BY <2>1, <2>2, <2>3, <2>4, <2>5, <2>6, <2>7, <2>8, <2>9, <2>10, <2>11, <2>12
       DEF RetirementInv, TypeInv
<1>21. CASE Recover
  <2>1. DiskType'
    BY <1>21, <1>a DEF Recover, Recoverable, Enter, DiskKept, disk, DiskType
  <2>2. TxnType'
    BY <1>21, <1>a DEF Recover, Recoverable, Enter, DiskKept, disk, TxnType,
       Open
  <2>3. MemoryType'
    BY <1>21, <1>a DEF Recover, Recoverable, Enter, DiskKept, disk,
       MemoryType, Opening, Closing
  <2>4. UsedType'
    BY <1>21, <1>a DEF Recover, Recoverable, Enter, DiskKept, disk, UsedType
  <2>5. ControlInv'
    BY <1>21, <1>a DEF Recover, Recoverable, Enter, DiskKept, disk,
       ControlInv, Open
  <2>6. RoomInv'
    BY <1>21, <1>a, <1>d DEF Recover, Recoverable, Enter, DiskKept, disk,
       RoomInv, Left, Size, Done, Open, Fits, Retiring, StopMember, Active
  <2>7. ExactInv'
    BY <1>21, <1>a, <1>b, <1>c DEF Recover, Recoverable, Enter, DiskKept,
       disk, ExactInv, Exact, ControlInv, Left, Size, Done, Open, Active,
       TombstoneStands
  <2>8. SoundInv'
    BY <1>21, <1>a, <1>b, <1>c DEF Recover, Recoverable, Enter, DiskKept,
       disk, SoundInv, Sound, ControlInv, StageInv, Open, Active,
       TombstoneStands
  <2>9. StageInv'
    BY <1>21, <1>a, <1>b, <1>c DEF Recover, Recoverable, Enter, DiskKept,
       disk, StageInv, ControlInv, Left, Size, Done, Open, Active,
       TombstoneStands, ProofsStand, CredentialsAreOwned, DiskType
  <2>10. CredentialsAreOwned'
    BY <1>21, <1>a, <1>b, <1>c DEF Recover, Recoverable, Enter, DiskKept,
       disk, CredentialsAreOwned, StageInv, ControlInv, Active
  <2>11. RefusalsAreExplained'
    BY <1>21, <1>a, <1>b, <1>c DEF Recover, Recoverable, Enter, DiskKept,
       disk, RefusalsAreExplained, ControlInv, Active, Retiring, StopMember,
       Fits, Open
  <2>12. TornDownIsComplete'
    BY <1>21, <1>a, <1>b, <1>c DEF Recover, Recoverable, Enter, DiskKept,
       disk, TornDownIsComplete, StageInv, Active, TombstoneStands
  <2> QED
    BY <2>1, <2>2, <2>3, <2>4, <2>5, <2>6, <2>7, <2>8, <2>9, <2>10, <2>11, <2>12
       DEF RetirementInv, TypeInv
<1>22. CASE RecoverRefuses
  <2>1. DiskType'
    BY <1>22, <1>a DEF RecoverRefuses, Recoverable, Refuse, DiskKept, disk,
       DiskType
  <2>2. TxnType'
    BY <1>22, <1>a DEF RecoverRefuses, Recoverable, Refuse, DiskKept, disk,
       TxnType, Open
  <2>3. MemoryType'
    BY <1>22, <1>a DEF RecoverRefuses, Recoverable, Refuse, DiskKept, disk,
       MemoryType, Opening, Closing
  <2>4. UsedType'
    BY <1>22, <1>a DEF RecoverRefuses, Recoverable, Refuse, DiskKept, disk,
       UsedType
  <2>5. ControlInv'
    BY <1>22, <1>a DEF RecoverRefuses, Recoverable, Refuse, DiskKept, disk,
       ControlInv, Open
  <2>6. RoomInv'
    BY <1>22, <1>a, <1>d DEF RecoverRefuses, Recoverable, Refuse, DiskKept,
       disk, RoomInv, Left, Size, Done, Open, Fits, Retiring, StopMember,
       Active
  <2>7. ExactInv'
    BY <1>22, <1>a, <1>b, <1>c DEF RecoverRefuses, Recoverable, Refuse,
       DiskKept, disk, ExactInv, Exact, ControlInv, Left, Size, Done, Open,
       Active, TombstoneStands
  <2>8. SoundInv'
    BY <1>22, <1>a, <1>b, <1>c DEF RecoverRefuses, Recoverable, Refuse,
       DiskKept, disk, SoundInv, Sound, ControlInv, StageInv, Open, Active,
       TombstoneStands
  <2>9. StageInv'
    BY <1>22, <1>a, <1>b, <1>c DEF RecoverRefuses, Recoverable, Refuse,
       DiskKept, disk, StageInv, ControlInv, Left, Size, Done, Open, Active,
       TombstoneStands, ProofsStand
  <2>10. CredentialsAreOwned'
    BY <1>22, <1>a, <1>b, <1>c DEF RecoverRefuses, Recoverable, Refuse,
       DiskKept, disk, CredentialsAreOwned, StageInv, ControlInv, Active
  <2>11. RefusalsAreExplained'
    <3>1. CASE result' # "refused"
      BY <3>1 DEF RefusalsAreExplained
    <3>2. CASE result' = "refused"
      <4>1. \/ litter \/ crossed
            \/ boot # 0 /\ ~Active("own")
        BY <1>22, <3>2, <1>a, <1>b, <1>c DEF RecoverRefuses, Recoverable,
           Refuse, DiskKept, disk, ControlInv, SoundInv, Sound, Open, Active,
           CredentialsAreOwned, TombstoneStands
      <4>2. /\ UNCHANGED <<boot, auth, file, litter, archive, stored, torn>>
            /\ UNCHANGED <<txn, resumes, crossed>>
        BY <1>22, <3>2, <1>a DEF RecoverRefuses, Recoverable, Refuse, DiskKept,
           disk, ControlInv, MemoryType
      <4> QED
        BY <4>1, <4>2 DEF RefusalsAreExplained, Active
    <3> QED
      BY <3>1, <3>2
  <2>12. TornDownIsComplete'
    BY <1>22, <1>a, <1>b, <1>c DEF RecoverRefuses, Recoverable, Refuse,
       DiskKept, disk, TornDownIsComplete, StageInv, Active, TombstoneStands
  <2> QED
    BY <2>1, <2>2, <2>3, <2>4, <2>5, <2>6, <2>7, <2>8, <2>9, <2>10, <2>11, <2>12
       DEF RetirementInv, TypeInv
<1>23. CASE Scrub
  <2>1. DiskType'
    BY <1>23, <1>a DEF Scrub, Enter, DiskType
  <2>2. TxnType'
    BY <1>23, <1>a DEF Scrub, Enter, TxnType, Open
  <2>3. MemoryType'
    BY <1>23, <1>a DEF Scrub, Enter, MemoryType, Opening, Closing
  <2>4. UsedType'
    BY <1>23, <1>a DEF Scrub, Enter, UsedType
  <2>5. ControlInv'
    BY <1>23, <1>a DEF Scrub, Enter, ControlInv, Open
  <2>6. RoomInv'
    BY <1>23, <1>a, <1>d DEF Scrub, Enter, RoomInv, Left, Size, Done, Open,
       Fits, Retiring, StopMember, Active
  <2>7. ExactInv'
    BY <1>23, <1>a, <1>b, <1>c DEF Scrub, Enter, ExactInv, Exact, ControlInv,
       Left, Size, Done, Open, Active, TombstoneStands
  <2>8. SoundInv'
    BY <1>23, <1>a, <1>b, <1>c DEF Scrub, Enter, SoundInv, Sound, ControlInv,
       StageInv, Open, Active, TombstoneStands
  <2>9. StageInv'
    BY <1>23, <1>a, <1>b, <1>c DEF Scrub, Enter, StageInv, ControlInv, Left,
       Size, Done, Open, Active, TombstoneStands, ProofsStand
  <2>10. CredentialsAreOwned'
    BY <1>23, <1>a, <1>b, <1>c DEF Scrub, Enter, CredentialsAreOwned,
       StageInv, ControlInv, Active
  <2>11. RefusalsAreExplained'
    BY <1>23, <1>a, <1>b, <1>c DEF Scrub, Enter, RefusalsAreExplained,
       ControlInv, Active, Retiring, StopMember, Fits, Open
  <2>12. TornDownIsComplete'
    BY <1>23, <1>a, <1>b, <1>c DEF Scrub, Enter, TornDownIsComplete,
       StageInv, Active, TombstoneStands
  <2> QED
    BY <2>1, <2>2, <2>3, <2>4, <2>5, <2>6, <2>7, <2>8, <2>9, <2>10, <2>11, <2>12
       DEF RetirementInv, TypeInv
<1>24. CASE Entomb
  <2>1. DiskType'
    BY <1>24, <1>a DEF Entomb, Enter, DiskType
  <2>2. TxnType'
    BY <1>24, <1>a DEF Entomb, Enter, TxnType, Open
  <2>3. MemoryType'
    BY <1>24, <1>a DEF Entomb, Enter, MemoryType, Opening, Closing
  <2>4. UsedType'
    BY <1>24, <1>a DEF Entomb, Enter, UsedType
  <2>5. ControlInv'
    BY <1>24, <1>a DEF Entomb, Enter, ControlInv, Open
  <2>6. RoomInv'
    BY <1>24, <1>a, <1>d DEF Entomb, Enter, RoomInv, Left, Size, Done, Open,
       Fits, Retiring, StopMember, Active
  <2>7. ExactInv'
    BY <1>24, <1>a, <1>b, <1>c DEF Entomb, Enter, ExactInv, Exact,
       ControlInv, Left, Size, Done, Open, Active, TombstoneStands
  <2>8. SoundInv'
    BY <1>24, <1>a, <1>b, <1>c DEF Entomb, Enter, SoundInv, Sound,
       ControlInv, StageInv, Open, Active, TombstoneStands
  <2>9. StageInv'
    BY <1>24, <1>a, <1>b, <1>c DEF Entomb, Enter, StageInv, ControlInv, Left,
       Size, Done, Open, Active, TombstoneStands, ProofsStand
  <2>10. CredentialsAreOwned'
    BY <1>24, <1>a, <1>b, <1>c DEF Entomb, Enter, CredentialsAreOwned,
       StageInv, ControlInv, Active
  <2>11. RefusalsAreExplained'
    BY <1>24, <1>a, <1>b, <1>c DEF Entomb, Enter, RefusalsAreExplained,
       ControlInv, Active, Retiring, StopMember, Fits, Open
  <2>12. TornDownIsComplete'
    BY <1>24, <1>a, <1>b, <1>c DEF Entomb, Enter, TornDownIsComplete,
       StageInv, Active, TombstoneStands
  <2> QED
    BY <2>1, <2>2, <2>3, <2>4, <2>5, <2>6, <2>7, <2>8, <2>9, <2>10, <2>11, <2>12
       DEF RetirementInv, TypeInv
<1>25. CASE RemoveBootstrap
  <2>1. DiskType'
    BY <1>25, <1>a DEF RemoveBootstrap, Enter, DiskType
  <2>2. TxnType'
    BY <1>25, <1>a DEF RemoveBootstrap, Enter, TxnType, Open
  <2>3. MemoryType'
    BY <1>25, <1>a DEF RemoveBootstrap, Enter, MemoryType, Opening, Closing
  <2>4. UsedType'
    BY <1>25, <1>a DEF RemoveBootstrap, Enter, UsedType
  <2>5. ControlInv'
    BY <1>25, <1>a DEF RemoveBootstrap, Enter, ControlInv, Open
  <2>6. RoomInv'
    BY <1>25, <1>a, <1>d DEF RemoveBootstrap, Enter, RoomInv, Left, Size,
       Done, Open, Fits, Retiring, StopMember, Active
  <2>7. ExactInv'
    BY <1>25, <1>a, <1>b, <1>c DEF RemoveBootstrap, Enter, ExactInv, Exact,
       ControlInv, Left, Size, Done, Open, Active, TombstoneStands
  <2>8. SoundInv'
    BY <1>25, <1>a, <1>b, <1>c DEF RemoveBootstrap, Enter, SoundInv, Sound,
       ControlInv, StageInv, Open, Active, TombstoneStands
  <2>9. StageInv'
    BY <1>25, <1>a, <1>b, <1>c DEF RemoveBootstrap, Enter, StageInv,
       ControlInv, Left, Size, Done, Open, Active, TombstoneStands,
       ProofsStand
  <2>10. CredentialsAreOwned'
    BY <1>25, <1>a, <1>b, <1>c DEF RemoveBootstrap, Enter,
       CredentialsAreOwned, StageInv, ControlInv, Active
  <2>11. RefusalsAreExplained'
    BY <1>25, <1>a, <1>b, <1>c DEF RemoveBootstrap, Enter,
       RefusalsAreExplained, ControlInv, Active, Retiring, StopMember, Fits,
       Open
  <2>12. TornDownIsComplete'
    BY <1>25, <1>a, <1>b, <1>c DEF RemoveBootstrap, Enter,
       TornDownIsComplete, StageInv, Active, TombstoneStands
  <2> QED
    BY <2>1, <2>2, <2>3, <2>4, <2>5, <2>6, <2>7, <2>8, <2>9, <2>10, <2>11, <2>12
       DEF RetirementInv, TypeInv
<1>26. CASE WriteReceipt
  <2>1. DiskType'
    BY <1>26, <1>a DEF WriteReceipt, Refuse, DiskType
  <2>2. TxnType'
    BY <1>26, <1>a DEF WriteReceipt, Refuse, TxnType, Open
  <2>3. MemoryType'
    BY <1>26, <1>a DEF WriteReceipt, Refuse, MemoryType, Opening, Closing
  <2>4. UsedType'
    BY <1>26, <1>a DEF WriteReceipt, Refuse, UsedType
  <2>5. ControlInv'
    BY <1>26, <1>a DEF WriteReceipt, Refuse, ControlInv, Open
  <2>6. RoomInv'
    BY <1>26, <1>a, <1>d DEF WriteReceipt, Refuse, RoomInv, Left, Size, Done,
       Open, Fits, Retiring, StopMember, Active
  <2>7. ExactInv'
    BY <1>26, <1>a, <1>b, <1>c DEF WriteReceipt, Refuse, ExactInv, Exact,
       ControlInv, Left, Size, Done, Open, Active, TombstoneStands
  <2>8. SoundInv'
    BY <1>26, <1>a, <1>b, <1>c DEF WriteReceipt, Refuse, SoundInv, Sound,
       ControlInv, StageInv, Open, Active, TombstoneStands
  <2>9. StageInv'
    BY <1>26, <1>a, <1>b, <1>c DEF WriteReceipt, Refuse, StageInv,
       ControlInv, Left, Size, Done, Open, Active, TombstoneStands,
       ProofsStand
  <2>10. CredentialsAreOwned'
    BY <1>26, <1>a, <1>b, <1>c DEF WriteReceipt, Refuse, CredentialsAreOwned,
       StageInv, ControlInv, Active
  <2>11. RefusalsAreExplained'
    <3>1. CASE result' # "refused"
      BY <3>1 DEF RefusalsAreExplained
    <3>2. CASE result' = "refused"
      <4>1. crossed
        BY <1>26, <3>2, <1>a, <1>b, <1>c DEF WriteReceipt, Refuse, ControlInv,
           SoundInv, Sound, StageInv, Open, Active
      <4>2. /\ UNCHANGED <<boot, auth, file, litter, archive, stored, torn>>
            /\ UNCHANGED <<txn, resumes, crossed>>
        BY <1>26, <3>2, <1>a DEF WriteReceipt, Refuse, ControlInv, MemoryType
      <4> QED
        BY <4>1, <4>2 DEF RefusalsAreExplained, Active
    <3> QED
      BY <3>1, <3>2
  <2>12. TornDownIsComplete'
    BY <1>26, <1>a, <1>b, <1>c DEF WriteReceipt, Refuse, TornDownIsComplete,
       StageInv, Active, TombstoneStands
  <2> QED
    BY <2>1, <2>2, <2>3, <2>4, <2>5, <2>6, <2>7, <2>8, <2>9, <2>10, <2>11, <2>12
       DEF RetirementInv, TypeInv
<1>27. CASE Killed
  <2>1. DiskType'
    BY <1>27, <1>a DEF Killed, Spend, Moving, AllMoved, DiskType
  <2>2. TxnType'
    BY <1>27, <1>a DEF Killed, Spend, Moving, AllMoved, TxnType, Open
  <2>3. MemoryType'
    BY <1>27, <1>a DEF Killed, Spend, Moving, AllMoved, MemoryType, Opening,
       Closing
  <2>4. UsedType'
    BY <1>27, <1>a DEF Killed, Spend, Moving, AllMoved, UsedType
  <2>5. ControlInv'
    BY <1>27, <1>a DEF Killed, Spend, Moving, AllMoved, ControlInv, Open
  <2>6. RoomInv'
    BY <1>27, <1>a, <1>d DEF Killed, Spend, Moving, AllMoved, RoomInv, Left,
       Size, Done, Open, Fits, Retiring, StopMember, Active
  <2>7. ExactInv'
    BY <1>27, <1>a, <1>b, <1>c DEF Killed, Spend, Moving, AllMoved, ExactInv,
       Exact, ControlInv, Left, Size, Done, Open, Active, TombstoneStands
  <2>8. SoundInv'
    BY <1>27, <1>a, <1>b, <1>c DEF Killed, Spend, Moving, AllMoved, SoundInv,
       Sound, ControlInv, StageInv, Open, Active, TombstoneStands
  <2>9. StageInv'
    BY <1>27, <1>a, <1>b, <1>c DEF Killed, Spend, Moving, AllMoved, StageInv,
       ControlInv, Left, Size, Done, Open, Active, TombstoneStands,
       ProofsStand
  <2>10. CredentialsAreOwned'
    BY <1>27, <1>a, <1>b, <1>c DEF Killed, Spend, Moving, AllMoved,
       CredentialsAreOwned, StageInv, ControlInv, Active
  <2>11. RefusalsAreExplained'
    BY <1>27, <1>a, <1>b, <1>c DEF Killed, Spend, Moving, AllMoved,
       RefusalsAreExplained, ControlInv, Active, Retiring, StopMember, Fits,
       Open
  <2>12. TornDownIsComplete'
    BY <1>27, <1>a, <1>b, <1>c DEF Killed, Spend, Moving, AllMoved,
       TornDownIsComplete, StageInv, Active, TombstoneStands
  <2> QED
    BY <2>1, <2>2, <2>3, <2>4, <2>5, <2>6, <2>7, <2>8, <2>9, <2>10, <2>11, <2>12
       DEF RetirementInv, TypeInv
<1>28. CASE UNCHANGED vars
  <2>1. DiskType'
    BY <1>28, <1>a DEF vars, disk, memory, DiskType
  <2>2. TxnType'
    BY <1>28, <1>a DEF vars, disk, memory, TxnType, Open
  <2>3. MemoryType'
    BY <1>28, <1>a DEF vars, disk, memory, MemoryType, Opening, Closing
  <2>4. UsedType'
    BY <1>28, <1>a DEF vars, disk, memory, UsedType
  <2>5. ControlInv'
    BY <1>28, <1>a DEF vars, disk, memory, ControlInv, Open
  <2>6. RoomInv'
    BY <1>28, <1>a, <1>d DEF vars, disk, memory, RoomInv, Left, Size, Done,
       Open, Fits, Retiring, StopMember, Active
  <2>7. ExactInv'
    BY <1>28, <1>a, <1>b, <1>c DEF vars, disk, memory, ExactInv, Exact,
       ControlInv, Left, Size, Done, Open, Active, TombstoneStands
  <2>8. SoundInv'
    BY <1>28, <1>a, <1>b, <1>c DEF vars, disk, memory, SoundInv, Sound,
       ControlInv, StageInv, Open, Active, TombstoneStands
  <2>9. StageInv'
    BY <1>28, <1>a, <1>b, <1>c DEF vars, disk, memory, StageInv, ControlInv,
       Left, Size, Done, Open, Active, TombstoneStands, ProofsStand
  <2>10. CredentialsAreOwned'
    BY <1>28, <1>a, <1>b, <1>c DEF vars, disk, memory, CredentialsAreOwned,
       StageInv, ControlInv, Active
  <2>11. RefusalsAreExplained'
    BY <1>28, <1>a, <1>b, <1>c DEF vars, disk, memory, RefusalsAreExplained,
       ControlInv, Active, Retiring, StopMember, Fits, Open
  <2>12. TornDownIsComplete'
    BY <1>28, <1>a, <1>b, <1>c DEF vars, disk, memory, TornDownIsComplete,
       StageInv, Active, TombstoneStands
  <2> QED
    BY <2>1, <2>2, <2>3, <2>4, <2>5, <2>6, <2>7, <2>8, <2>9, <2>10, <2>11, <2>12
       DEF RetirementInv, TypeInv
<1> QED
  BY <1>1, <1>2, <1>3, <1>4, <1>5, <1>6, <1>7, <1>8, <1>9, <1>10, <1>11,
     <1>12, <1>13, <1>14, <1>15, <1>16, <1>17, <1>18, <1>19, <1>20, <1>21,
     <1>22, <1>23, <1>24, <1>25, <1>26, <1>27, <1>28 DEF Next

(* At first nothing is there, and nobody has been started.                 *)
LEMMA InitRetirementInv == Init => RetirementInv
<1> SUFFICES ASSUME Init PROVE RetirementInv
  OBVIOUS
<1> USE RetirementConstants DEF Init
<1>1. TypeInv
  BY DEF TypeInv, DiskType, TxnType, MemoryType, UsedType, Open, Proofs
<1>2. ControlInv /\ RoomInv /\ ExactInv /\ SoundInv /\ StageInv
  BY DEF ControlInv, RoomInv, ExactInv, SoundInv, Sound, StageInv, Open,
         Active, Proofs
<1>3. CredentialsAreOwned /\ RefusalsAreExplained /\ TornDownIsComplete
  BY DEF CredentialsAreOwned, RefusalsAreExplained, TornDownIsComplete
<1> QED
  BY <1>1, <1>2, <1>3 DEF RetirementInv

(* A receipt that nobody has crossed stands beside no bootstrap: the one   *)
(* of an open transaction because the bootstrap is made after it, any      *)
(* other because the bootstrap it was written about is gone.               *)
LEMMA ReceiptStands == RetirementInv => ReceiptIsTrue
BY DEF RetirementInv, ReceiptIsTrue, ExactInv, Exact, SoundInv, Sound

-----------------------------------------------------------------------------
(* RetirementInv holds in every reachable state.                           *)
THEOREM RetirementInvariant == Spec => []RetirementInv
<1> QED
  BY InitRetirementInv, StepRetirementInv, PTL DEF Spec

(* The variables have their types; a transaction that is open retires the  *)
(* proofs the code knows, in their order.                                  *)
THEOREM RetirementTypeCorrect == Spec => []TypeInv
<1>1. RetirementInv => TypeInv
  BY DEF RetirementInv
<1> QED
  BY RetirementInvariant, <1>1, PTL

(* Wherever a coordinator is killed, credentials are only in a bootstrap   *)
(* that a durable record claims, so that a later cleanup finds them.       *)
THEOREM CredentialsOwned == Spec => []CredentialsAreOwned
<1>1. RetirementInv => CredentialsAreOwned
  BY DEF RetirementInv
<1> QED
  BY RetirementInvariant, <1>1, PTL

(* While there is a receipt there is no bootstrap, unless a coordinator    *)
(* was started afresh over an open transaction.                            *)
THEOREM ReceiptTrue == Spec => []ReceiptIsTrue
<1> QED
  BY RetirementInvariant, ReceiptStands, PTL

(* A coordinator that refuses has met one of the states named; no cut of a *)
(* retirement, and no full archive in the middle of one, adds another.     *)
THEOREM RefusalsExplained == Spec => []RefusalsAreExplained
<1>1. RetirementInv => RefusalsAreExplained
  BY DEF RetirementInv
<1> QED
  BY RetirementInvariant, <1>1, PTL

(* A coordinator that ends in an orderly way leaves no credentials and all *)
(* the proofs of it.                                                       *)
THEOREM TornDownComplete == Spec => []TornDownIsComplete
<1>1. RetirementInv => TornDownIsComplete
  BY DEF RetirementInv
<1> QED
  BY RetirementInvariant, <1>1, PTL
=============================================================================
