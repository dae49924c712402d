--------------------------- MODULE StsJournalProofs ---------------------------
(***************************************************************************)
(* Theorems about StsJournal for any drives, files, clients and bounds.      *)
(* Of every transaction: type correctness, that CommitL destroys a backup     *)
(* only behind its commit point and that nothing committed is undone; without *)
(* I/O errors, that every journal can be found and read.  Of a transaction    *)
(* on one drive: that nothing is lost, that reports are true and stay true,   *)
(* that it is atomic but for a file the server was creating when it crashed,  *)
(* and that it implements AtomicTransaction.                                 *)
(***************************************************************************)
EXTENDS StsJournal, FiniteSetTheorems, WellFoundedInduction, TLAPS

\* A non-empty set of natural numbers has a least element.
LEMMA LeastNatural ==
    ASSUME NEW T, T \subseteq Nat, T # {}
    PROVE  \E n \in T : \A m \in T : n <= m
<1>1. PICK n \in T : \A m \in T : <<m, n>> \notin OpToRel(<, Nat)
  BY WFMin, NatLessThanWellFounded, Zenon
<1>2. ASSUME NEW m \in T PROVE ~ (m < n)
  BY <1>1, Zenon DEF OpToRel
<1> QED BY <1>2

\* A non-empty set of numbers with an upper bound has a greatest element.
LEMMA GreatestNatural ==
    ASSUME NEW b \in Nat, NEW T, T \subseteq 0 .. b, T # {}
    PROVE  \E n \in T : \A m \in T : n >= m
<1> DEFINE Below == {b - n : n \in T}
<1>1. Below \subseteq Nat /\ Below # {}
  <2>1. \A n \in T : b - n \in Nat
    OBVIOUS
  <2> QED BY <2>1
<1>2. PICK x \in Below : \A y \in Below : x <= y
  <2> HIDE DEF Below
  <2> QED BY <1>1, LeastNatural
<1>3. PICK n \in T : x = b - n
  BY <1>2
<1>4. ASSUME NEW m \in T PROVE n >= m
  <2>1. x <= b - m
    BY <1>2
  <2> QED BY <1>3, <2>1
<1> QED BY <1>4

Live == {"open", "commitFailed", "rollbackFailed"}

-------------------------------------------------------------------------------
(***************************************************************************)
(* The inductive invariant                                                  *)
(***************************************************************************)

\* Every leaf of a journal has its place among the backups.
LeavesHaveBackups == \A d \in Drives : Len(log[d].leaves) <= Len(bak[d])
WorkIsLeaves      == \A w \in work : w[2] \in DOMAIN bak[w[1]]

\* A stage or a finishing step works on a drive that is still to do.
DriveToDo == pc \in RollBackStages \cup CommitStages \cup FinishSteps
                       \cup {"cDelLog", "cMark"} => todo # {}

\* A call writes one of the files, for a client that has not given up.
CallOp == pc \in CallSteps => op.file \in Files /\ client = "open"

\* The server works for a live client, or for the recovery of a dead one.
ClientServed ==
    /\ pc # "off" /\ rec => client \in Live
    /\ pc = "off" \/ ~rec => client \notin Live
    /\ ~rec => pc \in {"off", "next"} \cup RollBackStages \cup FinishSteps

\* A drive of iAllDrives has a journal, unless a commit threw all of them away.
DrivesKnown ==
    /\ client = "open" => all \subseteq JournalFiles
    /\ client \in Live => JournalFiles = {} \/ all \subseteq JournalFiles
    /\ pc = "register" => DriveOf[op.file] \in JournalFiles

\* A commit runs with the journals of all the drives of the transaction ...
CommitDrives == pc \in CommitStages => JournalFiles # {} /\ all = JournalFiles

\* ... and deletes backups only with ECommitted at the end of each of them.
CommitMarks ==
    /\ pc = "cCommit" =>
          work = {} /\ \A d \in JournalFiles \ todo : log[d].last = ECommitted
    /\ pc = "cDelBackup" /\ work # {} =>
          \A d \in JournalFiles : log[d].last = ECommitted

CommitInv == DrivesKnown /\ CommitDrives /\ CommitMarks

IInv == /\ TypeOK
        /\ LeavesHaveBackups /\ WorkIsLeaves /\ DriveToDo /\ CallOp
        /\ ClientServed /\ CommitInv

(***************************************************************************)
(* What is undone: a journal past its commit point is never walked backwards *)
(***************************************************************************)

\* The client has its transaction open and no stage has begun.
Calling == client = "open" /\ pc \in {"idle"} \cup CallSteps

\* A journal lists files of its own drive.
LeavesAtHome ==
    \A d \in Drives : \A i \in DOMAIN log[d].leaves :
        log[d].leaves[i].file \in Files /\ DriveOf[log[d].leaves[i].file] = d

\* A walk visits leaves of its stage's type, in the drive a rollback is at.
WorkOfStage ==
    work \subseteq StageWalk(pc, IF pc \in RollBackStages THEN {First(todo)} ELSE todo)

\* The loops run over iJournalFiles, and nothing is to do between the calls.
TodoLoaded == /\ todo \subseteq JournalFiles
              /\ pc \in {"idle", "off", "cDrop"} \cup CallSteps => todo = {}

\* As long as the client calls, journals have entries of files only.
NotBegun == Calling => \A d \in Drives : log[d].last \in FileEvents \cup {ENone}

\* A journal that is to be undone is not durably committed.
MemoryAhead ==
    /\ \A d \in JournalFiles : last[d] \in UndoEvents => log[d].last \notin RedoEvents
    /\ pc \in {"delAdded", "restore"} => log[First(todo)].last \notin RedoEvents

UndoInv == LeavesAtHome /\ WorkOfStage /\ TodoLoaded /\ NotBegun /\ MemoryAhead

(***************************************************************************)
(* Without I/O errors: the .drv file is in step with the journals, and the   *)
(* journals are in step with the memory of the server                        *)
(***************************************************************************)

\* The journal of the drive is there, the mention of the drive not yet.
Opening(d) == pc = "register" /\ d = DriveOf[op.file]

\* The .drv file lists the journals of the client's transaction, and no drive
\* that the server does not know of.
AllListed ==
    /\ Calling => /\ done = {}
                  /\ \A d \in Drives :
                        drv[d] = IF rank[d] = 0 \/ Opening(d) THEN 0 ELSE 1
    /\ pc = "journal" => DriveOf[op.file] \in JournalFiles
    /\ pc # "off" => /\ \A d \in Drives : drv[d] > 0 => d \in all
                     /\ \A d \in JournalFiles : d \in all \/ Opening(d)

\* A drive is mentioned a second time when its journal is gone.
DoneEmptied ==
    /\ pc # "off" => done \subseteq all /\ \A d \in done : log[d].leaves = <<>>
    /\ pc \in {"mark", "cMark"} => log[First(todo)].leaves = <<>>
    /\ pc = "drop" => done = all

Listing == JournalListed /\ AllListed /\ DoneEmptied
ListInv == faults = 0 => Listing

\* Nothing was committed or rolled back yet; or CommitL is at work.
Fresh      == client \in {"open", "commitFailed"} /\ pc \in {"idle"} \cup CallSteps
Committing == pc \in CommitStages \cup CommitFinish

\* CJournalFile::iLastEvent is the last event of the journal file.
MemoryTrue ==
    client \in Live => \A d \in JournalFiles : log[d].exists => last[d] = log[d].last

\* A journal holds entries of files, and is empty only within its first call.
FreshLogs ==
    Fresh => \A d \in JournalFiles :
        /\ log[d].exists
        /\ \/ log[d].last \in FileEvents
           \/ /\ pc \in {"register", "journal"} /\ d = DriveOf[op.file]
              /\ log[d].last = ENone /\ log[d].leaves = <<>>

\* A stage of CommitL takes every journal from one event to the next.
CommitLasts ==
    \A d \in JournalFiles :
        /\ pc = "cCommit"    => log[d].last \in IF d \in todo THEN FileEvents ELSE {ECommitted}
        /\ pc = "cDelBackup" =>
              log[d].last = IF d \in todo THEN ECommitted ELSE EBackupFilesRemoved
        /\ pc = "cDelTemp"   =>
              log[d].last = IF d \in todo THEN EBackupFilesRemoved ELSE ETempFilesRemoved

\* A journal is finished when its last event is written, or its file is gone.
Finished(d)      == last[d] = ETempFilesRemoved \/ ~log[d].exists
BeingFinished(d) == (pc = "mark" \/ (pc = "delLog" /\ log[d].exists)) /\ d = First(todo)
Untouched(d)     == log[d].exists \/ last[d] \in {ENone, ETempFilesRemoved}

\* A roll back for a client meets no commit; a finished journal is a completed
\* drive, until all the journals are gone and DeleteDrivesFileL forgets that.
RollLasts ==
    client \in Live /\ ~Committing =>
        /\ \A d \in JournalFiles : last[d] \notin RedoEvents /\ Untouched(d)
        /\ \A d \in done : ~log[d].exists
        /\ (\E d \in JournalFiles \ done : Finished(d) /\ ~BeingFinished(d))
              => \A d \in JournalFiles : ~log[d].exists

\* A stage of a roll back begins where the stage before it ended.
StageLasts ==
    client \in Live /\ pc \in RollBackStages \cup FinishSteps =>
        LET d == First(todo) IN
        /\ pc # "delBackup" /\ (pc \in RollBackStages => log[d].exists)
        /\ pc = "delAdded" => last[d] \in FileEvents
        /\ pc = "restore"  => last[d] = EAddedFilesRemoved
        /\ pc = "delTemp"  => last[d] = ERemovedFilesRestored
        /\ pc = "delLog" /\ log[d].exists => last[d] \in {ENone, ETempFilesRemoved}
        /\ pc = "mark" => ~log[d].exists /\ last[d] \in {ENone, ETempFilesRemoved}

Reading == /\ JournalReadable /\ MemoryTrue /\ FreshLogs /\ CommitLasts
           /\ RollLasts /\ StageLasts
ReadInv == faults = 0 => Reading

-------------------------------------------------------------------------------
(***************************************************************************)
(* Lemmas about the operators                                               *)
(***************************************************************************)

\* The loops visit a drive that is still to do.
LEMMA FirstIn ==
    ASSUME rank \in [Drives -> Nat], NEW S, S \subseteq Drives, S # {}
    PROVE  First(S) \in S
<1> DEFINE Ranks == {rank[d] : d \in S}
<1>1. PICK n \in Ranks : \A m \in Ranks : n <= m
  <2>1. Ranks \subseteq Nat /\ Ranks # {}
    OBVIOUS
  <2> HIDE DEF Ranks
  <2> QED BY <2>1, LeastNatural
<1>2. \E d \in S : \A e \in S : rank[d] <= rank[e]
  BY <1>1
<1> QED BY <1>2 DEF First

\* The walks visit a leaf that is still to do.
LEMMA NextLeafIn ==
    ASSUME rank \in [Drives -> Nat], work \subseteq Drives \X Nat, work # {}
    PROVE  NextLeaf \in work
<1> DEFINE Ds == {w[1] : w \in work}
           d  == First(Ds)
           Is == {w[2] : w \in {v \in work : v[1] = d}}
<1>1. d \in Ds
  <2>1. Ds \subseteq Drives /\ Ds # {}
    OBVIOUS
  <2> HIDE DEF Ds
  <2> QED BY <2>1, FirstIn
<1> HIDE DEF d
<1>2. Is \subseteq Nat /\ Is # {}
  BY <1>1
<1>3. PICK i \in Is : \A j \in Is : i <= j
  <2> HIDE DEF Is
  <2> QED BY <1>2, LeastNatural
<1>4. \E w \in work : w[1] = d /\ \A v \in work : v[1] = d => w[2] <= v[2]
  BY <1>3
<1> QED BY <1>4 DEF NextLeaf, d

\* EventL and the entries of leaves yield journals.
LEMMA WithEventType ==
    ASSUME NEW j \in Log, NEW ev \in Events
    PROVE  WithEvent(j, ev) \in Log /\ WithEvent(j, ev).leaves = j.leaves
                                    /\ WithEvent(j, ev).last = ev
<1>1. Readable(j.last, ev) \in BOOLEAN
  BY DEF Readable
<1> QED BY <1>1 DEF WithEvent, Log

LEMMA WithLeafType ==
    ASSUME NEW j \in Log, NEW type \in FileEvents, NEW f \in Files
    PROVE  /\ WithLeaf(j, type, f) \in Log
           /\ Len(WithLeaf(j, type, f).leaves) = Len(j.leaves) + 1
<1>1. type \in Events
  BY DEF Events
<1>2. WithEvent(j, type) \in Log /\ WithEvent(j, type).leaves = j.leaves
  BY <1>1, WithEventType
<1>3. [type |-> type, file |-> f] \in Leaf
  BY DEF Leaf
<1> QED BY <1>2, <1>3 DEF WithLeaf, Log

\* An absent and a new journal have no leaves.
LEMMA NoLogType == NoLog \in Log /\ EmptyLog \in Log /\ NoLog.leaves = <<>>
                                 /\ EmptyLog.leaves = <<>>
<1>1. <<>> \in Seq(Leaf) /\ ENone \in Events
  BY DEF Events
<1>2. NoLog \in Log /\ NoLog.leaves = <<>>
  BY <1>1 DEF NoLog, Log
<1> QED BY <1>1, <1>2 DEF EmptyLog, NoLog, Log

\* A second mention is the last that counts.
LEMMA MentionedType ==
    ASSUME drv \in [Drives -> 0 .. 2], NEW d
    PROVE  Mentioned(d) \in [Drives -> 0 .. 2]
<1> DEFINE more == IF drv[d] < 2 THEN drv[d] + 1 ELSE 2
<1>1. d \in Drives => more \in 0 .. 2
  OBVIOUS
<1>2. Mentioned(d) = [drv EXCEPT ![d] = more]
  BY DEF Mentioned
<1> QED BY <1>1, <1>2

\* The walk of a stage visits leaves of its drives only, which have backups.
LEMMA StageWalkType ==
    ASSUME TypeOK, LeavesHaveBackups, NEW stage, NEW S, S \subseteq Drives
    PROVE  /\ StageWalk(stage, S) \subseteq Drives \X Nat
           /\ \A w \in StageWalk(stage, S) : w[2] \in DOMAIN bak[w[1]]
<1>1. ASSUME NEW type
      PROVE  /\ Walk(S, type) \subseteq Drives \X Nat
             /\ \A w \in Walk(S, type) : w[2] \in DOMAIN bak[w[1]]
  <2> SUFFICES ASSUME NEW w \in Walk(S, type)
               PROVE  w \in Drives \X Nat /\ w[2] \in DOMAIN bak[w[1]]
    OBVIOUS
  <2>1. PICK d \in S : w \in {d} \X LeavesOf(d, type)
    BY DEF Walk
  <2>2. d \in Drives /\ w[1] = d /\ w = <<w[1], w[2]>>
        /\ w[2] \in DOMAIN log[d].leaves
    BY <2>1 DEF LeavesOf
  <2>3. log[d].leaves \in Seq(Leaf) /\ bak[d] \in Seq(Contents)
    BY <2>2 DEF TypeOK, Log
  <2>4. w[2] \in 1 .. Len(log[d].leaves) /\ Len(log[d].leaves) <= Len(bak[d])
    BY <2>2, <2>3 DEF LeavesHaveBackups
  <2> QED BY <2>2, <2>3, <2>4
<1> QED BY <1>1 DEF StageWalk

\* A backup file is moved in or out: no leaf loses its place.
LEMMA BackupType ==
    ASSUME bak \in [Drives -> Seq(Contents)], NEW d, NEW i, NEW c \in Contents
    PROVE  /\ [bak EXCEPT ![d][i] = c] \in [Drives -> Seq(Contents)]
           /\ \A e \in Drives : /\ Len([bak EXCEPT ![d][i] = c][e]) = Len(bak[e])
                               /\ DOMAIN [bak EXCEPT ![d][i] = c][e] = DOMAIN bak[e]
<1>1. ASSUME NEW s \in Seq(Contents)
      PROVE  /\ [s EXCEPT ![i] = c] \in Seq(Contents)
             /\ Len([s EXCEPT ![i] = c]) = Len(s)
             /\ DOMAIN [s EXCEPT ![i] = c] = DOMAIN s
  <2>1. [s EXCEPT ![i] = c] \in [1 .. Len(s) -> Contents]
    <3>1. s \in [1 .. Len(s) -> Contents]
      OBVIOUS
    <3> QED BY <3>1
  <2>2. \A t \in [1 .. Len(s) -> Contents] :
           t \in Seq(Contents) /\ Len(t) = Len(s) /\ DOMAIN t = DOMAIN s
    OBVIOUS
  <2> QED BY <2>1, <2>2
<1>2. ASSUME NEW e \in Drives
      PROVE  [bak EXCEPT ![d][i] = c][e]
                = IF e = d THEN [bak[e] EXCEPT ![i] = c] ELSE bak[e]
  OBVIOUS
<1> QED BY <1>1, <1>2

-------------------------------------------------------------------------------
(***************************************************************************)
(* Type correctness is preserved by every action                            *)
(***************************************************************************)
\* The state a transaction is created in is well typed.
LEMMA TypeInit == Init => TypeOK
<1>1. NoLog \in Log
  BY NoLogType
<1>2. {"none", "orig"} \subseteq Contents
  BY SMTT(40) DEF Contents
<1> QED BY <1>1, <1>2, FilesAssumption
        DEF Init, TypeOK, Labels, NoOp, Events

\* No action of client, server, recovery or medium leaves the types.
LEMMA TypeStep ==
    ASSUME IInv, [Next]_vars
    PROVE  TypeOK'
<1> DEFINE Leaves(W) == W \subseteq Drives \X Nat
<1>0. \A stage, S : S \subseteq Drives => Leaves(StageWalk(stage, S))
  BY StageWalkType DEF IInv
<1> HIDE DEF Leaves
<1> USE DEF IInv, TypeOK, durable, memory, control, bounds
<1>1. ASSUME NEW f \in Files, RegisterNew(f) PROVE TypeOK'
  BY <1>1 DEF RegisterNew, StartCall, Labels, CallSteps, AllCalls
<1>2. ASSUME NEW f \in Files, RegisterTemporary(f) PROVE TypeOK'
  BY <1>2 DEF RegisterTemporary, StartCall, Labels, CallSteps, AllCalls
<1>3. ASSUME NEW f \in Files, CreateNew(f) PROVE TypeOK'
  BY <1>3 DEF CreateNew, StartCall, Labels, CallSteps, AllCalls, Contents
<1>4. ASSUME NEW f \in Files, CreateTemporary(f) PROVE TypeOK'
  BY <1>4 DEF CreateTemporary, StartCall, Labels, CallSteps, AllCalls, Contents
<1>5. ASSUME NEW f \in Files, Remove(f) PROVE TypeOK'
  BY <1>5 DEF Remove, StartCall, Labels, CallSteps, AllCalls
<1>6. ASSUME NEW f \in Files, Overwrite(f) PROVE TypeOK'
  <2>1. fs' \in [Files -> Contents]
    BY <1>6 DEF Overwrite, Contents
  <2>2. op' \in [kind : AllCalls \cup {"none"}, file : Files \cup {"none"}]
    BY <1>6 DEF Overwrite, AllCalls
  <2>3. StartCall("Overwrite", f)
    BY <1>6 DEF Overwrite
  <2> QED BY <2>1, <2>2, <2>3 DEF StartCall, Labels, CallSteps
<1>7. ASSUME NEW f \in Files, ClientWrites(f) PROVE TypeOK'
  BY <1>7 DEF ClientWrites, Contents
<1>8. CASE StartCommit
  BY <1>8 DEF StartCommit, JournalFiles, Labels, CommitFinish, CommitStages
<1>9. CASE CommitRefused
  BY <1>9 DEF CommitRefused
<1>10. CASE StartRollBack
  BY <1>10 DEF StartRollBack, JournalFiles, Labels
<1>11. CASE PrepareToWrite
  <2>1. Cardinality(JournalFiles) + 1 \in Nat
    <3>1. JournalFiles \in SUBSET Drives
      BY DEF JournalFiles
    <3>2. IsFiniteSet(JournalFiles)
      BY <3>1, DrivesAssumption, FS_Subset
    <3> QED BY <3>2, FS_CardinalityType
  <2>2. EmptyLog \in Log /\ ENone \in Events
    BY NoLogType DEF Events
  <2>3. log' \in [Drives -> Log] /\ last' \in [Drives -> Events]
    <3>1. log \in [Drives -> Log] /\ last \in [Drives -> Events]
      OBVIOUS
    <3> HIDE DEF IInv, TypeOK
    <3>2. PICK d : /\ log' \in {log, [log EXCEPT ![d] = EmptyLog]}
                   /\ last' \in {last, [last EXCEPT ![d] = ENone]}
      BY <1>11 DEF PrepareToWrite
    <3> QED BY <2>2, <3>1, <3>2
  <2>5. rank' \in [Drives -> Nat]
    <3>1. rank \in [Drives -> Nat]
      OBVIOUS
    <3> HIDE DEF IInv, TypeOK
    <3>2. PICK d : rank' \in {rank, [rank EXCEPT ![d] = Cardinality(JournalFiles) + 1]}
      BY <1>11 DEF PrepareToWrite
    <3> HIDE DEF JournalFiles
    <3> QED BY <2>1, <3>1, <3>2
  <2>4. pc' \in Labels
    BY <1>11 DEF PrepareToWrite, Labels, CallSteps
  <2> QED BY <1>11, <2>3, <2>4, <2>5 DEF PrepareToWrite
<1>12. CASE RegisterDrive
  <2>1. op.file \in Files /\ DriveOf[op.file] \in Drives
    BY <1>12, FilesAssumption DEF RegisterDrive, CallOp, CallSteps
  <2> QED BY <1>12, <2>1, MentionedType DEF RegisterDrive, Labels, CallSteps
<1>13. CASE WriteEntry
  <2>1. op.file \in Files /\ DriveOf[op.file] \in Drives
    BY <1>13, FilesAssumption DEF WriteEntry, CallOp, CallSteps
  <2>2. \A type \in FileEvents :
           WithLeaf(log[DriveOf[op.file]], type, op.file) \in Log
    BY <2>1, WithLeafType
  <2>3. Append(bak[DriveOf[op.file]], "none") \in Seq(Contents)
    BY <2>1 DEF Contents
  <2>4. {EAddedFile, ETempFile, ERemovedFile} \subseteq FileEvents
        /\ FileEvents \subseteq Events
    BY DEF FileEvents, Events
  <2>5. log' \in [Drives -> Log]
    BY <1>13, <2>1, <2>2, <2>4 DEF WriteEntry
  <2>6. bak' \in [Drives -> Seq(Contents)]
    <3>1. bak \in [Drives -> Seq(Contents)]
      OBVIOUS
    <3> HIDE DEF IInv, TypeOK
    <3>2. bak' \in {bak, [bak EXCEPT ![DriveOf[op.file]] = Append(@, "none")]}
      BY <1>13 DEF WriteEntry
    <3> QED BY <2>1, <2>3, <3>1, <3>2
  <2>8. last' \in [Drives -> Events]
    <3>1. last \in [Drives -> Events]
      OBVIOUS
    <3> HIDE DEF IInv, TypeOK
    <3>2. PICK type \in FileEvents : last' \in {last, [last EXCEPT ![DriveOf[op.file]] = type]}
      BY <1>13, <2>4 DEF WriteEntry
    <3> QED BY <2>1, <2>4, <3>1, <3>2
  <2>7. pc' \in Labels /\ op' \in [kind : AllCalls \cup {"none"}, file : Files \cup {"none"}]
    BY <1>13 DEF WriteEntry, Labels, CallSteps, NoOp
  <2> QED BY <1>13, <2>5, <2>6, <2>7, <2>8 DEF WriteEntry
<1>14. CASE MoveToBackup
  <2>1. op.file \in Files /\ DriveOf[op.file] \in Drives
    BY <1>14, FilesAssumption DEF MoveToBackup, CallOp, CallSteps
  <2>2. bak' \in [Drives -> Seq(Contents)]
    <3> DEFINE Moved(d, i) == [bak EXCEPT ![d][i] = fs[op.file]]
    <3>1. \A d, i : Moved(d, i) \in [Drives -> Seq(Contents)]
      BY <2>1, BackupType
    <3>2. bak' = bak \/ bak' = Moved(DriveOf[op.file], Len(bak[DriveOf[op.file]]))
      BY <1>14 DEF MoveToBackup
    <3> HIDE DEF Moved
    <3> QED BY <3>1, <3>2
  <2> QED BY <1>14, <2>1, <2>2 DEF MoveToBackup, Labels, CallSteps, NoOp, Contents
<1>15. CASE CreateOver
  BY <1>15 DEF CreateOver, Labels, CallSteps, Contents, AllCalls
<1>16. CASE WriteCommitEvent
  <2>1. PICK d : d = First(todo)
    OBVIOUS
  <2>2. CommitEvent[pc] \in Events /\ AfterCommit[pc] \in Labels
    BY <1>16 DEF WriteCommitEvent, CommitStages, CommitEvent, AfterCommit, Events,
                 StageEvents, Labels, CommitFinish
  <2>3. d \in Drives => WithEvent(log[d], CommitEvent[pc]) \in Log
    BY <2>2, WithEventType
  <2>4. log' \in [Drives -> Log] /\ last' \in [Drives -> Events]
    BY <1>16, <2>1, <2>2, <2>3 DEF WriteCommitEvent, WriteEvent
  <2>5. promise' \in [Files -> Contents] \cup {NoPromise}
    BY <1>16 DEF WriteCommitEvent, Promised, Contents
  <2>6. todo' \subseteq Drives /\ pc' \in Labels
    BY <1>16, <2>2 DEF WriteCommitEvent, JournalFiles
  <2>7. work' \subseteq Drives \X Nat
    <3>1. JournalFiles \subseteq Drives
      BY DEF JournalFiles
    <3>2. Leaves(StageWalk(AfterCommit[pc], JournalFiles))
      BY <1>0, <3>1
    <3> QED BY <1>16, <3>2 DEF WriteCommitEvent, Leaves
  <2> QED BY <1>16, <2>4, <2>5, <2>6, <2>7 DEF WriteCommitEvent
<1>17. CASE DeleteLeaf
  <2>1. fs' \in [Files -> Contents]
    BY <1>17 DEF DeleteLeaf, Contents
  <2>2. bak' \in [Drives -> Seq(Contents)]
    <3>1. "none" \in Contents
      BY DEF Contents
    <3> DEFINE Moved(d, i) == [bak EXCEPT ![d][i] = "none"]
    <3>2. \A d, i : Moved(d, i) \in [Drives -> Seq(Contents)]
      BY <3>1, BackupType
    <3>3. bak' = bak \/ bak' = Moved(NextLeaf[1], NextLeaf[2])
      BY <1>17 DEF DeleteLeaf
    <3> HIDE DEF Moved
    <3> QED BY <3>2, <3>3
  <2> QED BY <1>17, <2>1, <2>2 DEF DeleteLeaf
<1>18. CASE CommitDeleteLog
  BY <1>18, NoLogType DEF CommitDeleteLog, Labels, CommitFinish
<1>19. CASE CommitMark
  <2>1. First(todo) \in Drives
    BY <1>19, FirstIn DEF CommitMark, DriveToDo
  <2> QED BY <1>19, <2>1, MentionedType DEF CommitMark, Labels, CommitFinish
<1>20. CASE CommitDrop
  BY <1>20 DEF CommitDrop, Forget, Labels, Events, NoOp
<1>21. CASE SkipDrive
  BY <1>21 DEF SkipDrive
<1>22. CASE RollBackDrive
  <2>1. First(todo) \in Drives
    BY <1>22, FirstIn DEF RollBackDrive
  <2>2. Entry(LastEvent, last[First(todo)]) = "corrupt"
        \/ Entry(LastEvent, last[First(todo)]) \in Labels
    BY DEF Entry, Labels, RollBackStages, FinishSteps
  <2>3. CASE Entry(LastEvent, last[First(todo)]) = "corrupt"
    BY <1>22, <2>3 DEF RollBackDrive, LeaveRollBack, Forget, Labels, Events, NoOp
  <2>4. CASE Entry(LastEvent, last[First(todo)]) # "corrupt"
    <3>1. work' \subseteq Drives \X Nat
      <4>1. Leaves(StageWalk(Entry(LastEvent, last[First(todo)]), {First(todo)}))
        BY <1>0, <2>1
      <4> QED BY <1>22, <2>4, <4>1 DEF RollBackDrive, Leaves
    <3> QED BY <1>22, <2>2, <2>4, <3>1 DEF RollBackDrive
  <2> QED BY <2>3, <2>4
<1>23. CASE WriteRollBackEvent
  <2>1. First(todo) \in Drives
    BY <1>23, FirstIn DEF WriteRollBackEvent, DriveToDo
  <2>2. RollBackEvent[pc] \in Events /\ AfterRollBack[pc] \in Labels
    BY <1>23 DEF WriteRollBackEvent, RollBackStages, RollBackEvent, AfterRollBack,
                 Events, StageEvents, Labels, FinishSteps
  <2>3. WithEvent(log[First(todo)], RollBackEvent[pc]) \in Log
    BY <2>1, <2>2, WithEventType
  <2>4. log' \in [Drives -> Log] /\ last' \in [Drives -> Events]
    BY <1>23, <2>1, <2>2, <2>3 DEF WriteRollBackEvent, WriteEvent
  <2>5. work' \subseteq Drives \X Nat
    BY <1>0, <1>23, <2>1 DEF WriteRollBackEvent, Leaves
  <2> QED BY <1>23, <2>2, <2>4, <2>5 DEF WriteRollBackEvent
<1>24. CASE RestoreLeaf
  <2>1. NextLeaf \in work /\ NextLeaf[1] \in Drives
        /\ NextLeaf[2] \in DOMAIN bak[NextLeaf[1]]
    BY Zenon, <1>24, NextLeafIn DEF RestoreLeaf, WorkIsLeaves
  <2>2. bak[NextLeaf[1]][NextLeaf[2]] \in Contents
    BY <2>1
  <2>3. fs' \in [Files -> Contents]
    BY Zenon, <1>24, <2>2 DEF RestoreLeaf
  <2>4. bak' \in [Drives -> Seq(Contents)]
    <3>1. "none" \in Contents
      BY DEF Contents
    <3> DEFINE Moved(d, i) == [bak EXCEPT ![d][i] = "none"]
    <3>2. \A d, i : Moved(d, i) \in [Drives -> Seq(Contents)]
      BY <3>1, BackupType
    <3>3. bak' = bak \/ bak' = Moved(NextLeaf[1], NextLeaf[2])
      BY Zenon, <1>24 DEF RestoreLeaf
    <3> HIDE DEF Moved
    <3> QED BY <3>2, <3>3
  <2>5. CASE LeaveRollBack /\ UNCHANGED <<log, drv, present, rec, promise, bounds>>
    BY <2>3, <2>4, <2>5 DEF LeaveRollBack, Forget, Labels, Events, NoOp
  <2>6. CASE AbandonDrive
             /\ UNCHANGED <<memory, op, client, log, drv, present, rec, promise, bounds>>
    BY <2>3, <2>4, <2>6 DEF AbandonDrive, Labels
  <2>7. CASE work' = work \ {NextLeaf}
             /\ UNCHANGED <<memory, pc, op, todo, client, log, drv, present, rec,
                            promise, bounds>>
    BY <2>3, <2>4, <2>7
  <2> QED BY Zenon, <1>24, <2>5, <2>6, <2>7 DEF RestoreLeaf
<1>25. CASE DeleteLog
  BY <1>25, NoLogType DEF DeleteLog, AbandonDrive, Labels, FinishSteps
<1>26. CASE MarkDrive
  <2>1. First(todo) \in Drives
    BY <1>26, FirstIn DEF MarkDrive, DriveToDo, FinishSteps
  <2> QED BY <1>26, <2>1, MentionedType DEF MarkDrive, Labels, FinishSteps
<1>27. CASE DropDrivesFile
  BY <1>27 DEF DropDrivesFile, Labels
<1>28. CASE EndRollBack
  BY <1>28 DEF EndRollBack, Forget, Labels, Events, NoOp
<1>29. CASE JournallingFails
  <2>1. fs' \in [Files -> Contents]
    BY <1>29 DEF JournallingFails, Contents
  <2> QED BY <1>29, <2>1 DEF JournallingFails, Fault, Labels, NoOp
<1>30. CASE ActFails
  BY <1>30 DEF ActFails, Fault, Labels, NoOp
<1>31. CASE CommitFails
  BY <1>31 DEF CommitFails, Fault, Labels
<1>32. CASE CommitDropFails
  BY <1>32 DEF CommitDropFails, Fault, Labels, Events
<1>33. CASE RollBackFails
  BY <1>33 DEF RollBackFails, Fault, LeaveRollBack, Forget, Labels, Events, NoOp
<1>34. CASE DropFails
  BY <1>34 DEF DropFails, Fault, Forget, Labels, Events, NoOp
<1>35. CASE Crash
  BY <1>35 DEF Crash, Forget, Labels, Events, NoOp
<1>36. CASE Recover
  <2>1. log' \in [Drives -> Log]
    BY <1>36, NoLogType DEF Recover
  <2>2. rank' \in [Drives -> Nat]
    BY <1>36, DrivesAssumption DEF Recover
  <2>3. last' \in [Drives -> Events]
    BY <1>36 DEF Recover, Log, Events
  <2> QED BY <1>36, <2>1, <2>2, <2>3 DEF Recover, Labels
<1>37. ASSUME NEW d \in Drives, Eject(d) PROVE TypeOK'
  BY <1>37 DEF Eject
<1>38. ASSUME NEW d \in Drives, Insert(d) PROVE TypeOK'
  BY <1>38 DEF Insert
<1>39. CASE UNCHANGED vars
  BY <1>39 DEF vars
<1> QED
  BY <1>1, <1>2, <1>3, <1>4, <1>5, <1>6, <1>7, <1>8, <1>9, <1>10, <1>11, <1>12,
     <1>13, <1>14, <1>15, <1>16, <1>17, <1>18, <1>19, <1>20, <1>21, <1>22, <1>23,
     <1>24, <1>25, <1>26, <1>27, <1>28, <1>29, <1>30, <1>31, <1>32, <1>33, <1>34,
     <1>35, <1>36, <1>37, <1>38, <1>39
  DEF Next, ClientCall, ServerStep, Failure

-------------------------------------------------------------------------------
(***************************************************************************)
(* The walks are preserved                                                  *)
(***************************************************************************)
\* No action leaves a journal leaf, or a leaf still to walk, without its backup.
LEMMA WalkStep ==
    ASSUME IInv, [Next]_vars
    PROVE  LeavesHaveBackups' /\ WorkIsLeaves'
<1> DEFINE Valid(W)  == \A w \in W : w[2] \in DOMAIN bak[w[1]]
           SameBackups ==
               \A d \in Drives : Len(bak'[d]) = Len(bak[d])
                                 /\ DOMAIN bak'[d] = DOMAIN bak[d]
           NoMoreLeaves ==
               \A d \in Drives : log'[d].leaves \in {log[d].leaves, <<>>}
<1>0. \A stage, S : S \subseteq Drives => Valid(StageWalk(stage, S))
  BY StageWalkType DEF IInv
<1>a. work \subseteq Drives \X Nat /\ Valid(work)
      /\ log \in [Drives -> Log] /\ bak \in [Drives -> Seq(Contents)]
  BY DEF IInv, TypeOK, WorkIsLeaves
<1>b. work' \subseteq Drives \X Nat /\ log' \in [Drives -> Log]
  BY TypeStep DEF TypeOK
<1>c. ASSUME SameBackups, NoMoreLeaves, Valid(work')
      PROVE  LeavesHaveBackups' /\ WorkIsLeaves'
  <2>1. ASSUME NEW d \in Drives PROVE Len(log'[d].leaves) <= Len(bak'[d])
    <3>1. Len(log[d].leaves) <= Len(bak[d]) /\ Len(bak[d]) \in Nat
      BY <1>a DEF IInv, LeavesHaveBackups
    <3>2. Len(<<>>) = 0
      OBVIOUS
    <3> QED BY <1>c, <3>1, <3>2
  <2>2. ASSUME NEW w \in work' PROVE w[2] \in DOMAIN bak'[w[1]]
    BY <1>b, <1>c
  <2> QED BY <2>1, <2>2 DEF LeavesHaveBackups, WorkIsLeaves
<1>d. ASSUME bak' = bak, log' = log, work' \subseteq work
      PROVE  LeavesHaveBackups' /\ WorkIsLeaves'
  BY <1>a, <1>d DEF IInv, LeavesHaveBackups, WorkIsLeaves
<1>e. ASSUME bak' = bak, NoMoreLeaves, Valid(work')
      PROVE  LeavesHaveBackups' /\ WorkIsLeaves'
  BY <1>c, <1>e
<1> HIDE DEF Valid, SameBackups, NoMoreLeaves
<1> USE DEF durable, memory, control, bounds
<1>1. CASE ClientCall
  BY <1>1, <1>d DEF ClientCall, StartCall, RegisterNew, RegisterTemporary,
                    CreateNew, CreateTemporary, Remove, Overwrite
<1>2. ASSUME NEW f \in Files, ClientWrites(f)
      PROVE  LeavesHaveBackups' /\ WorkIsLeaves'
  BY <1>2, <1>d DEF ClientWrites
<1>3. CASE StartCommit \/ CommitRefused \/ StartRollBack
  BY <1>3, <1>d DEF StartCommit, CommitRefused, StartRollBack
<1>4. CASE RegisterDrive \/ CreateOver \/ CommitMark \/ CommitDrop
  BY <1>4, <1>d DEF RegisterDrive, CreateOver, CommitMark, CommitDrop, Forget
<1>5. CASE SkipDrive \/ MarkDrive \/ DropDrivesFile \/ EndRollBack
  BY <1>5, <1>d DEF SkipDrive, MarkDrive, DropDrivesFile, EndRollBack, Forget
<1>6. CASE JournallingFails \/ ActFails \/ CommitFails \/ CommitDropFails
  BY <1>6, <1>d DEF JournallingFails, ActFails, CommitFails, CommitDropFails
<1>7. CASE RollBackFails \/ DropFails \/ Crash
  BY <1>7, <1>d DEF RollBackFails, DropFails, Crash, LeaveRollBack, Forget
<1>8. CASE PrepareToWrite
  <2>1. NoMoreLeaves
    BY SMTT(40), <1>8, <1>a, NoLogType DEF PrepareToWrite, NoMoreLeaves
  <2> QED BY <1>8, <1>a, <1>e, <2>1 DEF PrepareToWrite
<1>9. CASE WriteEntry
  <2>1. op.file \in Files /\ DriveOf[op.file] \in Drives
    BY SMTT(40), <1>9, FilesAssumption DEF WriteEntry, IInv, CallOp, CallSteps
  <2>2. CASE log' = log /\ bak' = bak
    BY <1>9, <1>d, <2>2 DEF WriteEntry
  <2>3. ASSUME NEW type \in FileEvents,
               log' = [log EXCEPT ![DriveOf[op.file]] = WithLeaf(@, type, op.file)],
               bak' = [bak EXCEPT ![DriveOf[op.file]] = Append(@, "none")]
        PROVE  LeavesHaveBackups' /\ WorkIsLeaves'
    <3> DEFINE d == DriveOf[op.file]
    <3>1. Len(log'[d].leaves) = Len(log[d].leaves) + 1
      BY <1>a, <2>1, <2>3, WithLeafType
    <3>2. Len(bak'[d]) = Len(bak[d]) + 1 /\ DOMAIN bak[d] \subseteq DOMAIN bak'[d]
      BY <1>a, <2>1, <2>3 DEF Contents
    <3>3. \A e \in Drives \ {d} : log'[e] = log[e] /\ bak'[e] = bak[e]
      BY <1>a, <2>3
    <3>4. \A e \in Drives : Len(log[e].leaves) \in Nat /\ Len(bak[e]) \in Nat
      BY <1>a DEF Log
    <3>5. LeavesHaveBackups'
      <4>1. ASSUME NEW e \in Drives PROVE Len(log'[e].leaves) <= Len(bak'[e])
        <5>1. Len(log[e].leaves) <= Len(bak[e])
          BY DEF IInv, LeavesHaveBackups
        <5>2. CASE e = d
          BY <3>1, <3>2, <3>4, <5>1, <5>2
        <5>3. CASE e # d
          BY <3>3, <5>1, <5>3
        <5> QED BY <5>2, <5>3
      <4> QED BY <4>1 DEF LeavesHaveBackups
    <3>6. work' = work
      BY <1>9 DEF WriteEntry
    <3>7. WorkIsLeaves'
      BY <1>a, <3>2, <3>3, <3>6 DEF WorkIsLeaves, Valid
    <3> QED BY <3>5, <3>7
  <2>4. {EAddedFile, ETempFile, ERemovedFile} \subseteq FileEvents
    BY DEF FileEvents
  <2> QED BY SMTT(40), <1>9, <2>2, <2>3, <2>4 DEF WriteEntry
<1>10. CASE MoveToBackup
  <2>1. fs[op.file] \in Contents
    BY <1>10 DEF MoveToBackup, IInv, TypeOK, CallOp, CallSteps
  <2>2. SameBackups
    <3> DEFINE Moved(d, i) == [bak EXCEPT ![d][i] = fs[op.file]]
    <3>1. \A d, i : \A e \in Drives : Len(Moved(d, i)[e]) = Len(bak[e])
                                      /\ DOMAIN Moved(d, i)[e] = DOMAIN bak[e]
      BY <1>a, <2>1, BackupType
    <3>2. bak' = bak \/ bak' = Moved(DriveOf[op.file], Len(bak[DriveOf[op.file]]))
      BY <1>10 DEF MoveToBackup
    <3> HIDE DEF Moved
    <3> QED BY <3>1, <3>2 DEF SameBackups
  <2> QED BY <1>10, <1>a, <1>c, <2>2 DEF MoveToBackup, NoMoreLeaves
<1>11. CASE DeleteLeaf \/ RestoreLeaf
  <2>1. SameBackups
    <3> DEFINE Moved(d, i) == [bak EXCEPT ![d][i] = "none"]
    <3>1. \A d, i : \A e \in Drives : Len(Moved(d, i)[e]) = Len(bak[e])
                                      /\ DOMAIN Moved(d, i)[e] = DOMAIN bak[e]
      BY <1>a, BackupType DEF Contents
    <3>2. bak' = bak \/ bak' = Moved(NextLeaf[1], NextLeaf[2])
      BY Zenon, <1>11 DEF DeleteLeaf, RestoreLeaf
    <3> HIDE DEF Moved
    <3> QED BY <3>1, <3>2 DEF SameBackups
  <2>2. work' \subseteq work /\ log' = log
    BY Zenon, <1>11 DEF DeleteLeaf, RestoreLeaf, AbandonDrive, LeaveRollBack, Forget
  <2> QED BY <1>a, <1>c, <2>1, <2>2 DEF Valid, NoMoreLeaves
<1>12. CASE CommitDeleteLog \/ DeleteLog
  <2>1. NoMoreLeaves
    BY <1>12, <1>a, NoLogType DEF CommitDeleteLog, DeleteLog, NoMoreLeaves
  <2>2. work' \subseteq work /\ bak' = bak
    BY <1>12 DEF CommitDeleteLog, DeleteLog, AbandonDrive
  <2> QED BY <1>a, <1>e, <2>1, <2>2 DEF Valid
<1>13. CASE WriteCommitEvent
  <2>1. CommitEvent[pc] \in Events
    BY <1>13 DEF WriteCommitEvent, CommitStages, CommitEvent, Events, StageEvents
  <2>2. NoMoreLeaves
    BY <1>13, <1>a, <2>1, WithEventType DEF WriteCommitEvent, WriteEvent, NoMoreLeaves
  <2>3. Valid(StageWalk(AfterCommit[pc], JournalFiles))
    BY <1>0 DEF JournalFiles
  <2>4. Valid(work')
    BY <1>13, <1>a, <2>3 DEF WriteCommitEvent
  <2> QED BY <1>13, <1>e, <2>2, <2>4 DEF WriteCommitEvent
<1>14. CASE WriteRollBackEvent
  <2>1. RollBackEvent[pc] \in Events
    BY <1>14 DEF WriteRollBackEvent, RollBackStages, RollBackEvent, Events, StageEvents
  <2>2. NoMoreLeaves
    BY <1>14, <1>a, <2>1, WithEventType DEF WriteRollBackEvent, WriteEvent, NoMoreLeaves
  <2>3. First(todo) \in Drives
    BY <1>14, FirstIn DEF WriteRollBackEvent, IInv, TypeOK, DriveToDo
  <2>4. Valid(StageWalk(AfterRollBack[pc], {First(todo)}))
    BY <1>0, <2>3
  <2>5. Valid(work')
    BY <1>14, <2>4 DEF WriteRollBackEvent
  <2> QED BY <1>14, <1>e, <2>2, <2>5 DEF WriteRollBackEvent
<1>15. CASE RollBackDrive
  <2>1. First(todo) \in Drives
    BY <1>15, FirstIn DEF RollBackDrive, IInv, TypeOK
  <2>2. Valid(StageWalk(Entry(LastEvent, last[First(todo)]), {First(todo)}))
    BY <1>0, <2>1
  <2>3. Valid(work')
    BY <1>15, <2>2 DEF RollBackDrive, LeaveRollBack, Forget, Valid
  <2>4. NoMoreLeaves /\ bak' = bak
    BY <1>15 DEF RollBackDrive, NoMoreLeaves
  <2> QED BY <1>e, <2>3, <2>4
<1>16. CASE Recover
  <2>1. NoMoreLeaves
    BY <1>16, <1>a, NoLogType DEF Recover, NoMoreLeaves
  <2>2. Valid(work') /\ bak' = bak
    BY <1>16 DEF Recover, Valid
  <2> QED BY <1>e, <2>1, <2>2
<1>17. ASSUME NEW d \in Drives, Eject(d) \/ Insert(d)
       PROVE  LeavesHaveBackups' /\ WorkIsLeaves'
  BY <1>17, <1>d DEF Eject, Insert
<1>18. CASE UNCHANGED vars
  BY <1>18, <1>d DEF vars
<1> QED
  BY <1>1, <1>2, <1>3, <1>4, <1>5, <1>6, <1>7, <1>8, <1>9, <1>10, <1>11, <1>12,
     <1>13, <1>14, <1>15, <1>16, <1>17, <1>18
  DEF Next, ServerStep, Failure

-------------------------------------------------------------------------------
(***************************************************************************)
(* The control of the server is preserved                                   *)
(***************************************************************************)
\* CommitL, RollBackL and the recovery always have a drive to work on, and a
\* client call its file.
LEMMA ControlStep ==
    ASSUME IInv, [Next]_vars
    PROVE  DriveToDo' /\ CallOp' /\ ClientServed'
<1> USE DEF IInv, DriveToDo, CallOp, ClientServed, Live, durable, memory, control,
            bounds, RollBackStages, CommitStages, CallSteps, FinishSteps
<1>1. CASE ClientCall
  BY <1>1 DEF ClientCall, StartCall, RegisterNew, RegisterTemporary,
              CreateNew, CreateTemporary, Remove, Overwrite
<1>2. ASSUME NEW f \in Files, ClientWrites(f)
      PROVE  DriveToDo' /\ CallOp' /\ ClientServed'
  BY <1>2 DEF ClientWrites
<1>3. CASE StartCommit
  BY <1>3 DEF StartCommit
<1>4. CASE CommitRefused \/ StartRollBack
  BY SMTT(40), <1>4 DEF CommitRefused, StartRollBack
<1>5. CASE PrepareToWrite \/ RegisterDrive \/ WriteEntry
  BY <1>5 DEF PrepareToWrite, RegisterDrive, WriteEntry
<1>6. CASE MoveToBackup \/ CreateOver
  BY <1>6 DEF MoveToBackup, CreateOver, TypeOK
<1>7. CASE WriteCommitEvent
  BY <1>7 DEF WriteCommitEvent, AfterCommit, CommitInv, CommitDrives
<1>8. CASE DeleteLeaf \/ CommitDeleteLog
  BY <1>8 DEF DeleteLeaf, CommitDeleteLog
<1>9. CASE CommitMark \/ CommitDrop
  BY <1>9 DEF CommitMark, CommitDrop, Forget
<1>10. CASE SkipDrive
  BY <1>10 DEF SkipDrive
<1>11. CASE RollBackDrive
  BY <1>11 DEF RollBackDrive, Entry, LeaveRollBack, Forget
<1>12. CASE WriteRollBackEvent
  BY <1>12 DEF WriteRollBackEvent, AfterRollBack
<1>13. CASE RestoreLeaf
  BY Zenon, <1>13 DEF RestoreLeaf, LeaveRollBack, AbandonDrive, Forget
<1>14. CASE DeleteLog \/ MarkDrive
  BY <1>14 DEF DeleteLog, MarkDrive, AbandonDrive
<1>15. CASE DropDrivesFile \/ EndRollBack
  BY <1>15 DEF DropDrivesFile, EndRollBack, Forget
<1>16. CASE JournallingFails \/ ActFails \/ CommitFails \/ CommitDropFails
  BY <1>16 DEF JournallingFails, ActFails, CommitFails, CommitDropFails
<1>17. CASE RollBackFails \/ DropFails \/ Crash
  BY <1>17 DEF RollBackFails, DropFails, Crash, LeaveRollBack, Forget
<1>18. CASE Recover
  BY <1>18 DEF Recover
<1>19. ASSUME NEW d \in Drives, Eject(d) \/ Insert(d)
       PROVE  DriveToDo' /\ CallOp' /\ ClientServed'
  BY <1>19 DEF Eject, Insert
<1>20. CASE UNCHANGED vars
  BY <1>20 DEF vars
<1> QED
  BY <1>1, <1>2, <1>3, <1>4, <1>5, <1>6, <1>7, <1>8, <1>9, <1>10, <1>11, <1>12,
     <1>13, <1>14, <1>15, <1>16, <1>17, <1>18, <1>19, <1>20
  DEF Next, ServerStep, Failure

-------------------------------------------------------------------------------
(***************************************************************************)
(* The drives and the marks of a commit are preserved                       *)
(***************************************************************************)

\* A set that holds another one of as many members is that one.
LEMMA SameSet ==
    ASSUME NEW S \in SUBSET Drives, NEW T \in SUBSET Drives, S \subseteq T,
           Cardinality(T) = Cardinality(S)
    PROVE  S = T
<1>1. IsFiniteSet(T)
  BY DrivesAssumption, FS_Subset
<1> QED BY <1>1, FS_Subset

\* CommitL never starts, and never goes on, with fewer journals than drives.
LEMMA CommitStep ==
    ASSUME IInv, [Next]_vars
    PROVE  CommitInv'
<1>a. ASSUME rank' = rank, all' = all, log' = log, todo' = todo, op' = op,
             work' \subseteq work, client' \in Live => client' = client, pc' = pc
      PROVE  CommitInv'
  BY <1>a DEF CommitInv, IInv, DrivesKnown, CommitDrives, CommitMarks, JournalFiles, Live
<1>b. ASSUME rank' = rank, all' = all, client' = "open" => client = "open",
             client' \in Live => client \in Live,
             pc' \notin CommitStages \cup {"register"}
      PROVE  CommitInv'
  BY <1>b DEF CommitInv, IInv, DrivesKnown, CommitDrives, CommitMarks, JournalFiles,
              CommitStages
<1>c. ASSUME client' \notin Live, pc' \notin CommitStages \cup {"register"}
      PROVE  CommitInv'
  BY <1>c DEF CommitInv, DrivesKnown, CommitDrives, CommitMarks, CommitStages, Live
<1> USE DEF durable, memory, control, bounds, CommitStages
<1>1. CASE ClientCall
  BY <1>1, <1>b DEF ClientCall, StartCall, RegisterNew, RegisterTemporary,
                    CreateNew, CreateTemporary, Remove, Overwrite
<1>2. ASSUME NEW f \in Files, ClientWrites(f) PROVE CommitInv'
  BY <1>2, <1>a DEF ClientWrites
<1>3. CASE StartCommit
  <2>1. client \in Live
    BY <1>3 DEF StartCommit, MayCommit, Live
  <2>2. JournalFiles # {} => all = JournalFiles
    <3>1. JournalFiles \in SUBSET Drives /\ all \in SUBSET Drives
      BY DEF JournalFiles, IInv, TypeOK
    <3>2. Cardinality(JournalFiles) = Cardinality(all)
      BY <1>3 DEF StartCommit, CommitReady
    <3>3. JournalFiles = {} \/ all \subseteq JournalFiles
      BY <2>1 DEF IInv, CommitInv, DrivesKnown
    <3> QED BY <3>1, <3>2, <3>3, SameSet
  <2>3. JournalFiles' = JournalFiles /\ all' = all /\ client' = client
    BY <1>3 DEF StartCommit, JournalFiles
  <2>4. /\ pc' = IF JournalFiles = {} THEN "cDrop" ELSE "cCommit"
        /\ todo' = JournalFiles /\ work' = {}
    BY <1>3 DEF StartCommit
  <2>5. DrivesKnown'
    BY <2>3, <2>4 DEF IInv, CommitInv, DrivesKnown
  <2>6. CommitDrives' /\ CommitMarks'
    BY <2>2, <2>3, <2>4 DEF CommitDrives, CommitMarks
  <2> QED BY <2>5, <2>6 DEF CommitInv
<1>4. CASE CommitRefused \/ StartRollBack
  BY <1>4, <1>b DEF CommitRefused, StartRollBack, MayCommit, Live
<1>5. CASE PrepareToWrite
  <2> DEFINE d == DriveOf[op.file]
  <2>1. op.file \in Files /\ d \in Drives /\ client = "open"
    BY <1>5, FilesAssumption DEF PrepareToWrite, IInv, CallOp, CallSteps
  <2>2. CASE rank[d] # 0
    BY <1>5, <2>2, <1>b DEF PrepareToWrite
  <2>3. CASE rank[d] = 0
    <3>1. Cardinality(JournalFiles) \in Nat
      <4>1. JournalFiles \in SUBSET Drives
        BY DEF JournalFiles
      <4> QED BY <4>1, DrivesAssumption, FS_Subset, FS_CardinalityType
    <3>2. rank' = [rank EXCEPT ![d] = Cardinality(JournalFiles) + 1]
      BY <1>5, <2>3 DEF PrepareToWrite
    <3>3. JournalFiles \subseteq JournalFiles' /\ d \in JournalFiles'
      <4>1. PICK n \in Nat : n = Cardinality(JournalFiles)
        BY <3>1
      <4>2. rank \in [Drives -> Nat] /\ rank' = [rank EXCEPT ![d] = n + 1]
        BY <3>2, <4>1 DEF IInv, TypeOK
      <4>3. \A e \in Drives : rank[e] > 0 => rank'[e] > 0
        BY <4>1, <4>2
      <4>4. rank'[d] > 0
        BY <2>1, <4>1, <4>2
      <4> QED BY <2>1, <4>3, <4>4 DEF JournalFiles
    <3>4. all' = all /\ client' = client /\ op' = op /\ pc' = "register"
      BY <1>5, <2>3 DEF PrepareToWrite
    <3>5. DrivesKnown'
      BY <2>1, <3>3, <3>4 DEF IInv, CommitInv, DrivesKnown
    <3> QED BY <3>4, <3>5 DEF CommitDrives, CommitMarks, CommitInv
  <2> QED BY <2>2, <2>3
<1>6. CASE RegisterDrive
  <2>1. JournalFiles' = JournalFiles /\ client' = client /\ pc' = "journal"
        /\ all' = all \cup {DriveOf[op.file]} /\ DriveOf[op.file] \in JournalFiles
        /\ client = "open"
    BY <1>6 DEF RegisterDrive, JournalFiles, IInv, CommitInv, DrivesKnown, CallOp, CallSteps
  <2>2. DrivesKnown'
    BY SMTT(40), <2>1 DEF IInv, CommitInv, DrivesKnown
  <2> QED BY <2>1, <2>2 DEF CommitDrives, CommitMarks, CommitInv
<1>7. CASE WriteEntry \/ MoveToBackup \/ CreateOver
  BY <1>7, <1>b DEF WriteEntry, MoveToBackup, CreateOver
<1>8. CASE WriteCommitEvent
  <2> DEFINE d == First(todo)
             rest == todo \ {d}
  <2>1. JournalFiles' = JournalFiles /\ all' = all /\ client' = client
    BY <1>8 DEF WriteCommitEvent, JournalFiles
  <2>2. d \in Drives /\ log' = [log EXCEPT ![d] = WithEvent(@, CommitEvent[pc])]
    BY <1>8, FirstIn DEF WriteCommitEvent, WriteEvent, IInv, TypeOK, DriveToDo
  <2>3. CASE pc = "cCommit"
    <3>1. log'[d].last = ECommitted
      <4>1. ECommitted \in Events /\ CommitEvent[pc] = ECommitted
        BY <2>3 DEF Events, StageEvents, CommitEvent
      <4> QED BY <2>2, <4>1, WithEventType DEF IInv, TypeOK
    <3>2. \A e \in JournalFiles \ rest : log'[e].last = ECommitted
      <4>1. \A e \in JournalFiles \ todo : log[e].last = ECommitted
        BY <2>3 DEF IInv, CommitInv, CommitMarks
      <4>2. \A e \in Drives \ {d} : log'[e] = log[e]
        BY <2>2 DEF IInv, TypeOK
      <4> QED BY <3>1, <4>1, <4>2 DEF JournalFiles
    <3>3. CASE rest # {}
      <4>1. pc' = pc /\ work' = {} /\ todo' = rest
        BY <1>8, <3>3 DEF WriteCommitEvent
      <4> QED BY <2>1, <2>3, <3>2, <4>1
              DEF CommitInv, IInv, DrivesKnown, CommitDrives, CommitMarks
    <3>4. CASE rest = {}
      <4>1. pc' = "cDelBackup"
        BY <1>8, <2>3, <3>4 DEF WriteCommitEvent, AfterCommit
      <4> QED BY <2>1, <2>3, <3>2, <3>4, <4>1
              DEF CommitInv, IInv, DrivesKnown, CommitDrives, CommitMarks
    <3> QED BY <3>3, <3>4
  <2>4. CASE pc # "cCommit"
    <3>1. pc' \in {"cDelBackup", "cDelTemp", "cDelLog"}
          /\ (pc' = "cDelBackup" => work' = {})
      BY <1>8, <2>4 DEF WriteCommitEvent, AfterCommit
    <3> QED BY <1>8, <2>1, <3>1
            DEF WriteCommitEvent, CommitInv, IInv, DrivesKnown, CommitDrives, CommitMarks
  <2> QED BY <2>3, <2>4
<1>9. CASE DeleteLeaf
  BY <1>9, <1>a DEF DeleteLeaf
<1>10. CASE CommitDeleteLog \/ CommitMark
  BY <1>10, <1>b DEF CommitDeleteLog, CommitMark
<1>11. CASE CommitDrop \/ Crash
  BY <1>11, <1>c DEF CommitDrop, Crash, Live
<1>12. CASE SkipDrive \/ DeleteLog \/ MarkDrive \/ DropDrivesFile
  BY <1>12, <1>b DEF SkipDrive, DeleteLog, MarkDrive, DropDrivesFile, AbandonDrive
<1>13. ASSUME LeaveRollBack, rec' = rec, pc # "off" PROVE CommitInv'
  <2>1. CASE rec
    BY <1>13, <1>b, <2>1 DEF LeaveRollBack, IInv, ClientServed, Live
  <2>2. CASE ~rec
    BY <1>13, <1>c, <2>2 DEF LeaveRollBack, IInv, ClientServed, Live
  <2> QED BY <2>1, <2>2
<1>14. CASE RollBackDrive
  <2>1. Entry(LastEvent, last[First(todo)])
           \in {"corrupt", "delLog", "delAdded", "restore", "delTemp", "delBackup"}
    BY DEF Entry
  <2> QED BY <1>14, <2>1, <1>13, <1>b DEF RollBackDrive
<1>15. CASE WriteRollBackEvent
  BY <1>15, <1>b DEF WriteRollBackEvent, AfterRollBack, RollBackStages
<1>16. CASE RestoreLeaf
  <2>1. rec' = rec /\ pc = "restore"
    BY Zenon, <1>16 DEF RestoreLeaf
  <2>2. CASE LeaveRollBack
    BY <1>13, <2>1, <2>2
  <2>3. CASE UNCHANGED <<memory, client>> /\ pc' \in {"restore", "next"}
    BY <1>b, <2>3
  <2> QED BY Zenon, <1>16, <2>1, <2>2, <2>3 DEF RestoreLeaf, AbandonDrive
<1>17. CASE RollBackFails
  BY <1>17, <1>13 DEF RollBackFails, RollBackStages
<1>18. CASE DropFails
  <2>1. CASE rec
    BY <1>18, <1>b, <2>1 DEF DropFails, IInv, ClientServed, Live
  <2>2. CASE ~rec
    BY <1>18, <1>c, <2>2 DEF DropFails, IInv, ClientServed
  <2> QED BY <2>1, <2>2
<1>19. CASE EndRollBack
  BY <1>19, <1>c DEF EndRollBack, IInv, ClientServed, Live
<1>20. CASE JournallingFails \/ ActFails \/ CommitFails
  <2>1. CASE JournallingFails \/ ActFails
    BY <1>b, <2>1 DEF JournallingFails, ActFails
  <2>2. CASE CommitFails
    <3>1. client \in Live
      BY <2>2 DEF CommitFails, IInv, ClientServed, RollBackStages, FinishSteps
    <3> QED BY <1>b, <2>2, <3>1 DEF CommitFails
  <2> QED BY <1>20, <2>1, <2>2
<1>21. CASE CommitDropFails
  <2>1. JournalFiles' = {}
    BY <1>21 DEF CommitDropFails, JournalFiles
  <2>2. pc' = "idle" /\ client' = "commitFailed"
    BY <1>21 DEF CommitDropFails
  <2> QED BY <2>1, <2>2 DEF CommitInv, DrivesKnown, CommitDrives, CommitMarks
<1>22. CASE Recover
  BY <1>22, <1>c DEF Recover, IInv, ClientServed
<1>23. ASSUME NEW d \in Drives, Eject(d) \/ Insert(d) PROVE CommitInv'
  BY <1>23, <1>a DEF Eject, Insert
<1>24. CASE UNCHANGED vars
  BY <1>24, <1>a DEF vars
<1> QED
  BY <1>1, <1>2, <1>3, <1>4, <1>5, <1>6, <1>7, <1>8, <1>9, <1>10, <1>11, <1>12,
     <1>14, <1>15, <1>16, <1>17, <1>18, <1>19, <1>20, <1>21, <1>22, <1>23, <1>24
  DEF Next, ServerStep, Failure

-------------------------------------------------------------------------------
(***************************************************************************)
(* The theorems                                                             *)
(***************************************************************************)
\* A fresh transaction, before its first call, satisfies the invariant.
LEMMA IInvInit == Init => IInv
<1> SUFFICES ASSUME Init PROVE IInv
  OBVIOUS
<1>1. TypeOK
  BY TypeInit
<1>2. LeavesHaveBackups /\ WorkIsLeaves
  <2>1. Len(<<>>) = 0 /\ 0 <= 0
    OBVIOUS
  <2> QED BY <2>1, NoLogType DEF Init, LeavesHaveBackups, WorkIsLeaves
<1>3. DriveToDo /\ CallOp /\ ClientServed
  BY DEF Init, DriveToDo, CallOp, ClientServed, Live, RollBackStages, CommitStages,
         CallSteps, FinishSteps
<1>4. CommitInv
  BY DEF Init, CommitInv, DrivesKnown, CommitDrives, CommitMarks, CommitStages
<1> QED BY <1>1, <1>2, <1>3, <1>4 DEF IInv

\* Every step of the engine, and every stutter, preserves it.
LEMMA IInvStep == IInv /\ [Next]_vars => IInv'
BY TypeStep, WalkStep, ControlStep, CommitStep DEF IInv

\* The inductive invariant holds of every reachable state of the engine.
THEOREM Invariance == Spec => []IInv
BY IInvInit, IInvStep, PTL DEF Spec

\* Every reachable state of the transaction engine is well typed, whatever the
\* drives, the files, the calls and the number of faults and crashes.
THEOREM TypeCorrect == Spec => []TypeOK
<1>1. IInv => TypeOK
  BY DEF IInv
<1> QED BY <1>1, Invariance, PTL

\* CommitL never destroys a backup before ECommitted is durable on every drive of
\* the transaction: a crash before that can still roll everything back.
THEOREM CommitIsBarrier == Spec => CommitBarrier
<1> DEFINE Kept ==
      \A d \in Drives : \A i \in DOMAIN bak[d] :
         pc = "cDelBackup" /\ bak[d][i] # "none" /\ bak'[d][i] = "none"
             => \A e \in all : log[e].last = ECommitted
<1>1. IInv /\ [Next]_vars => [Kept]_vars
  <2> SUFFICES ASSUME IInv, [Next]_vars, pc = "cDelBackup", bak' # bak
               PROVE  \A e \in all : log[e].last = ECommitted
    OBVIOUS
  <2> USE DEF durable, memory, control, bounds
  <2>1. work # {}
    <3>1. CASE ClientCall
      BY <3>1 DEF ClientCall, StartCall, RegisterNew, RegisterTemporary, CreateNew,
                  CreateTemporary, Remove, Overwrite
    <3>2. CASE \E f \in Files : ClientWrites(f)
      BY <3>2 DEF ClientWrites
    <3>3. CASE StartCommit \/ CommitRefused \/ StartRollBack
      BY <3>3 DEF StartCommit, CommitRefused, StartRollBack
    <3>4. CASE ServerStep
      BY <3>4 DEF ServerStep, PrepareToWrite, RegisterDrive, WriteEntry, MoveToBackup,
              CreateOver, WriteCommitEvent, DeleteLeaf, CommitDeleteLog, CommitMark,
              CommitDrop, SkipDrive, RollBackDrive, WriteRollBackEvent, RestoreLeaf,
              DeleteLog, MarkDrive, DropDrivesFile, EndRollBack
    <3>5. CASE Failure
      BY <3>5 DEF Failure, JournallingFails, ActFails, CommitFails, CommitDropFails,
                  RollBackFails, DropFails, Crash
    <3>6. CASE Recover \/ (\E d \in Drives : Eject(d) \/ Insert(d))
      BY <3>6 DEF Recover, Eject, Insert
    <3>7. CASE UNCHANGED vars
      BY <3>7 DEF vars
    <3> QED BY <3>1, <3>2, <3>3, <3>4, <3>5, <3>6, <3>7 DEF Next
  <2>2. all = JournalFiles /\ \A d \in JournalFiles : log[d].last = ECommitted
    BY <2>1 DEF IInv, CommitInv, CommitDrives, CommitMarks, CommitStages
  <2> QED BY <2>2
<1>2. QED BY <1>1, Invariance, PTL DEF Spec, CommitBarrier

-------------------------------------------------------------------------------
(***************************************************************************)
(* A journal past its commit point is never walked backwards                *)
(***************************************************************************)

\* What a walk visits depends on the leaves of its drives only.
LEMMA WalkKept ==
    ASSUME NEW stage, NEW S, \A d \in S : log'[d].leaves = log[d].leaves
    PROVE  StageWalk(stage, S)' = StageWalk(stage, S)
<1>1. \A d \in S : \A type : LeavesOf(d, type)' = LeavesOf(d, type)
  BY DEF LeavesOf
<1>2. \A type : Walk(S, type)' = Walk(S, type)
  BY <1>1 DEF Walk
<1> QED BY <1>2 DEF StageWalk

\* A walk begins at the leaves its stage is about.
LEMMA WorkBegun ==
    ASSUME NEW stage, NEW S, \A d \in S : log'[d].leaves = log[d].leaves,
           pc' = stage, work' = StageWalk(stage, S),
           stage \in RollBackStages => S = {First(todo)'},
           stage \notin RollBackStages => S = todo'
    PROVE  WorkOfStage'
<1>1. \A d \in S : \A type : LeavesOf(d, type)' = LeavesOf(d, type)
  BY DEF LeavesOf
<1>2. \A type : Walk(S, type)' = Walk(S, type)
  BY <1>1 DEF Walk
<1>3. S = (IF pc \in RollBackStages THEN {First(todo)} ELSE todo)'
  OBVIOUS
<1>4. StageWalk(pc, S)' = StageWalk(stage, S)
  BY <1>2 DEF StageWalk
<1> QED BY <1>3, <1>4 DEF WorkOfStage

\* The kinds of entries are told apart.
LEMMA EventKinds ==
    /\ ENone \notin FileEvents \cup RedoEvents \cup UndoEvents
    /\ \A e \in FileEvents : e \in UndoEvents /\ e \notin RedoEvents /\ e # ETempFilesRemoved
    /\ \A e \in UndoEvents : e \notin RedoEvents /\ e # ETempFilesRemoved
    /\ ETempFilesRemoved \notin RedoEvents \cup {ENone}
    /\ {EAddedFilesRemoved, ERemovedFilesRestored} \subseteq UndoEvents
    /\ RedoEvents = {ECommitted, EBackupFilesRemoved}
    /\ FileEvents \cup UndoEvents \cup RedoEvents \cup {ENone, ETempFilesRemoved} \subseteq Events
BY DEF FileEvents, UndoEvents, RedoEvents, Events, StageEvents, ENone, ERemovedFile,
       ETempFile, EAddedFile, ECommitted, EBackupFilesRemoved, EAddedFilesRemoved,
       ERemovedFilesRestored, ETempFilesRemoved

\* The last leaf of a journal that got an entry is the new one.
LEMMA AppendLeaf ==
    ASSUME NEW T, NEW s \in Seq(T), NEW x \in T
    PROVE  /\ Append(s, x) \in Seq(T) /\ Len(Append(s, x)) = Len(s) + 1
           /\ DOMAIN Append(s, x) = DOMAIN s \cup {Len(s) + 1}
           /\ \A i \in DOMAIN s : Append(s, x)[i] = s[i]
           /\ Append(s, x)[Len(s) + 1] = x
OBVIOUS

\* The type of the leaves a stage walks.
StageType(stage) ==
    CASE stage = "delAdded"                               -> EAddedFile
      [] stage \in {"delBackup", "cDelBackup", "restore"} -> ERemovedFile
      [] OTHER                                            -> ETempFile

Walking == {"delAdded", "delBackup", "cDelBackup", "restore", "delTemp", "cDelTemp"}

\* A walk visits leaves of its drives that have its type.
LEMMA StageLeaf ==
    ASSUME NEW stage, NEW S, NEW w \in StageWalk(stage, S)
    PROVE  /\ stage \in Walking /\ w[1] \in S /\ w = <<w[1], w[2]>>
           /\ w[2] \in LeavesOf(w[1], StageType(stage))
           /\ w[2] \in DOMAIN log[w[1]].leaves
           /\ log[w[1]].leaves[w[2]].type = StageType(stage)
<1>1. PICK type : w \in Walk(S, type) /\ type = StageType(stage) /\ stage \in Walking
  BY DEF StageWalk, StageType, Walking
<1>2. PICK d \in S : w \in {d} \X LeavesOf(d, type)
  BY <1>1 DEF Walk
<1> QED BY <1>1, <1>2 DEF LeavesOf

\* ... and every one of them.
LEMMA LeafInStage ==
    ASSUME NEW stage \in Walking, NEW S, NEW d \in S, NEW i \in LeavesOf(d, StageType(stage))
    PROVE  <<d, i>> \in StageWalk(stage, S)
BY DEF StageWalk, StageType, Walking, Walk

\* Between stages no leaf is left to visit.
LEMMA NoWalk ==
    ASSUME UndoInv, pc \notin Walking
    PROVE  work = {}
BY StageLeaf DEF UndoInv, WorkOfStage

\* What is to do next belongs to iJournalFiles.
LEMMA FirstLoaded ==
    ASSUME IInv, UndoInv, todo # {}
    PROVE  First(todo) \in todo /\ First(todo) \in JournalFiles /\ First(todo) \in Drives
BY FirstIn DEF IInv, TypeOK, UndoInv, TodoLoaded, JournalFiles

\* A step that leaves the journals and iJournalFiles alone, and begins no walk.
LEMMA UndoQuiet ==
    ASSUME IInv, UndoInv, log' = log, rank' = rank, last' = last,
           work' = {}, todo' \subseteq JournalFiles, pc' \notin {"delAdded", "restore"},
           Calling' => Calling,
           pc' \in {"idle", "off", "cDrop"} \cup CallSteps => todo' = {}
    PROVE  UndoInv'
<1>1. JournalFiles' = JournalFiles
  BY DEF JournalFiles
<1> QED BY <1>1 DEF UndoInv, LeavesAtHome, WorkOfStage, TodoLoaded, NotBegun, MemoryAhead

\* A step that moves no leaf, no journal and no loop.
LEMMA UndoSame ==
    ASSUME IInv, UndoInv, log' = log, rank' = rank, last' = last, pc' = pc,
           work' \subseteq work, todo' = todo, Calling' => Calling
    PROVE  UndoInv'
<1>1. JournalFiles' = JournalFiles /\ First(todo)' = First(todo)
  BY DEF JournalFiles, First
<1>2. \A stage, S : StageWalk(stage, S)' = StageWalk(stage, S)
  BY WalkKept
<1>3. WorkOfStage'
  <2>1. \A S : StageWalk(pc, S)' = StageWalk(pc, S)
    BY DEF StageWalk, Walk, LeavesOf
  <2> QED BY <1>1, <2>1 DEF UndoInv, WorkOfStage
<1> QED BY <1>1, <1>3 DEF UndoInv, LeavesAtHome, TodoLoaded, NotBegun, MemoryAhead

\* The object is destroyed.
LEMMA UndoForget ==
    ASSUME UndoInv, log' = log, Forget, pc' = "off"
    PROVE  UndoInv'
<1>1. JournalFiles' = {} /\ work' = {} /\ todo' = {}
  BY DEF Forget, JournalFiles
<1> QED BY <1>1 DEF UndoInv, LeavesAtHome, WorkOfStage, TodoLoaded, NotBegun, MemoryAhead,
                    Calling, CallSteps

\* Every action keeps what is committed apart from what is undone.
LEMMA UndoStep ==
    ASSUME IInv, UndoInv, [Next]_vars, IInv'
    PROVE  UndoInv'
<1> USE DEF durable, memory, control, bounds
<1>a. JournalFiles \subseteq Drives /\ todo \subseteq JournalFiles
  BY DEF JournalFiles, UndoInv, TodoLoaded
<1>b. /\ log \in [Drives -> Log] /\ rank \in [Drives -> Nat] /\ last \in [Drives -> Events]
      /\ bak \in [Drives -> Seq(Contents)]
  BY DEF IInv, TypeOK
<1>t. todo # {} => First(todo) \in todo /\ First(todo) \in JournalFiles /\ First(todo) \in Drives
  BY FirstLoaded
<1>w. pc \notin Walking => work = {}
  BY NoWalk
<1>u. pc \in RollBackStages \cup FinishSteps \cup CommitStages \cup {"cDelLog", "cMark"}
         => todo # {}
  BY DEF IInv, DriveToDo
<1>1. CASE ClientCall
  <2>1. /\ log' = log /\ rank' = rank /\ last' = last /\ work' = work /\ todo' = todo
        /\ pc = "idle" /\ pc' = "prepare" /\ client = "open"
    BY <1>1 DEF ClientCall, StartCall, RegisterNew, RegisterTemporary,
                CreateNew, CreateTemporary, Remove, Overwrite
  <2>2. todo = {} /\ work = {}
    BY <2>1, <1>w DEF UndoInv, TodoLoaded, Walking
  <2> QED BY <2>1, <2>2, UndoQuiet DEF Calling
<1>2. CASE (\E f \in Files : ClientWrites(f)) \/ (\E d \in Drives : Eject(d) \/ Insert(d))
  BY <1>2, UndoSame DEF ClientWrites, Eject, Insert, Calling
<1>3. CASE StartCommit \/ StartRollBack
  <2>1. /\ log' = log /\ rank' = rank /\ last' = last /\ work' = {}
        /\ todo' = JournalFiles /\ pc' \in {"cCommit", "cDrop", "next"}
        /\ pc' = "cDrop" => JournalFiles = {}
    BY <1>3 DEF StartCommit, StartRollBack
  <2>2. ~Calling'
    BY <2>1 DEF Calling, CallSteps
  <2> QED BY <2>1, <2>2, UndoQuiet DEF CallSteps
<1>4. CASE CommitRefused
  BY <1>4, UndoSame DEF CommitRefused, Calling
<1>5. CASE PrepareToWrite
  <2> DEFINE d == DriveOf[op.file]
  <2>1. pc = "prepare" /\ client = "open" /\ d \in Drives /\ client' = client
        /\ todo' = todo /\ work' = work /\ todo = {} /\ work = {}
        /\ pc' \in {"journal", "register"}
    BY <1>5, <1>w, FilesAssumption
       DEF PrepareToWrite, IInv, CallOp, CallSteps, UndoInv, TodoLoaded, Walking
  <2>2. CASE rank[d] # 0
    <3>1. log' = log /\ rank' = rank /\ last' = last
      BY <1>5, <2>2 DEF PrepareToWrite
    <3> QED BY <2>1, <3>1, UndoQuiet DEF Calling, CallSteps
  <2>3. CASE rank[d] = 0
    <3>1. /\ log' = [log EXCEPT ![d] = EmptyLog] /\ last' = [last EXCEPT ![d] = ENone]
      BY <1>5, <2>3 DEF PrepareToWrite
    <3>2. EmptyLog.leaves = <<>> /\ EmptyLog.last = ENone
      BY DEF EmptyLog, NoLog
    <3>3. \A e \in Drives : /\ log'[e].leaves \in {log[e].leaves, <<>>}
                            /\ log'[e].last \in {log[e].last, ENone}
      BY <3>1, <3>2, <1>b
    <3>4. LeavesAtHome'
      BY <3>3 DEF UndoInv, LeavesAtHome
    <3>5. NotBegun'
      BY <3>3, <2>1 DEF UndoInv, NotBegun, Calling, CallSteps
    <3>6. MemoryAhead'
      <4>1. \A e \in Drives : log'[e].last \in FileEvents \cup {ENone}
        BY <3>3, <2>1 DEF UndoInv, NotBegun, Calling, CallSteps
      <4>2. \A e \in Drives : log'[e].last \notin RedoEvents
        BY <4>1, EventKinds
      <4>3. JournalFiles' \subseteq Drives
        BY DEF JournalFiles
      <4> QED BY <4>2, <4>3, <2>1 DEF MemoryAhead
    <3>7. WorkOfStage' /\ TodoLoaded'
      BY <2>1 DEF WorkOfStage, TodoLoaded
    <3> QED BY <3>4, <3>5, <3>6, <3>7 DEF UndoInv
  <2> QED BY <2>2, <2>3
<1>6. CASE WriteEntry
  <2> DEFINE d == DriveOf[op.file]
  <2>1. pc = "journal" /\ client = "open" /\ d \in Drives /\ client' = client
        /\ rank' = rank /\ op.file \in Files
        /\ todo' = todo /\ work' = work /\ todo = {} /\ work = {}
        /\ pc' \in {"idle", "act"}
    BY <1>6, <1>w, FilesAssumption
       DEF WriteEntry, IInv, CallOp, CallSteps, UndoInv, TodoLoaded, Walking
  <2>2. CASE log' = log /\ last' = last
    BY <2>1, <2>2, UndoQuiet DEF Calling, CallSteps
  <2>3. ASSUME NEW type \in FileEvents, log' = [log EXCEPT ![d] = WithLeaf(@, type, op.file)]
        PROVE  UndoInv'
    <3>1. log[d] \in Log
      BY SMTT(40), <2>1, <1>b
    <3>2. /\ log'[d].leaves = Append(log[d].leaves, [type |-> type, file |-> op.file])
          /\ log'[d].last = type
      <4>1. log'[d] = WithLeaf(log[d], type, op.file)
        BY <2>1, <2>3, <1>b
      <4>2. type \in Events
        BY DEF Events
      <4> QED BY <3>1, <4>1, <4>2, WithEventType DEF WithLeaf, Log
    <3>3. \A e \in Drives \ {d} : log'[e] = log[e]
      BY <2>3, <1>b
    <3>4. LeavesAtHome'
      <4>1. SUFFICES ASSUME NEW e \in Drives, NEW i \in DOMAIN log'[e].leaves
                     PROVE  /\ log'[e].leaves[i].file \in Files
                            /\ DriveOf[log'[e].leaves[i].file] = e
        BY DEF LeavesAtHome
      <4>2. CASE e = d
        <5>1. log[d].leaves \in Seq(Leaf) /\ [type |-> type, file |-> op.file] \in Leaf
          BY <3>1, <2>1 DEF Log, Leaf
        <5>2. \/ i \in DOMAIN log[d].leaves /\ log'[d].leaves[i] = log[d].leaves[i]
              \/ log'[d].leaves[i] = [type |-> type, file |-> op.file]
          BY <3>2, <4>1, <4>2, <5>1, AppendLeaf
        <5> QED BY SMTT(40), <2>1, <4>2, <5>2 DEF UndoInv, LeavesAtHome
      <4>3. CASE e # d
        BY <3>3, <4>1, <4>3 DEF UndoInv, LeavesAtHome
      <4> QED BY <4>2, <4>3
    <3>5. \A e \in Drives : log'[e].last \in FileEvents \cup {ENone}
      BY SMTT(40), <2>1, <3>2, <3>3 DEF UndoInv, NotBegun, Calling, CallSteps
    <3>6. \A e \in Drives : log'[e].last \notin RedoEvents
      BY <3>5, EventKinds
    <3>7. NotBegun' /\ MemoryAhead'
      <4>1. JournalFiles' \subseteq Drives
        BY DEF JournalFiles
      <4> QED BY <2>1, <3>5, <3>6, <4>1 DEF NotBegun, MemoryAhead
    <3>8. WorkOfStage' /\ TodoLoaded'
      BY <2>1 DEF WorkOfStage, TodoLoaded
    <3> QED BY <3>4, <3>7, <3>8 DEF UndoInv
  <2>4. {EAddedFile, ETempFile, ERemovedFile} \subseteq FileEvents
    BY DEF FileEvents
  <2> QED BY <1>6, <2>2, <2>3, <2>4 DEF WriteEntry
<1>7. CASE RegisterDrive \/ MoveToBackup \/ CreateOver \/ JournallingFails \/ ActFails
  <2>1. /\ log' = log /\ rank' = rank /\ last' = last /\ work' = work /\ todo' = todo
        /\ pc \in CallSteps /\ pc' \in {"idle"} \cup CallSteps /\ client' = client
    BY <1>7 DEF RegisterDrive, MoveToBackup, CreateOver, JournallingFails, ActFails, CallSteps
  <2>2. todo = {} /\ work = {}
    BY <2>1, <1>w DEF UndoInv, TodoLoaded, Walking, CallSteps
  <2> QED BY <2>1, <2>2, UndoQuiet DEF Calling, CallSteps
<1>8. CASE WriteCommitEvent
  <2> DEFINE d == First(todo)
             rest == todo \ {d}
             next == AfterCommit[pc]
  <2>1. pc \in CommitStages /\ work = {} /\ rank' = rank /\ d \in todo /\ d \in Drives
        /\ next \in {"cDelBackup", "cDelTemp", "cDelLog"}
    BY <1>8, <1>t, <1>u DEF WriteCommitEvent, CommitStages, AfterCommit
  <2>2. /\ log' = [log EXCEPT ![d] = WithEvent(@, CommitEvent[pc])]
        /\ last' = [last EXCEPT ![d] = CommitEvent[pc]]
    BY <1>8 DEF WriteCommitEvent, WriteEvent
  <2>3. CommitEvent[pc] \in Events /\ CommitEvent[pc] \notin UndoEvents
    BY <2>1, EventKinds
       DEF CommitStages, CommitEvent, RedoEvents, Events, StageEvents
  <2> HIDE DEF next
  <2>4. \A e \in Drives : log'[e].leaves = log[e].leaves
    BY <2>1, <2>2, <2>3, <1>b, WithEventType
  <2>5. \A e \in Drives \ {d} : log'[e] = log[e] /\ last'[e] = last[e]
    BY <2>2, <1>b
  <2>6. JournalFiles' = JournalFiles
    BY <2>1 DEF JournalFiles
  <2>7. /\ pc' \in {pc, next} /\ pc' \notin RollBackStages
        /\ todo' \subseteq JournalFiles
        /\ \/ work' = {}
           \/ pc' = next /\ todo' = JournalFiles /\ work' = StageWalk(next, JournalFiles)
    <3>1. CASE rest # {}
      <4>1. pc' = pc /\ work' = {} /\ todo' = rest
        BY <1>8, <2>1, <3>1 DEF WriteCommitEvent
      <4> QED BY <1>a, <2>1, <4>1 DEF CommitStages, RollBackStages
    <3>2. CASE rest = {}
      <4>1. pc' = next /\ todo' = JournalFiles /\ work' = StageWalk(next, JournalFiles)
        BY <1>8, <3>2 DEF WriteCommitEvent, next
      <4> QED BY <2>1, <4>1 DEF CommitStages, RollBackStages
    <3> QED BY <3>1, <3>2
  <2>8. pc' \notin {"idle", "off", "cDrop", "delAdded", "restore"} \cup CallSteps
    BY <2>1, <2>7 DEF CommitStages, CallSteps
  <2>9. LeavesAtHome'
    BY <2>4 DEF UndoInv, LeavesAtHome
  <2>10. WorkOfStage'
    <3>1. CASE work' = {}
      BY <3>1 DEF WorkOfStage
    <3>2. CASE pc' = next /\ todo' = JournalFiles /\ work' = StageWalk(next, JournalFiles)
      BY <1>a, <2>4, <2>7, <3>2, WorkBegun
    <3> QED BY <2>7, <3>1, <3>2
  <2>11. MemoryAhead'
    <3>1. last'[d] = CommitEvent[pc]
      BY <2>1, <2>2, <1>b
    <3> QED BY <1>a, <2>3, <2>5, <2>6, <2>8, <3>1 DEF UndoInv, MemoryAhead
  <2>12. TodoLoaded' /\ NotBegun'
    BY <2>6, <2>7, <2>8 DEF TodoLoaded, NotBegun, Calling
  <2> QED BY <2>9, <2>10, <2>11, <2>12 DEF UndoInv
<1>9. CASE DeleteLeaf
  BY <1>9, UndoSame DEF DeleteLeaf, Calling
<1>10. CASE CommitDeleteLog \/ DeleteLog
  <2>1. pc \in {"cDelLog", "delLog"} /\ rank' = rank /\ last' = last /\ work = {} /\ work' = {}
        /\ pc' \in {"cMark", "mark", "next"} /\ todo' \subseteq todo /\ client' = client
    BY <1>10, <1>w DEF CommitDeleteLog, DeleteLog, AbandonDrive, Walking
  <2>2. log' = log \/ log' = [log EXCEPT ![First(todo)] = NoLog]
    BY <1>10 DEF CommitDeleteLog, DeleteLog
  <2>3. \A e \in Drives : /\ log'[e].leaves \in {log[e].leaves, <<>>}
                          /\ log'[e].last \in {log[e].last, ENone}
    <3>1. NoLog.leaves = <<>> /\ NoLog.last = ENone
      BY DEF NoLog
    <3> QED BY <1>b, <2>2, <3>1
  <2>4. JournalFiles' = JournalFiles
    BY <2>1 DEF JournalFiles
  <2>5. LeavesAtHome'
    BY <2>3 DEF UndoInv, LeavesAtHome
  <2>6. MemoryAhead'
    <3>1. ENone \notin RedoEvents
      BY EventKinds
    <3> QED BY <1>a, <2>1, <2>3, <2>4, <3>1 DEF UndoInv, MemoryAhead
  <2>7. WorkOfStage' /\ TodoLoaded' /\ NotBegun'
    BY <1>a, <2>1, <2>4 DEF WorkOfStage, TodoLoaded, NotBegun, Calling, CallSteps
  <2> QED BY <2>5, <2>6, <2>7 DEF UndoInv
<1>11. CASE CommitMark \/ SkipDrive \/ MarkDrive \/ DropDrivesFile
  <2>1. /\ log' = log /\ rank' = rank /\ last' = last /\ work' = work
        /\ pc \in {"cMark", "next", "mark", "drop"}
        /\ pc' \in {"cDrop", "cDelLog", "next", "drop"}
        /\ todo' \subseteq todo /\ (pc' = "cDrop" => todo' = {})
    BY <1>11 DEF CommitMark, SkipDrive, MarkDrive, DropDrivesFile
  <2>2. work' = {}
    BY <1>w, <2>1 DEF Walking
  <2>3. ~Calling'
    BY <2>1 DEF Calling, CallSteps
  <2> QED BY <1>a, <2>1, <2>2, <2>3, UndoQuiet DEF CallSteps
<1>12. CASE CommitDrop \/ EndRollBack \/ Crash
  BY <1>12, UndoForget DEF CommitDrop, EndRollBack, Crash
<1>13. ASSUME LeaveRollBack, log' = log, rec' = rec, pc # "off"
       PROVE  UndoInv'
  <2>1. CASE rec
    <3>1. pc' = "idle" /\ client' = "rollbackFailed" /\ todo' = {} /\ work' = {}
          /\ rank' = rank /\ last' = last
      BY <1>13, <2>1 DEF LeaveRollBack
    <3> QED BY <1>13, <3>1, UndoQuiet DEF Calling
  <2>2. CASE ~rec
    BY <1>13, <2>2, UndoForget DEF LeaveRollBack
  <2> QED BY <2>1, <2>2
<1>14. CASE RollBackDrive
  <2> DEFINE d == First(todo)
             stage == Entry(LastEvent, last[d])
  <2>1. d \in todo /\ d \in JournalFiles /\ d \in Drives /\ pc = "next"
    BY <1>14, <1>t DEF RollBackDrive
  <2>2. stage \in {"corrupt", "delLog", "delAdded", "restore", "delTemp", "delBackup"}
        /\ (stage \in {"delAdded", "restore"} => last[d] \in UndoEvents)
    BY DEF Entry, UndoEvents
  <2>3. CASE stage = "corrupt"
    BY <1>14, <1>13, <2>1, <2>3 DEF RollBackDrive
  <2>4. CASE stage # "corrupt"
    <3>1. /\ pc' = stage /\ work' = StageWalk(stage, {d}) /\ log' = log /\ rank' = rank
          /\ last' = last /\ todo' = todo
      BY <1>14, <2>4 DEF RollBackDrive
    <3> HIDE DEF stage
    <3>2. JournalFiles' = JournalFiles /\ First(todo)' = d
      BY <3>1 DEF JournalFiles, First
    <3>3. WorkOfStage'
      <4>1. StageWalk(pc, {First(todo)})' = StageWalk(stage, {d})
        BY <3>1, <3>2 DEF StageWalk, Walk, LeavesOf
      <4>2. CASE stage \in RollBackStages
        BY <3>1, <4>1, <4>2 DEF WorkOfStage
      <4>3. CASE stage \notin RollBackStages
        <5>1. StageWalk(stage, {d}) = {}
          BY <2>2, <2>4, <4>3 DEF StageWalk, RollBackStages
        <5> QED BY <3>1, <5>1 DEF WorkOfStage
      <4> QED BY <4>2, <4>3
    <3>4. MemoryAhead'
      BY <2>1, <2>2, <3>1, <3>2 DEF UndoInv, MemoryAhead
    <3>5. TodoLoaded' /\ NotBegun' /\ LeavesAtHome'
      BY <1>a, <2>2, <2>4, <3>1, <3>2
         DEF UndoInv, TodoLoaded, NotBegun, LeavesAtHome, Calling, CallSteps
    <3> QED BY <3>3, <3>4, <3>5 DEF UndoInv
  <2> QED BY <2>3, <2>4
<1>15. CASE WriteRollBackEvent
  <2> DEFINE d == First(todo)
             next == AfterRollBack[pc]
             ev == RollBackEvent[pc]
  <2>1. pc \in RollBackStages /\ work = {} /\ rank' = rank /\ todo' = todo /\ pc' = next
        /\ d \in todo /\ d \in JournalFiles /\ d \in Drives /\ work' = StageWalk(next, {d})
    BY <1>15, <1>t, <1>u DEF WriteRollBackEvent
  <2>2. /\ log' = IF rec THEN [log EXCEPT ![d] = WithEvent(@, ev)] ELSE log
        /\ last' = [last EXCEPT ![d] = ev]
    BY <1>15 DEF WriteRollBackEvent, WriteEvent
  <2>3. /\ ev \in Events /\ next \in {"restore", "delTemp", "delLog"}
        /\ next = "restore" => pc = "delAdded"
        /\ ev \in UndoEvents => pc \in {"delAdded", "restore"} /\ ev \notin RedoEvents
    <3>1. {EAddedFilesRemoved, ERemovedFilesRestored} \subseteq UndoEvents
          /\ EBackupFilesRemoved \in RedoEvents
      BY DEF UndoEvents, RedoEvents
    <3> QED BY <2>1, <3>1, EventKinds DEF RollBackStages, RollBackEvent, AfterRollBack
  <2>a. pc = "delAdded" => ev \in UndoEvents
    BY DEF RollBackEvent, UndoEvents
  <2> HIDE DEF next, ev
  <2>4. \A e \in Drives : log'[e].leaves = log[e].leaves
    BY <2>1, <2>2, <2>3, <1>b, WithEventType
  <2>5. \A e \in Drives \ {d} : log'[e] = log[e] /\ last'[e] = last[e]
    BY <2>2, <1>b
  <2>6. JournalFiles' = JournalFiles /\ First(todo)' = d
    BY <2>1 DEF JournalFiles, First
  <2>7. ev \in UndoEvents => log'[d].last \notin RedoEvents
    <3>1. log'[d].last = ev \/ log'[d].last = log[d].last
      BY <2>1, <2>2, <2>3, <1>b, WithEventType
    <3> QED BY <2>3, <3>1 DEF UndoInv, MemoryAhead
  <2>8. MemoryAhead'
    <3>1. last'[d] = ev
      BY <2>1, <2>2, <1>b
    <3> QED BY <1>a, <2>1, <2>3, <2>a, <2>5, <2>6, <2>7, <3>1 DEF UndoInv, MemoryAhead
  <2>9. WorkOfStage'
    <3>1. PICK e \in Drives : e = d
      BY <2>1
    <3>2. work' = StageWalk(next, {e}) /\ e = First(todo)' /\ log'[e].leaves = log[e].leaves
      BY <2>1, <2>4, <2>6, <3>1
    <3>3. CASE next \in RollBackStages
      BY <2>1, <3>2, <3>3, WorkBegun
    <3>4. CASE next \notin RollBackStages
      <4>1. StageWalk(next, {d}) = {}
        BY <2>3, <3>4 DEF StageWalk, RollBackStages
      <4> QED BY <2>1, <4>1 DEF WorkOfStage
    <3> QED BY <3>3, <3>4
  <2>10. LeavesAtHome'
    BY <2>4 DEF UndoInv, LeavesAtHome
  <2>11. TodoLoaded' /\ NotBegun'
    BY <1>a, <2>1, <2>3, <2>6 DEF TodoLoaded, NotBegun, Calling, CallSteps
  <2> QED BY <2>8, <2>9, <2>10, <2>11 DEF UndoInv
<1>16. CASE RestoreLeaf
  <2>1. log' = log /\ rec' = rec /\ pc = "restore"
    BY Zenon, <1>16 DEF RestoreLeaf
  <2>2. CASE LeaveRollBack
    BY <1>13, <2>1, <2>2
  <2>3. CASE AbandonDrive /\ UNCHANGED <<memory, op, client>>
    BY <1>a, <2>1, <2>3, UndoQuiet DEF AbandonDrive, Calling, CallSteps
  <2>4. CASE (\E w : work' = work \ {w}) /\ UNCHANGED <<memory, pc, op, todo, client>>
    <3>1. work' \subseteq work
      BY <2>4
    <3> QED BY <2>1, <2>4, <3>1, UndoSame DEF Calling
  <2> QED BY Zenon, <1>16, <2>2, <2>3, <2>4 DEF RestoreLeaf
<1>17. CASE RollBackFails
  BY <1>17, <1>13 DEF RollBackFails, RollBackStages
<1>18. CASE DropFails
  <2>1. CASE rec
    BY <1>18, <2>1, UndoQuiet DEF DropFails, Calling
  <2>2. CASE ~rec
    BY <1>18, <2>2, UndoForget DEF DropFails
  <2> QED BY <2>1, <2>2
<1>19. CASE CommitFails
  BY <1>19, UndoQuiet DEF CommitFails, Calling
<1>20. CASE CommitDropFails
  <2>1. /\ JournalFiles' = {} /\ todo = {} /\ work = {} /\ todo' = todo /\ work' = work
        /\ log' = log /\ pc' = "idle" /\ client' = "commitFailed"
    BY <1>20, <1>w DEF CommitDropFails, JournalFiles, UndoInv, TodoLoaded, Walking
  <2> QED BY <2>1 DEF UndoInv, LeavesAtHome, WorkOfStage, TodoLoaded, NotBegun, MemoryAhead,
                      Calling
<1>21. CASE Recover
  <2>1. /\ \A d \in Drives : log'[d] = log[d] \/ (log'[d] = EmptyLog /\ rank'[d] = d)
        /\ \A d \in Drives : rank'[d] > 0 => last'[d] = log[d].last
        /\ \A d \in todo' : d \in Drives /\ rank'[d] = d
        /\ pc' = "next" /\ work' = {}
    BY <1>21 DEF Recover
  <2>2. EmptyLog.leaves = <<>> /\ EmptyLog.last = ENone
    BY DEF EmptyLog, NoLog
  <2>3. LeavesAtHome'
    BY <2>1, <2>2 DEF UndoInv, LeavesAtHome
  <2>4. TodoLoaded'
    <3>1. \A d \in Drives : d > 0
      BY DrivesAssumption
    <3> QED BY <2>1, <3>1 DEF TodoLoaded, JournalFiles, CallSteps
  <2>5. MemoryAhead'
    <3>1. \A e \in UndoEvents : e \notin RedoEvents
      BY EventKinds
    <3>2. ENone \notin RedoEvents
      BY EventKinds
    <3> QED BY <2>1, <2>2, <3>1, <3>2 DEF MemoryAhead, JournalFiles
  <2>6. WorkOfStage' /\ NotBegun'
    BY <2>1 DEF WorkOfStage, NotBegun, Calling, CallSteps
  <2> QED BY <2>3, <2>4, <2>5, <2>6 DEF UndoInv
<1>22. CASE UNCHANGED vars
  BY <1>22, UndoSame DEF vars, Calling
<1> QED
  BY <1>1, <1>2, <1>3, <1>4, <1>5, <1>6, <1>7, <1>8, <1>9, <1>10, <1>11, <1>12,
     <1>14, <1>15, <1>16, <1>17, <1>18, <1>19, <1>20, <1>21, <1>22
  DEF Next, ServerStep, Failure

\* A fresh transaction has nothing to undo and nothing committed.
LEMMA UndoInit == Init => UndoInv
<1> SUFFICES ASSUME Init PROVE UndoInv
  OBVIOUS
<1>1. JournalFiles = {} /\ todo = {} /\ work = {} /\ pc = "idle"
  BY DEF Init, JournalFiles
<1>2. \A d \in Drives : log[d].leaves = <<>> /\ log[d].last = ENone
  BY DEF Init, NoLog
<1> QED BY <1>1, <1>2 DEF UndoInv, LeavesAtHome, WorkOfStage, TodoLoaded, NotBegun,
                          MemoryAhead

\* In every reachable state a journal that is being undone, or still may be, is
\* not durably past its commit point.
THEOREM UndoInvariance == Spec => [](IInv /\ UndoInv)
<1>1. IInv /\ UndoInv /\ IInv' /\ [Next]_vars => UndoInv'
  BY UndoStep
<1> QED BY <1>1, IInvInit, UndoInit, IInvStep, PTL DEF Spec

\* Where a walk is: its leaf, the file, and the drive the file lives on.
LEMMA LeafWalked ==
    ASSUME IInv, UndoInv, NEW w \in work
    PROVE  /\ w[1] \in Drives /\ w[2] \in LeavesOf(w[1], StageType(pc)) /\ w = <<w[1], w[2]>>
           /\ log[w[1]].leaves[w[2]].file \in Files
           /\ DriveOf[log[w[1]].leaves[w[2]].file] = w[1]
           /\ pc \in RollBackStages => w[1] = First(todo)
           /\ pc \in Walking
           /\ pc \notin RollBackStages => w[1] \in todo
<1> DEFINE S == IF pc \in RollBackStages THEN {First(todo)} ELSE todo
<1>1. w \in StageWalk(pc, S)
  BY DEF UndoInv, WorkOfStage
<1>2. /\ pc \in Walking /\ w[1] \in S /\ w[2] \in LeavesOf(w[1], StageType(pc))
      /\ w[2] \in DOMAIN log[w[1]].leaves /\ w = <<w[1], w[2]>>
  BY <1>1, StageLeaf
<1>3. w[1] \in Drives
  BY DEF IInv, TypeOK
<1> QED BY <1>2, <1>3 DEF UndoInv, LeavesAtHome

\* What a step may change of a file whose journal has passed its commit point.
LEMMA CommittedKept ==
    ASSUME IInv, UndoInv, Next, NEW f \in Files,
           log[DriveOf[f]].last \in RedoEvents, fs'[f] # fs[f]
    PROVE  Journalled(f, ETempFile)
<1> USE DEF durable, memory, control, bounds
<1>a. DriveOf[f] \in Drives /\ fs \in [Files -> Contents]
  BY FilesAssumption DEF IInv, TypeOK
<1>b. ~Calling
  BY <1>a, EventKinds DEF UndoInv, NotBegun
<1>1. CASE ClientCall
  BY <1>1, <1>b DEF ClientCall, StartCall, RegisterNew, RegisterTemporary, CreateNew,
                    CreateTemporary, Remove, Overwrite, Calling
<1>2. CASE \E g \in Files : ClientWrites(g)
  BY <1>2, <1>b DEF ClientWrites, Calling
<1>3. CASE JournallingFails \/ MoveToBackup \/ CreateOver
  BY <1>3, <1>b DEF JournallingFails, MoveToBackup, CreateOver, IInv, CallOp, CallSteps, Calling
<1>4. CASE DeleteLeaf
  <2> DEFINE w == NextLeaf
  <2>1. /\ pc \in {"cDelTemp", "delAdded", "delTemp"} /\ work # {}
        /\ fs' = [fs EXCEPT ![log[w[1]].leaves[w[2]].file] = "none"]
    BY <1>4 DEF DeleteLeaf, DeletesBackups
  <2>2. w \in work
    BY <2>1, NextLeafIn DEF IInv, TypeOK
  <2>3. f = log[w[1]].leaves[w[2]].file
    BY <1>a, <2>1
  <2>4. CASE pc = "delAdded"
    BY Zenon, <2>2, <2>3, <2>4, LeafWalked DEF UndoInv, MemoryAhead, RollBackStages
  <2>5. CASE pc # "delAdded"
    <3>1. w[2] \in LeavesOf(DriveOf[f], ETempFile) /\ log[DriveOf[f]].leaves[w[2]].file = f
      BY Zenon, <2>1, <2>2, <2>3, <2>5, LeafWalked DEF StageType
    <3> QED BY <3>1 DEF Journalled
  <2> QED BY <2>4, <2>5
<1>5. CASE RestoreLeaf
  <2> DEFINE w == NextLeaf
  <2>1. /\ pc = "restore" /\ work # {}
        /\ fs' = [fs EXCEPT ![log[w[1]].leaves[w[2]].file] = bak[w[1]][w[2]]]
    BY Zenon, <1>5 DEF RestoreLeaf
  <2>2. w \in work
    BY <2>1, NextLeafIn DEF IInv, TypeOK
  <2>3. f = log[w[1]].leaves[w[2]].file
    BY <1>a, <2>1
  <2> QED BY Zenon, <2>1, <2>2, <2>3, LeafWalked DEF UndoInv, MemoryAhead, RollBackStages
<1>6. CASE \/ StartCommit \/ CommitRefused \/ StartRollBack \/ Recover
           \/ \E d \in Drives : Eject(d) \/ Insert(d)
  BY SMTT(40), <1>6 DEF StartCommit, CommitRefused, StartRollBack, Recover, Eject, Insert
<1>7. CASE \/ PrepareToWrite \/ RegisterDrive \/ WriteEntry \/ WriteCommitEvent
           \/ CommitDeleteLog \/ CommitMark \/ CommitDrop \/ SkipDrive \/ RollBackDrive
           \/ WriteRollBackEvent \/ DeleteLog \/ MarkDrive \/ DropDrivesFile \/ EndRollBack
  BY <1>7 DEF PrepareToWrite, RegisterDrive, WriteEntry, WriteCommitEvent,
              CommitDeleteLog, CommitMark, CommitDrop, SkipDrive, RollBackDrive,
              WriteRollBackEvent, DeleteLog, MarkDrive, DropDrivesFile, EndRollBack
<1>8. CASE \/ ActFails \/ CommitFails \/ CommitDropFails \/ RollBackFails \/ DropFails
           \/ Crash
  BY <1>8 DEF ActFails, CommitFails, CommitDropFails, RollBackFails, DropFails, Crash
<1> QED BY <1>1, <1>2, <1>3, <1>4, <1>5, <1>6, <1>7, <1>8 DEF Next, ServerStep, Failure

\* Once the journal of a drive durably holds ECommitted, no crash, fault, ejected
\* card, roll back or recovery changes a file of that drive, but for the
\* temporary files the transaction itself announced: there is no way back.
THEOREM CommittedNeverUndone == Spec => CommittedNotUndone
<1> DEFINE Kept == \A f \in Files : log[DriveOf[f]].last \in RedoEvents /\ fs'[f] # fs[f]
                                       => Journalled(f, ETempFile)
<1>1. IInv /\ UndoInv /\ [Next]_vars => [Kept]_vars
  BY CommittedKept
<1> QED BY <1>1, UndoInvariance, PTL DEF Spec, CommittedNotUndone

-------------------------------------------------------------------------------
(***************************************************************************)
(* Without I/O errors, recovery finds every journal                          *)
(***************************************************************************)

\* A step that leaves the mentions, the drives and the leaves alone.
LEMMA ListQuiet ==
    ASSUME Listing, drv' = drv, rank' = rank, all' = all, done' = done,
           \A d \in Drives : log'[d].leaves = log[d].leaves,
           all \subseteq Drives, pc \notin {"off", "register"}, Calling' => Calling,
           pc' \notin {"journal", "register", "mark", "cMark", "drop"}
    PROVE  Listing'
<1>1. JournalFiles' = JournalFiles
  BY DEF JournalFiles
<1>2. JournalListed'
  BY DEF Listing, JournalListed
<1>3. AllListed'
  BY <1>1 DEF Listing, AllListed, Opening
<1>4. DoneEmptied'
  BY DEF Listing, DoneEmptied
<1> QED BY <1>2, <1>3, <1>4 DEF Listing

\* The server has no transaction in memory.
LEMMA ListOff ==
    ASSUME pc' = "off", JournalListed'
    PROVE  Listing'
BY DEF Listing, AllListed, DoneEmptied, Calling, CallSteps

\* A mention changes nothing for the other drives.
LEMMA MentionedOne ==
    ASSUME drv \in [Drives -> 0 .. 2], NEW d \in Drives
    PROVE  /\ Mentioned(d)[d] > 0 /\ (drv[d] = 0 => Mentioned(d)[d] = 1)
           /\ \A e \in Drives \ {d} : Mentioned(d)[e] = drv[e]
BY DEF Mentioned

\* Every step without an I/O error keeps the .drv file in step.
LEMMA ListStep ==
    ASSUME IInv, UndoInv, ListInv, [Next]_vars
    PROVE  ListInv'
<1> SUFFICES ASSUME faults' = 0 PROVE Listing'
  BY DEF ListInv
<1> USE DEF durable, memory, control, bounds
<1>f. ~Fault
  BY DEF Fault, IInv, TypeOK
<1>a. /\ log \in [Drives -> Log] /\ rank \in [Drives -> Nat] /\ last \in [Drives -> Events]
      /\ drv \in [Drives -> 0 .. 2] /\ all \subseteq Drives /\ done \subseteq Drives
      /\ JournalFiles \subseteq Drives
  BY DEF IInv, TypeOK, JournalFiles
<1>t. todo # {} => First(todo) \in todo /\ First(todo) \in JournalFiles /\ First(todo) \in Drives
  BY FirstLoaded
<1>u. pc \in RollBackStages \cup FinishSteps \cup CommitStages \cup {"cDelLog", "cMark"}
         => todo # {}
  BY DEF IInv, DriveToDo
<1>v. pc \in CallSteps => op.file \in Files /\ client = "open" /\ DriveOf[op.file] \in Drives
  BY FilesAssumption DEF IInv, CallOp
<1>l. faults = 0 => Listing
  BY DEF ListInv
<1>n. NoLog.leaves = <<>> /\ EmptyLog.leaves = <<>>
  BY NoLogType
<1>1. CASE ClientCall
  BY <1>1, <1>a, <1>l, ListQuiet DEF ClientCall, StartCall, RegisterNew, RegisterTemporary,
                        CreateNew, CreateTemporary, Remove, Overwrite, Calling
<1>2. CASE \E f \in Files : ClientWrites(f)
  BY <1>2, <1>a, <1>l, ListQuiet DEF ClientWrites, Calling
<1>3. CASE StartCommit \/ CommitRefused \/ StartRollBack
  BY <1>3, <1>a, <1>l, ListQuiet DEF StartCommit, CommitRefused, StartRollBack, Calling, CallSteps
<1>4. CASE PrepareToWrite
  <2> DEFINE d == DriveOf[op.file]
  <2>1. pc = "prepare" /\ Listing /\ Calling /\ client' = client /\ op' = op /\ drv' = drv
        /\ all' = all /\ done' = done /\ d \in Drives
    BY <1>4, <1>l, <1>v DEF PrepareToWrite, Calling, CallSteps
  <2>2. CASE rank[d] # 0
    <3>1. pc' = "journal" /\ rank' = rank /\ log' = log
      BY <1>4, <2>2 DEF PrepareToWrite
    <3>2. d \in JournalFiles
      BY <1>a, <2>1, <2>2 DEF JournalFiles
    <3>3. JournalFiles' = JournalFiles
      BY <3>1 DEF JournalFiles
    <3>4. AllListed'
      BY <2>1, <3>1, <3>2, <3>3 DEF Listing, AllListed, Opening, Calling, CallSteps
    <3>5. JournalListed' /\ DoneEmptied'
      BY <2>1, <3>1 DEF Listing, JournalListed, DoneEmptied
    <3> QED BY <3>4, <3>5 DEF Listing
  <2>3. CASE rank[d] = 0
    <3>1. /\ pc' = "register" /\ log' = [log EXCEPT ![d] = EmptyLog]
          /\ rank' = [rank EXCEPT ![d] = Cardinality(JournalFiles) + 1]
      BY <1>4, <2>3 DEF PrepareToWrite
    <3>2. \A e \in Drives : log'[e].leaves \in {log[e].leaves, <<>>}
      BY <1>a, <1>n, <3>1
    <3>3. \A e \in Drives \ {d} : rank'[e] = rank[e]
      BY <1>a, <3>1
    <3>4. drv[d] = 0 /\ done = {}
      BY <2>1, <2>3 DEF Listing, AllListed
    <3>5. AllListed'
      <4>1. \A e \in Drives : Opening(e)' <=> e = d
        BY <2>1, <3>1 DEF Opening
      <4>2. \A e \in Drives : ~Opening(e)
        BY <2>1 DEF Opening
      <4>3. \A e \in Drives \ {d} : e \in JournalFiles' <=> e \in JournalFiles
        BY <3>3 DEF JournalFiles
      <4> QED BY <2>1, <3>1, <3>3, <3>4, <4>1, <4>2, <4>3
              DEF Listing, AllListed, JournalFiles
    <3>6. JournalListed' /\ DoneEmptied'
      BY <2>1, <3>1, <3>2, <3>4 DEF Listing, JournalListed, DoneEmptied
    <3> QED BY <3>5, <3>6 DEF Listing
  <2> QED BY <2>2, <2>3
<1>5. CASE RegisterDrive
  <2> DEFINE d == DriveOf[op.file]
  <2>1. /\ pc = "register" /\ pc' = "journal" /\ Listing /\ Calling /\ client' = client /\ op' = op
        /\ drv' = Mentioned(d) /\ all' = all \cup {d} /\ done' = done /\ log' = log /\ rank' = rank
        /\ d \in Drives
    BY <1>5, <1>l, <1>v DEF RegisterDrive, Calling, CallSteps
  <2>2. d \in JournalFiles
    BY <2>1 DEF IInv, CommitInv, DrivesKnown
  <2>3. JournalFiles' = JournalFiles
    BY <2>1 DEF JournalFiles
  <2>4. Opening(d) /\ drv[d] = 0 /\ done = {}
    BY <2>1 DEF Listing, AllListed, Opening
  <2>5. drv'[d] = 1 /\ \A e \in Drives \ {d} : drv'[e] = drv[e]
    BY <1>a, <2>1, <2>4, MentionedOne
  <2>6. AllListed'
    <3>1. \A e \in Drives : ~Opening(e)' /\ (Opening(e) <=> e = d)
      BY <2>1 DEF Opening
    <3>2. rank[d] # 0
      BY <2>2 DEF JournalFiles
    <3> QED BY <1>a, <2>1, <2>2, <2>3, <2>4, <2>5, <3>1, <3>2 DEF Listing, AllListed
  <2>7. JournalListed' /\ DoneEmptied'
    <3>1. log[d].leaves = <<>>
      BY <2>1, <2>4 DEF Listing, JournalListed
    <3> QED BY <2>1, <2>4, <2>5, <3>1 DEF Listing, JournalListed, DoneEmptied
  <2> QED BY <2>6, <2>7 DEF Listing
<1>6. CASE WriteEntry
  <2> DEFINE d == DriveOf[op.file]
  <2>1. /\ pc = "journal" /\ pc' \in {"idle", "act"} /\ Listing /\ Calling /\ client' = client
        /\ drv' = drv /\ all' = all /\ done' = done /\ rank' = rank /\ d \in Drives
        /\ \A e \in Drives \ {d} : log'[e] = log[e]
    BY <1>6, <1>a, <1>l, <1>v DEF WriteEntry, Calling, CallSteps
  <2>2. JournalFiles' = JournalFiles /\ d \in JournalFiles /\ done = {}
    BY <2>1 DEF JournalFiles, Listing, AllListed
  <2>3. \A e \in Drives : ~Opening(e)' /\ ~Opening(e)
    BY <2>1 DEF Opening
  <2>4. drv[d] = 1
    BY <2>1, <2>2, <2>3 DEF Listing, AllListed, JournalFiles
  <2>5. AllListed'
    <3>1. \A e \in Drives : drv'[e] = IF rank'[e] = 0 \/ Opening(e)' THEN 0 ELSE 1
      BY <2>1, <2>3 DEF Listing, AllListed
    <3>2. /\ \A e \in Drives : drv'[e] > 0 => e \in all'
          /\ \A e \in JournalFiles' : e \in all' \/ Opening(e)'
      BY <1>a, <2>1, <2>2, <2>3 DEF Listing, AllListed
    <3> QED BY <2>1, <2>2, <3>1, <3>2 DEF AllListed
  <2>6. JournalListed' /\ DoneEmptied'
    BY <2>1, <2>2, <2>4 DEF Listing, JournalListed, DoneEmptied
  <2> QED BY <2>5, <2>6 DEF Listing
<1>7. CASE MoveToBackup \/ CreateOver
  BY <1>7, <1>a, <1>l, <1>v, ListQuiet DEF MoveToBackup, CreateOver, Calling, CallSteps
<1>8. CASE WriteCommitEvent
  <2>1. CommitEvent[pc] \in Events
    BY <1>8 DEF WriteCommitEvent, CommitStages, CommitEvent, Events, StageEvents
  <2>2. \A d \in Drives : log'[d].leaves = log[d].leaves
    BY <1>8, <1>a, <2>1, WithEventType DEF WriteCommitEvent, WriteEvent
  <2>3. pc \in CommitStages /\ pc' \in CommitStages \cup {"cDelLog"}
    BY <1>8 DEF WriteCommitEvent, CommitStages, AfterCommit
  <2> QED BY <1>8, <1>a, <1>l, <2>2, <2>3, ListQuiet
          DEF WriteCommitEvent, CommitStages, Calling, CallSteps
<1>9. CASE WriteRollBackEvent
  <2>1. RollBackEvent[pc] \in Events
    BY <1>9 DEF WriteRollBackEvent, RollBackStages, RollBackEvent, Events, StageEvents
  <2>2. \A d \in Drives : log'[d].leaves = log[d].leaves
    BY <1>9, <1>a, <2>1, WithEventType DEF WriteRollBackEvent, WriteEvent
  <2>3. pc \in RollBackStages /\ pc' \in RollBackStages \cup {"delLog"}
    BY <1>9 DEF WriteRollBackEvent, RollBackStages, AfterRollBack
  <2> QED BY <1>9, <1>a, <1>l, <2>2, <2>3, ListQuiet
          DEF WriteRollBackEvent, RollBackStages, Calling, CallSteps
<1>10. CASE DeleteLeaf \/ SkipDrive
  BY <1>10, <1>a, <1>l, ListQuiet DEF DeleteLeaf, SkipDrive, Calling, CallSteps
<1>11. CASE CommitDeleteLog \/ (DeleteLog /\ log[First(todo)].exists)
  <2> DEFINE d == First(todo)
  <2>1. /\ pc \in {"cDelLog", "delLog"} /\ pc' \in {"cMark", "mark"} /\ Listing
        /\ drv' = drv /\ all' = all /\ done' = done /\ rank' = rank /\ d \in Drives
        /\ log' = [log EXCEPT ![d] = NoLog] /\ todo' = todo
    BY <1>11, <1>l, <1>t, <1>u DEF CommitDeleteLog, DeleteLog, FinishSteps
  <2>2. JournalFiles' = JournalFiles /\ First(todo)' = d
    BY <2>1 DEF JournalFiles, First
  <2>3. log'[d].leaves = <<>> /\ \A e \in Drives : log'[e].leaves \in {log[e].leaves, <<>>}
    BY <1>a, <1>n, <2>1
  <2>4. AllListed'
    BY <2>1, <2>2 DEF Listing, AllListed, Opening, Calling, CallSteps
  <2>5. JournalListed' /\ DoneEmptied'
    BY <1>a, <2>1, <2>2, <2>3 DEF Listing, JournalListed, DoneEmptied
  <2> QED BY <2>4, <2>5 DEF Listing
<1>12. CASE DeleteLog /\ ~log[First(todo)].exists
  BY <1>12, <1>a, <1>l, ListQuiet DEF DeleteLog, AbandonDrive, Calling, CallSteps
<1>13. CASE CommitMark \/ MarkDrive
  <2> DEFINE d == First(todo)
  <2>1. /\ pc \in {"cMark", "mark"} /\ pc' \in {"cDrop", "cDelLog", "drop", "next"} /\ Listing
        /\ drv' \in {drv, Mentioned(d)} /\ all' = all /\ done' = done \cup {d} /\ rank' = rank
        /\ log' = log /\ d \in Drives /\ d \in JournalFiles
        /\ pc' = "drop" => Cardinality(done') = Cardinality(all)
    BY <1>13, <1>l, <1>t, <1>u DEF CommitMark, MarkDrive, FinishSteps
  <2>2. JournalFiles' = JournalFiles /\ d \in all
    BY <2>1 DEF JournalFiles, Listing, AllListed, Opening
  <2>3. log[d].leaves = <<>>
    BY <2>1 DEF Listing, DoneEmptied
  <2>4. \A e \in Drives \ {d} : drv'[e] = drv[e]
    BY <1>a, <2>1, MentionedOne
  <2>5. AllListed'
    BY <2>1, <2>2, <2>4 DEF Listing, AllListed, Opening, Calling, CallSteps
  <2>6. JournalListed'
    BY <2>1, <2>3, <2>4 DEF Listing, JournalListed
  <2>7. DoneEmptied'
    <3>1. done' \subseteq all
      BY <2>1, <2>2 DEF Listing, DoneEmptied
    <3>2. pc' = "drop" => done' = all
      BY <1>a, <2>1, <3>1, SameSet
    <3> QED BY <2>1, <2>3, <3>1, <3>2 DEF Listing, DoneEmptied
  <2> QED BY <2>5, <2>6, <2>7 DEF Listing
<1>14. ASSUME Listing, pc # "off", done = all, drv' = [d \in Drives |-> 0], log' = log
       PROVE  JournalListed'
  <2>1. \A d \in Drives : log[d].leaves = <<>>
    <3> SUFFICES ASSUME NEW d \in Drives, log[d].leaves # <<>> PROVE FALSE
      OBVIOUS
    <3>1. drv[d] = 1
      BY <1>14 DEF Listing, JournalListed
    <3>2. d \in done
      BY <1>14, <3>1 DEF Listing, AllListed
    <3> QED BY <1>14, <3>2 DEF Listing, DoneEmptied
  <2> QED BY <1>14, <2>1 DEF JournalListed
<1>15. CASE CommitDrop
  <2>1. Listing /\ pc = "cDrop" /\ pc' = "off" /\ log' = log
    BY <1>15, <1>l DEF CommitDrop
  <2>2. done \subseteq all
    BY <2>1 DEF Listing, DoneEmptied
  <2>3. CASE Cardinality(all) = Cardinality(done)
    <3>1. done = all
      BY <1>a, <2>2, <2>3, SameSet
    <3>2. drv' = [d \in Drives |-> 0]
      BY <1>15, <2>3 DEF CommitDrop
    <3> QED BY <1>14, <2>1, <3>1, <3>2, ListOff
  <2>4. CASE Cardinality(all) # Cardinality(done)
    <3>1. drv' = drv
      BY <1>15, <2>4 DEF CommitDrop
    <3> QED BY <2>1, <3>1, ListOff DEF Listing, JournalListed
  <2> QED BY <2>3, <2>4
<1>16. CASE DropDrivesFile
  <2>1. /\ Listing /\ pc = "drop" /\ pc' = "next" /\ log' = log /\ rank' = rank /\ all' = all
        /\ drv' = [d \in Drives |-> 0] /\ done' = {}
    BY <1>16, <1>l DEF DropDrivesFile
  <2>2. JournalListed'
    BY <1>14, <2>1 DEF Listing, DoneEmptied
  <2>3. JournalFiles' = JournalFiles
    BY <2>1 DEF JournalFiles
  <2>4. AllListed' /\ DoneEmptied'
    BY <2>1, <2>3 DEF Listing, AllListed, DoneEmptied, Opening, Calling, CallSteps
  <2> QED BY <2>2, <2>4 DEF Listing
<1>17. CASE EndRollBack \/ Crash
  BY <1>17, <1>l, ListOff DEF EndRollBack, Crash, Listing, JournalListed
<1>18. ASSUME Listing, LeaveRollBack, drv' = drv, log' = log, pc \in {"next", "restore"}
       PROVE  Listing'
  <2>1. CASE rec
    BY <1>18, <1>a, <2>1, ListQuiet DEF LeaveRollBack, Calling
  <2>2. CASE ~rec
    BY <1>18, <2>2, ListOff DEF LeaveRollBack, Listing, JournalListed
  <2> QED BY <2>1, <2>2
<1>19. CASE RollBackDrive
  <2>1. Entry(LastEvent, last[First(todo)])
           \in {"corrupt", "delLog", "delAdded", "restore", "delTemp", "delBackup"}
    BY DEF Entry
  <2>2. CASE LeaveRollBack
    BY <1>19, <1>18, <1>l, <2>2 DEF RollBackDrive
  <2>3. CASE ~LeaveRollBack
    <3>1. pc' \in {"delLog", "delAdded", "restore", "delTemp", "delBackup"} /\ pc = "next"
          /\ UNCHANGED <<memory, drv, log, faults>>
      BY <1>19, <2>1, <2>3 DEF RollBackDrive
    <3> QED BY <1>a, <1>l, <3>1, ListQuiet DEF Calling, CallSteps
  <2> QED BY <2>2, <2>3
<1>20. CASE RestoreLeaf
  <2>1. log' = log /\ drv' = drv /\ pc = "restore" /\ Listing
    BY Zenon, <1>20, <1>l DEF RestoreLeaf
  <2>2. CASE LeaveRollBack
    BY <1>18, <2>1, <2>2
  <2>3. CASE UNCHANGED memory /\ pc' \in {"restore", "next"}
    BY <1>a, <2>1, <2>3, ListQuiet DEF Calling, CallSteps
  <2> QED BY Zenon, <1>20, <2>2, <2>3 DEF RestoreLeaf, AbandonDrive
<1>21. CASE Recover
  <2>1. /\ faults = 0 /\ pc' = "next" /\ drv' = drv
        /\ all' = {d \in Drives : drv[d] >= 1} /\ done' = {d \in Drives : drv[d] = 2}
        /\ \A d \in Drives : log'[d].leaves \in {log[d].leaves, <<>>}
        /\ \A d \in Drives : rank'[d] > 0 => drv[d] = 1
    BY <1>21, <1>a, <1>n DEF Recover
  <2>2. JournalListed
    BY <1>l, <2>1 DEF Listing
  <2>3. JournalListed'
    BY <2>1, <2>2 DEF JournalListed
  <2>4. AllListed'
    BY <1>a, <2>1 DEF AllListed, JournalFiles, Calling, CallSteps
  <2>5. DoneEmptied'
    BY <1>a, <2>1, <2>3 DEF DoneEmptied, JournalListed
  <2> QED BY <2>3, <2>4, <2>5 DEF Listing
<1>22. CASE (\E d \in Drives : Eject(d) \/ Insert(d)) \/ UNCHANGED vars
  <2>1. UNCHANGED <<log, drv, rank, all, done, pc, op, client, todo, faults>>
    BY <1>22 DEF Eject, Insert, vars
  <2>2. JournalFiles' = JournalFiles /\ First(todo)' = First(todo)
    BY <2>1 DEF JournalFiles, First
  <2> QED BY <1>l, <2>1, <2>2 DEF Listing, JournalListed, AllListed, DoneEmptied, Opening, Calling
<1>23. CASE \/ JournallingFails \/ ActFails \/ CommitFails \/ CommitDropFails
            \/ RollBackFails \/ DropFails
  BY <1>23, <1>f DEF JournallingFails, ActFails, CommitFails, CommitDropFails,
                     RollBackFails, DropFails
<1> QED
  BY <1>1, <1>2, <1>3, <1>4, <1>5, <1>6, <1>7, <1>8, <1>9, <1>10, <1>11, <1>12,
     <1>13, <1>15, <1>16, <1>17, <1>19, <1>20, <1>21, <1>22, <1>23
  DEF Next, ServerStep, Failure

\* A fresh transaction has neither journals nor mentions.
LEMMA ListInit == Init => ListInv
BY NoLogType DEF Init, ListInv, Listing, JournalListed, AllListed, DoneEmptied, Opening,
                 JournalFiles, NoLog

\* As long as no I/O error occurred, whatever crashed or was ejected: a journal
\* with entries is mentioned in the .drv file exactly once, so that the recovery
\* finds it (GetListOfTransactionsL, InitJournalsL) and does not take it for done.
THEOREM EveryJournalListed == Spec => [](faults = 0 => JournalListed)
<1>1. ListInv => (faults = 0 => JournalListed)
  BY DEF ListInv, Listing
<1> QED BY <1>1, ListInit, ListStep, UndoInvariance, PTL DEF Spec

-------------------------------------------------------------------------------
(***************************************************************************)
(* Without I/O errors, every journal can be read again                       *)
(***************************************************************************)

\* LastEventL() returns the last event of an open journal, the highest one.
LEMMA LastEventIs ==
    ASSUME last \in [Drives -> Events]
    PROVE  /\ LastEvent = ENone \/ \E d \in JournalFiles \ done : LastEvent = last[d]
           /\ \A d \in JournalFiles \ done : last[d] <= LastEvent
<1> DEFINE open == {last[d] : d \in JournalFiles \ done} \cup {ENone}
<1>1. open \subseteq 0 .. 9 /\ open # {} /\ 9 \in Nat
  <2>1. Events \subseteq 0 .. 9
    BY DEF Events, FileEvents, StageEvents, ENone, ERemovedFile, ETempFile, EAddedFile,
           ECommitted, EBackupFilesRemoved, EAddedFilesRemoved, ERemovedFilesRestored,
           ETempFilesRemoved
  <2> QED BY <2>1 DEF JournalFiles, Events
<1>2. \E e \in open : \A x \in open : x <= e
  <2> HIDE DEF open
  <2>1. PICK e \in open : \A x \in open : e >= x
    BY <1>1, GreatestNatural
  <2>2. open \subseteq Nat
    BY <1>1
  <2> QED BY <2>1, <2>2
<1>3. LastEvent \in open /\ \A x \in open : x <= LastEvent
  BY <1>2 DEF LastEvent
<1> QED BY <1>3

\* What RollBackDriveL has found when it enters at a stage.
LEMMA EntryMeans ==
    ASSUME NEW outer, NEW inner
    PROVE  LET stage == Entry(outer, inner) IN
           /\ stage = "delBackup" => outer \in RedoEvents
           /\ stage = "delAdded" => inner \in FileEvents
           /\ stage = "restore" => inner = EAddedFilesRemoved
           /\ stage = "delTemp" => inner = ERemovedFilesRestored \/ outer \in RedoEvents
           /\ stage \notin {"delLog", "corrupt"} => inner \notin {ENone, ETempFilesRemoved}
           /\ stage = "delLog" => inner \in {ENone, ETempFilesRemoved}
                                  \/ outer \in {ENone, ETempFilesRemoved}
<1> DEFINE over == inner \in {ETempFilesRemoved, ENone} \/ outer \in {ETempFilesRemoved, ENone}
<1>1. CASE over
  <2>1. Entry(outer, inner) = "delLog"
    BY <1>1, EventKinds DEF Entry
  <2> QED BY <1>1, <2>1
<1>2. CASE ~over
  BY <1>2 DEF Entry
<1> QED BY <1>1, <1>2

\* Where a client's transaction was neither committed nor rolled back, nothing is
\* finished.
LEMMA FreshRoll ==
    ASSUME Fresh', MemoryTrue', FreshLogs', done' = {}
    PROVE  CommitLasts' /\ RollLasts' /\ StageLasts'
<1>1. client' \in Live /\ pc' \notin CommitStages \cup RollBackStages \cup FinishSteps
  BY DEF Fresh, Live, CallSteps, CommitStages, RollBackStages, FinishSteps
<1>2. \A d \in JournalFiles' : log'[d].exists /\ last'[d] \in FileEvents \cup {ENone}
  BY <1>1 DEF MemoryTrue, FreshLogs
<1>3. \A e \in FileEvents \cup {ENone} : e \notin RedoEvents /\ e # ETempFilesRemoved
  BY EventKinds
<1>4. RollLasts'
  BY <1>2, <1>3 DEF RollLasts, Untouched, Finished
<1> QED BY <1>1, <1>4 DEF CommitLasts, StageLasts, CommitStages

\* Nothing is written for a client that is gone.
LEMMA ReadDead ==
    ASSUME JournalReadable', client' \notin Live, pc' \notin CommitStages
    PROVE  Reading'
BY DEF Reading, MemoryTrue, FreshLogs, Fresh, CommitLasts, RollLasts, StageLasts, Live,
       CommitStages

\* A step of the server that begins no stage and leaves the journals alone.
LEMMA ReadQuiet ==
    ASSUME Reading, log' = log, last' = last, rank' = rank, done' = done,
           client' \in Live => client \in Live, ~Committing, pc \notin {"mark", "delLog"},
           Fresh' => Fresh /\ pc \notin {"register", "journal"},
           pc' \notin CommitStages \cup RollBackStages \cup FinishSteps
    PROVE  Reading'
<1>1. JournalFiles' = JournalFiles
  BY DEF JournalFiles
<1>2. JournalReadable' /\ MemoryTrue' /\ FreshLogs'
  BY <1>1 DEF Reading, JournalReadable, MemoryTrue, FreshLogs
<1>3. CommitLasts' /\ StageLasts'
  BY DEF CommitLasts, StageLasts, CommitStages
<1>4. \A d : ~BeingFinished(d)
  BY DEF BeingFinished
<1>5. RollLasts'
  BY <1>1, <1>4 DEF Reading, RollLasts, Finished, Untouched
<1> QED BY <1>2, <1>3, <1>5 DEF Reading

\* A step within a stage, or of the medium.
LEMMA ReadSame ==
    ASSUME Reading, UNCHANGED <<log, last, rank, done, client, pc, todo, op>>
    PROVE  Reading'
<1>1. JournalFiles' = JournalFiles /\ First(todo)' = First(todo)
  BY DEF JournalFiles, First
<1> QED BY <1>1 DEF Reading, JournalReadable, MemoryTrue, FreshLogs, Fresh, CommitLasts,
                    RollLasts, StageLasts, Committing, Finished, BeingFinished, Untouched

\* What a stage of a roll back, or of a commit, writes may follow what is there.
LEMMA EventReadable ==
    ASSUME NEW j \in Log, j.ok, NEW ev \in Events, Readable(j.last, ev)
    PROVE  /\ WithEvent(j, ev).ok /\ WithEvent(j, ev).last = ev
           /\ WithEvent(j, ev).leaves = j.leaves /\ WithEvent(j, ev).exists = j.exists
BY DEF WithEvent, Log

\* Every step without an I/O error keeps the journals readable.
LEMMA ReadStep ==
    ASSUME IInv, UndoInv, ListInv, ReadInv, [Next]_vars
    PROVE  ReadInv'
<1> SUFFICES ASSUME faults' = 0 PROVE Reading'
  BY DEF ReadInv
<1> USE DEF durable, memory, control, bounds
<1>f. ~Fault
  BY DEF Fault, IInv, TypeOK
<1>a. /\ log \in [Drives -> Log] /\ rank \in [Drives -> Nat] /\ last \in [Drives -> Events]
      /\ all \subseteq Drives /\ done \subseteq Drives /\ JournalFiles \subseteq Drives
  BY DEF IInv, TypeOK, JournalFiles
<1>t. todo # {} => First(todo) \in todo /\ First(todo) \in JournalFiles /\ First(todo) \in Drives
  BY FirstLoaded
<1>u. pc \in RollBackStages \cup FinishSteps \cup CommitStages \cup {"cDelLog", "cMark"}
         => todo # {}
  BY DEF IInv, DriveToDo
<1>v. pc \in CallSteps => op.file \in Files /\ client = "open" /\ DriveOf[op.file] \in Drives
  BY FilesAssumption DEF IInv, CallOp
<1>l. faults = 0 => Listing /\ Reading
  BY DEF ListInv, ReadInv
<1>n. NoLog.leaves = <<>> /\ EmptyLog.leaves = <<>> /\ NoLog.last = ENone /\ EmptyLog.last = ENone
      /\ NoLog.ok /\ EmptyLog.ok /\ ~NoLog.exists /\ EmptyLog.exists
  BY DEF NoLog, EmptyLog
<1> DEFINE Begun == pc' \in CommitStages \cup RollBackStages \cup FinishSteps
<1>1. CASE ClientCall
  <2>1. /\ faults = 0 /\ UNCHANGED <<log, last, rank, done, client>> /\ pc = "idle" /\ pc' = "prepare"
        /\ client = "open"
    BY <1>1 DEF ClientCall, StartCall, RegisterNew, RegisterTemporary, CreateNew,
                CreateTemporary, Remove, Overwrite
  <2> QED BY <1>l, <2>1, ReadQuiet DEF Fresh, Committing, CommitStages, CommitFinish,
                                       RollBackStages, FinishSteps
<1>2. CASE (\E f \in Files : ClientWrites(f)) \/ (\E d \in Drives : Eject(d) \/ Insert(d))
           \/ UNCHANGED vars
  BY <1>2, <1>l, ReadSame DEF ClientWrites, Eject, Insert, vars
<1>3. CASE CommitRefused \/ StartRollBack
  <2>1. /\ faults = 0 /\ UNCHANGED <<log, last, rank, done>> /\ pc = "idle" /\ pc' \in {"idle", "next"}
        /\ client \in Live /\ (pc' = "idle" => Fresh)
    BY <1>3 DEF CommitRefused, StartRollBack, MayCommit, Live, Fresh
  <2> QED BY <1>l, <2>1, ReadQuiet DEF Fresh, Committing, CommitStages, CommitFinish,
                                       RollBackStages, FinishSteps, CallSteps
<1>4. CASE MoveToBackup \/ CreateOver
  <2>1. /\ faults = 0 /\ UNCHANGED <<log, last, rank, done, client>> /\ pc \in {"act", "create"}
        /\ pc' \in {"idle", "create", "prepare"} /\ client = "open"
    BY <1>4, <1>v DEF MoveToBackup, CreateOver, CallSteps
  <2> QED BY <1>l, <2>1, ReadQuiet DEF Fresh, Committing, CommitStages, CommitFinish,
                                       RollBackStages, FinishSteps, CallSteps
<1>5. CASE PrepareToWrite
  <2> DEFINE d == DriveOf[op.file]
  <2>1. /\ pc = "prepare" /\ Reading /\ Fresh /\ client = "open" /\ client' = client
        /\ op' = op /\ done' = done /\ d \in Drives /\ Calling /\ Listing
    BY <1>5, <1>l, <1>v DEF PrepareToWrite, Fresh, Calling, CallSteps
  <2>2. CASE rank[d] # 0
    BY <1>5, <2>1, <2>2, ReadQuiet
       DEF PrepareToWrite, Fresh, Committing, CommitStages, CommitFinish,
           RollBackStages, FinishSteps
  <2>3. CASE rank[d] = 0
    <3>1. /\ pc' = "register" /\ log' = [log EXCEPT ![d] = EmptyLog]
          /\ rank' = [rank EXCEPT ![d] = Cardinality(JournalFiles) + 1]
          /\ last' = [last EXCEPT ![d] = ENone]
      BY <1>5, <2>3 DEF PrepareToWrite
    <3>2. log'[d] = EmptyLog /\ last'[d] = ENone
      BY <1>a, <2>1, <3>1
    <3>3. \A e \in Drives \ {d} : rank'[e] = rank[e] /\ log'[e] = log[e] /\ last'[e] = last[e]
      BY <1>a, <3>1
    <3>4. \A e \in JournalFiles' \ {d} : e \in JournalFiles /\ e \in Drives \ {d}
      BY <3>3 DEF JournalFiles
    <3>5. JournalReadable'
      <4>1. \A e \in Drives : log[e].ok
        BY <2>1 DEF Reading, JournalReadable
      <4> QED BY <1>n, <3>2, <3>3, <4>1 DEF JournalReadable
    <3>6. MemoryTrue'
      <4>1. \A e \in JournalFiles : log[e].exists => last[e] = log[e].last
        BY <2>1 DEF Reading, MemoryTrue, Live
      <4> QED BY <1>n, <3>2, <3>3, <3>4, <4>1 DEF MemoryTrue
    <3>7. FreshLogs'
      <4>1. \A e \in JournalFiles : log[e].exists /\ log[e].last \in FileEvents
        BY <2>1 DEF Reading, FreshLogs
      <4> QED BY <1>n, <2>1, <3>1, <3>2, <3>3, <3>4, <4>1 DEF FreshLogs
    <3>8. Fresh' /\ done' = {}
      BY <2>1, <3>1 DEF Fresh, CallSteps, Listing, AllListed
    <3> QED BY <3>5, <3>6, <3>7, <3>8, FreshRoll DEF Reading
  <2> QED BY <2>2, <2>3
<1>6. CASE RegisterDrive
  <2>1. /\ pc = "register" /\ pc' = "journal" /\ Reading /\ Fresh /\ client = "open"
        /\ UNCHANGED <<log, last, rank, client, op, done>> /\ Calling /\ Listing
    BY <1>6, <1>l, <1>v DEF RegisterDrive, Fresh, Calling, CallSteps
  <2>2. JournalFiles' = JournalFiles /\ Fresh' /\ done' = {}
    BY <2>1 DEF JournalFiles, Fresh, CallSteps, Listing, AllListed
  <2>3. JournalReadable' /\ MemoryTrue' /\ FreshLogs'
    BY SMTT(40), <2>1, <2>2 DEF Reading, JournalReadable, MemoryTrue, FreshLogs
  <2> QED BY <2>2, <2>3, FreshRoll DEF Reading
<1>7. CASE WriteEntry
  <2> DEFINE d == DriveOf[op.file]
  <2>1. /\ pc = "journal" /\ pc' \in {"idle", "act"} /\ Reading /\ Fresh /\ client = "open"
        /\ UNCHANGED <<rank, client, done>> /\ Calling /\ Listing /\ d \in Drives
        /\ op.file \in Files
    BY <1>7, <1>l, <1>v DEF WriteEntry, Fresh, Calling, CallSteps
  <2>2. JournalFiles' = JournalFiles /\ Fresh' /\ done' = {} /\ d \in JournalFiles
    BY <2>1 DEF JournalFiles, Fresh, CallSteps, Listing, AllListed
  <2>3. \A e \in JournalFiles : log[e].exists /\ log[e].last = last[e]
    BY <2>1 DEF Reading, FreshLogs, MemoryTrue, Live
  <2>4. \A e \in JournalFiles \ {d} : log[e].last \in FileEvents
    BY <2>1 DEF Reading, FreshLogs
  <2>5. CASE log' = log /\ last' = last /\ Journalled(op.file, EAddedFile)
    <3>1. log[d].leaves # <<>>
      <4>1. PICK i \in DOMAIN log[d].leaves : TRUE
        BY <2>5 DEF Journalled, LeavesOf
      <4> QED BY <4>1
    <3>2. log[d].last \in FileEvents
      BY <2>1, <2>2, <3>1 DEF Reading, FreshLogs
    <3>3. JournalReadable' /\ MemoryTrue' /\ FreshLogs'
      BY <2>1, <2>2, <2>3, <2>4, <2>5, <3>2 DEF Reading, JournalReadable, MemoryTrue, FreshLogs
    <3> QED BY <2>2, <3>3, FreshRoll DEF Reading
  <2>6. ASSUME NEW type \in FileEvents, log' = [log EXCEPT ![d] = WithLeaf(@, type, op.file)],
               last' = [last EXCEPT ![d] = type]
        PROVE  Reading'
    <3>1. log[d] \in Log /\ log[d].ok /\ type \in Events
      BY <1>a, <2>1 DEF Reading, JournalReadable, Events
    <3>2. Readable(log[d].last, type)
      BY <2>1, <2>2 DEF Reading, FreshLogs, Readable
    <3>3. log'[d].ok /\ log'[d].last = type /\ log'[d].exists = log[d].exists
      <4>1. log'[d] = WithLeaf(log[d], type, op.file)
        BY <1>a, <2>1, <2>6
      <4>2. /\ WithEvent(log[d], type).ok /\ WithEvent(log[d], type).last = type
            /\ WithEvent(log[d], type).exists = log[d].exists
            /\ WithEvent(log[d], type) \in Log
        BY <3>1, <3>2, EventReadable, WithEventType
      <4> QED BY <4>1, <4>2 DEF WithLeaf, Log
    <3>4. last'[d] = type /\ \A e \in Drives \ {d} : log'[e] = log[e] /\ last'[e] = last[e]
      BY <1>a, <2>1, <2>6
    <3>5. JournalReadable'
      <4>1. \A e \in Drives : log[e].ok
        BY <2>1 DEF Reading, JournalReadable
      <4> QED BY <3>3, <3>4, <4>1 DEF JournalReadable
    <3>6. MemoryTrue' /\ FreshLogs'
      BY SMTT(40), <1>a, <2>2, <2>3, <2>4, <3>3, <3>4 DEF MemoryTrue, FreshLogs
    <3> QED BY <2>2, <3>5, <3>6, FreshRoll DEF Reading
  <2>7. {EAddedFile, ETempFile, ERemovedFile} \subseteq FileEvents
    BY DEF FileEvents
  <2> QED BY <1>7, <2>5, <2>6, <2>7 DEF WriteEntry, Unjournalled
<1>8. CASE StartCommit
  <2>1. /\ Reading /\ Fresh /\ pc = "idle" /\ client \in Live /\ client' = client
        /\ UNCHANGED <<log, last, rank, done>> /\ todo' = JournalFiles
        /\ pc' \in {"cDrop", "cCommit"}
    BY <1>8, <1>l DEF StartCommit, MayCommit, Fresh, Live
  <2>2. JournalFiles' = JournalFiles
    BY <2>1 DEF JournalFiles
  <2>3. JournalReadable' /\ MemoryTrue'
    BY <2>1, <2>2 DEF Reading, JournalReadable, MemoryTrue
  <2>4. CommitLasts'
    BY <2>1, <2>2 DEF Reading, FreshLogs, CommitLasts
  <2>5. FreshLogs' /\ RollLasts' /\ StageLasts'
    BY <2>1 DEF FreshLogs, Fresh, RollLasts, StageLasts, Committing, CommitStages, CommitFinish,
                RollBackStages, FinishSteps, CallSteps
  <2> QED BY <2>3, <2>4, <2>5 DEF Reading
<1>9. CASE WriteCommitEvent
  <2> DEFINE d == First(todo)
             rest == todo \ {d}
             ev == CommitEvent[pc]
  <2>1. /\ pc \in CommitStages /\ Reading /\ d \in todo /\ d \in JournalFiles /\ d \in Drives
        /\ UNCHANGED <<rank, done, client>>
        /\ log' = [log EXCEPT ![d] = WithEvent(@, ev)] /\ last' = [last EXCEPT ![d] = ev]
    BY <1>9, <1>l, <1>t, <1>u DEF WriteCommitEvent, WriteEvent
  <2>2. JournalFiles' = JournalFiles
    BY <2>1 DEF JournalFiles
  <2>3. \/ rest # {} /\ pc' = pc /\ todo' = rest
        \/ rest = {} /\ pc' = AfterCommit[pc] /\ todo' = JournalFiles
    BY <1>9 DEF WriteCommitEvent
  <2>4. /\ pc = "cCommit" => ev = ECommitted /\ log[d].last \in FileEvents
                             /\ AfterCommit[pc] = "cDelBackup"
        /\ pc = "cDelBackup" => ev = EBackupFilesRemoved /\ log[d].last = ECommitted
                                /\ AfterCommit[pc] = "cDelTemp"
        /\ pc = "cDelTemp" => ev = ETempFilesRemoved /\ log[d].last = EBackupFilesRemoved
                              /\ AfterCommit[pc] = "cDelLog"
    BY <2>1 DEF Reading, CommitLasts, CommitEvent, AfterCommit
  <2>5. ev \in Events /\ Readable(log[d].last, ev)
    BY <2>1, <2>4 DEF CommitStages, Events, StageEvents, Readable
  <2> HIDE DEF ev
  <2>6. log'[d].ok /\ log'[d].last = ev /\ log'[d].exists = log[d].exists /\ last'[d] = ev
    <3>1. log'[d] = WithEvent(log[d], ev) /\ log[d] \in Log /\ log[d].ok
      BY <1>a, <2>1 DEF Reading, JournalReadable
    <3> QED BY <1>a, <2>1, <2>5, <3>1, EventReadable
  <2>7. \A e \in Drives \ {d} : log'[e] = log[e] /\ last'[e] = last[e]
    BY <1>a, <2>1
  <2>8. JournalReadable'
    <3>1. \A e \in Drives : log[e].ok
      BY <2>1 DEF Reading, JournalReadable
    <3> QED BY <2>6, <2>7, <3>1 DEF JournalReadable
  <2>9. MemoryTrue'
    BY <1>a, <2>1, <2>2, <2>6, <2>7 DEF Reading, MemoryTrue
  <2>10. CommitLasts'
    <3>1. CASE pc = "cCommit"
      <4>1. \A e \in JournalFiles : log[e].last \in IF e \in todo THEN FileEvents ELSE {ECommitted}
        BY <2>1, <3>1 DEF Reading, CommitLasts
      <4>2. \A e \in JournalFiles : log'[e].last \in IF e \in rest THEN FileEvents ELSE {ECommitted}
        BY <1>a, <2>4, <2>6, <2>7, <3>1, <4>1
      <4> QED BY <2>2, <2>3, <2>4, <3>1, <4>2 DEF CommitLasts
    <3>2. CASE pc = "cDelBackup"
      <4>1. \A e \in JournalFiles :
               log[e].last = IF e \in todo THEN ECommitted ELSE EBackupFilesRemoved
        BY <2>1, <3>2 DEF Reading, CommitLasts
      <4>2. \A e \in JournalFiles :
               log'[e].last = IF e \in rest THEN ECommitted ELSE EBackupFilesRemoved
        BY <1>a, <2>4, <2>6, <2>7, <3>2, <4>1
      <4> QED BY <2>2, <2>3, <2>4, <3>2, <4>2 DEF CommitLasts
    <3>3. CASE pc = "cDelTemp"
      <4>1. \A e \in JournalFiles :
               log[e].last = IF e \in todo THEN EBackupFilesRemoved ELSE ETempFilesRemoved
        BY <2>1, <3>3 DEF Reading, CommitLasts
      <4>2. \A e \in JournalFiles :
               log'[e].last = IF e \in rest THEN EBackupFilesRemoved ELSE ETempFilesRemoved
        BY <1>a, <2>4, <2>6, <2>7, <3>3, <4>1
      <4> QED BY <2>2, <2>3, <2>4, <3>3, <4>2 DEF CommitLasts
    <3> QED BY <2>1, <3>1, <3>2, <3>3 DEF CommitStages
  <2>11. FreshLogs' /\ RollLasts' /\ StageLasts'
    <3>1. pc' \in {"cCommit", "cDelBackup", "cDelTemp", "cDelLog"}
      BY <2>1, <2>3, <2>4 DEF CommitStages
    <3> QED BY <3>1 DEF FreshLogs, Fresh, RollLasts, StageLasts, Committing, CommitStages,
                        CommitFinish, RollBackStages, FinishSteps, CallSteps
  <2> QED BY <2>8, <2>9, <2>10, <2>11 DEF Reading
<1>10. CASE CommitDeleteLog \/ CommitMark
  <2> DEFINE d == First(todo)
  <2>1. /\ pc' \in {"cDelLog", "cMark", "cDrop"} /\ Reading /\ d \in Drives
        /\ UNCHANGED <<rank, last, client>>
        /\ log' \in {log, [log EXCEPT ![d] = NoLog]}
    BY <1>10, <1>l, <1>t, <1>u DEF CommitDeleteLog, CommitMark
  <2>2. \A e \in Drives : log'[e] \in {log[e], NoLog}
    BY <1>a, <2>1
  <2>3. JournalReadable'
    BY <1>n, <2>1, <2>2 DEF Reading, JournalReadable
  <2>4. MemoryTrue'
    <3>1. JournalFiles' = JournalFiles
      BY <2>1 DEF JournalFiles
    <3> QED BY <1>a, <1>n, <2>1, <2>2, <3>1 DEF Reading, MemoryTrue
  <2>5. FreshLogs' /\ CommitLasts' /\ RollLasts' /\ StageLasts'
    BY <2>1 DEF FreshLogs, Fresh, CommitLasts, RollLasts, StageLasts, Committing, CommitStages,
                CommitFinish, RollBackStages, FinishSteps, CallSteps
  <2> QED BY <2>3, <2>4, <2>5 DEF Reading
<1>11. CASE CommitDrop \/ EndRollBack \/ Crash
  <2>1. /\ log' = log /\ pc' = "off" /\ client' \notin Live /\ Reading
    BY <1>11, <1>l DEF CommitDrop, EndRollBack, Crash, IInv, ClientServed, Live
  <2> QED BY <2>1, ReadDead DEF Reading, JournalReadable, CommitStages
<1>12. CASE Recover
  <2>1. /\ Reading /\ pc = "off" /\ client' = client /\ pc' = "next"
        /\ \A d \in Drives : log'[d] \in {log[d], EmptyLog}
    BY <1>12, <1>l DEF Recover
  <2>2. client' \notin Live
    BY <2>1 DEF IInv, ClientServed
  <2>3. JournalReadable'
    BY <1>n, <2>1 DEF Reading, JournalReadable
  <2> QED BY <2>1, <2>2, <2>3, ReadDead DEF CommitStages
<1>13. ASSUME ~rec, pc # "off", rec' = rec, client' = client, log' = log,
              pc' \notin CommitStages, faults = 0
       PROVE  Reading'
  BY <1>13, <1>l, ReadDead DEF IInv, ClientServed, Reading, JournalReadable
<1>14. rec /\ pc # "off" => client \in Live
  BY DEF IInv, ClientServed
<1>15. ASSUME LeaveRollBack, log' = log, pc \in {"next", "restore"}, rec' = rec, faults = 0
       PROVE  Reading'
  <2>1. CASE rec
    <3>1. /\ pc' = "idle" /\ client' = "rollbackFailed" /\ UNCHANGED <<last, rank, done>>
          /\ client \in Live
      BY <1>14, <1>15, <2>1 DEF LeaveRollBack
    <3> QED BY <1>l, <1>15, <3>1, ReadQuiet
            DEF Fresh, Committing, CommitStages, CommitFinish, RollBackStages, FinishSteps
  <2>2. CASE ~rec
    BY <1>13, <1>15, <2>2 DEF LeaveRollBack, CommitStages
  <2> QED BY <2>1, <2>2
<1>16. CASE SkipDrive
  <2>1. /\ faults = 0 /\ UNCHANGED <<log, last, rank, done, client>> /\ pc = "next" /\ pc' = "next"
    BY <1>16 DEF SkipDrive
  <2> QED BY <1>l, <2>1, ReadQuiet
          DEF Fresh, Committing, CommitStages, CommitFinish, RollBackStages, FinishSteps, CallSteps
<1>17. CASE DeleteLeaf
  BY <1>17, <1>l, ReadSame DEF DeleteLeaf
<1>18. CASE RestoreLeaf
  <2>1. log' = log /\ rec' = rec /\ pc = "restore" /\ faults = 0
    BY Zenon, <1>18 DEF RestoreLeaf
  <2>2. CASE LeaveRollBack
    BY <1>15, <2>1, <2>2
  <2>3. CASE AbandonDrive /\ UNCHANGED <<memory, op, client>>
    BY <1>l, <2>1, <2>3, ReadQuiet
       DEF AbandonDrive, Fresh, Committing, CommitStages, CommitFinish, RollBackStages,
           FinishSteps, CallSteps
  <2>4. CASE UNCHANGED <<memory, pc, op, todo, client>>
    BY <1>l, <2>1, <2>4, ReadSame
  <2> QED BY Zenon, <1>18, <2>2, <2>3, <2>4 DEF RestoreLeaf
<1>19. CASE RollBackDrive
  <2> DEFINE d == First(todo)
             stage == Entry(LastEvent, last[d])
  <2>1. /\ pc = "next" /\ d \in JournalFiles \ done /\ d \in Drives /\ rec' = rec /\ faults = 0
        /\ log' = log /\ Reading
    BY <1>19, <1>t, <1>l DEF RollBackDrive
  <2>2. CASE stage = "corrupt"
    BY <1>15, <1>19, <2>1, <2>2 DEF RollBackDrive
  <2>3. CASE stage # "corrupt"
    <3>1. /\ pc' = stage /\ UNCHANGED <<last, rank, done, op, todo, client>>
      BY <1>19, <2>3 DEF RollBackDrive
    <3>2. stage \in RollBackStages \cup {"delLog"}
      BY <2>3 DEF Entry, RollBackStages
    <3>3. CASE ~rec
      BY <1>13, <2>1, <3>1, <3>2, <3>3 DEF CommitStages, RollBackStages
    <3>4. CASE rec
      <4>1. client \in Live /\ ~Committing
        BY <1>14, <2>1, <3>4 DEF Committing, CommitStages, CommitFinish
      <4>2. /\ \A e \in JournalFiles : last[e] \notin RedoEvents /\ Untouched(e)
            /\ (\E e \in JournalFiles \ done : Finished(e) /\ ~BeingFinished(e))
                 => \A e \in JournalFiles : ~log[e].exists
        BY <2>1, <4>1 DEF Reading, RollLasts
      <4>3. /\ LastEvent = ENone \/ \E e \in JournalFiles \ done : LastEvent = last[e]
            /\ last[d] <= LastEvent
        BY <1>a, <2>1, LastEventIs
      <4>4. LastEvent \notin RedoEvents
        BY <4>2, <4>3, EventKinds
      <4>5. \A e : ~BeingFinished(e)
        BY <2>1 DEF BeingFinished
      <4>6. LastEvent = ETempFilesRemoved => ~log[d].exists
        <5> SUFFICES ASSUME LastEvent = ETempFilesRemoved PROVE ~log[d].exists
          OBVIOUS
        <5>1. PICK e \in JournalFiles \ done : last[e] = ETempFilesRemoved
          BY <4>3, EventKinds
        <5> QED BY <2>1, <4>2, <4>5, <5>1 DEF Finished
      <4>7. LastEvent = ENone => last[d] = ENone
        <5>1. last[d] \in Events
          BY <1>a, <2>1
        <5> QED BY <4>3, <5>1
                DEF Events, FileEvents, StageEvents, ENone, ERemovedFile, ETempFile, EAddedFile,
                    ECommitted, EBackupFilesRemoved, EAddedFilesRemoved, ERemovedFilesRestored,
                    ETempFilesRemoved
      <4>8. /\ stage # "delBackup"
            /\ stage = "delAdded" => last[d] \in FileEvents
            /\ stage = "restore" => last[d] = EAddedFilesRemoved
            /\ stage = "delTemp" => last[d] = ERemovedFilesRestored
            /\ stage # "delLog" => last[d] \notin {ENone, ETempFilesRemoved}
            /\ stage = "delLog" => \/ last[d] \in {ENone, ETempFilesRemoved}
                                   \/ LastEvent \in {ENone, ETempFilesRemoved}
        BY <2>3, <4>4, EntryMeans
      <4> HIDE DEF stage
      <4>9. JournalFiles' = JournalFiles /\ First(todo)' = d
        BY <3>1 DEF JournalFiles, First
      <4>10. JournalReadable' /\ MemoryTrue'
        BY <2>1, <3>1, <4>9 DEF Reading, JournalReadable, MemoryTrue
      <4>11. FreshLogs' /\ CommitLasts'
        BY <3>1, <3>2 DEF FreshLogs, Fresh, CommitLasts, RollBackStages, CallSteps
      <4>12. RollLasts'
        <5>1. \A e \in done : ~log[e].exists
          BY <2>1, <4>1 DEF Reading, RollLasts
        <5> QED BY <2>1, <3>1, <4>2, <4>5, <4>9, <5>1 DEF RollLasts, Finished, Untouched
      <4>13. StageLasts'
        <5>1. stage # "delLog" => log[d].exists
          BY <2>1, <4>2, <4>8 DEF Untouched
        <5>2. stage = "delLog" /\ log[d].exists => last[d] \in {ENone, ETempFilesRemoved}
          BY <4>6, <4>7, <4>8
        <5> QED BY <2>1, <3>1, <3>2, <4>8, <4>9, <5>1, <5>2 DEF StageLasts, RollBackStages
      <4> QED BY <4>10, <4>11, <4>12, <4>13 DEF Reading
    <3> QED BY <3>3, <3>4
  <2> QED BY <2>2, <2>3
<1>20. CASE WriteRollBackEvent
  <2> DEFINE d == First(todo)
             ev == RollBackEvent[pc]
  <2>1. /\ pc \in RollBackStages /\ pc' = AfterRollBack[pc] /\ d \in JournalFiles /\ d \in Drives
        /\ rec' = rec /\ faults = 0 /\ UNCHANGED <<rank, done, todo, client>> /\ Reading
        /\ log' = (IF rec THEN [log EXCEPT ![d] = WithEvent(@, ev)] ELSE log)
        /\ last' = [last EXCEPT ![d] = ev]
    BY <1>20, <1>t, <1>u, <1>l DEF WriteRollBackEvent, WriteEvent
  <2>2. CASE ~rec
    <3>1. pc' \notin CommitStages /\ pc # "off"
      BY <2>1 DEF RollBackStages, AfterRollBack, CommitStages
    <3> QED BY <1>13, <2>1, <2>2, <3>1
  <2>3. CASE rec
    <3>1. client \in Live /\ ~Committing
      BY <1>14, <2>1, <2>3 DEF Committing, CommitStages, CommitFinish, RollBackStages
    <3>2. StageLasts /\ RollLasts /\ MemoryTrue /\ JournalReadable
      BY <2>1 DEF Reading
    <3>3. log[d].exists /\ last[d] = log[d].last /\ pc # "delBackup"
      BY <2>1, <3>1, <3>2 DEF StageLasts, MemoryTrue
    <3>4. /\ pc = "delAdded" => log[d].last \in FileEvents /\ ev = EAddedFilesRemoved
                                /\ pc' = "restore"
          /\ pc = "restore" => log[d].last = EAddedFilesRemoved /\ ev = ERemovedFilesRestored
                               /\ pc' = "delTemp"
          /\ pc = "delTemp" => log[d].last = ERemovedFilesRestored /\ ev = ETempFilesRemoved
                               /\ pc' = "delLog"
      BY <2>1, <3>1, <3>2, <3>3 DEF StageLasts, RollBackEvent, AfterRollBack, RollBackStages
    <3>5. pc \in {"delAdded", "restore", "delTemp"}
      BY <2>1, <3>3 DEF RollBackStages
    <3>6. ev \in Events /\ Readable(log[d].last, ev) /\ ev \notin RedoEvents
      <4>1. ev \in {EAddedFilesRemoved, ERemovedFilesRestored, ETempFilesRemoved}
        BY <3>4, <3>5
      <4>2. Readable(log[d].last, ev)
        BY <3>4, <3>5 DEF Readable
      <4> QED BY <4>1, <4>2, EventKinds
    <3> HIDE DEF ev
    <3>7. log'[d].ok /\ log'[d].last = ev /\ log'[d].exists = log[d].exists /\ last'[d] = ev
      <4>1. log'[d] = WithEvent(log[d], ev) /\ log[d] \in Log /\ log[d].ok
        BY <1>a, <2>1, <2>3, <3>2 DEF JournalReadable
      <4> QED BY <1>a, <2>1, <3>6, <4>1, EventReadable
    <3>8. \A e \in Drives \ {d} : log'[e] = log[e] /\ last'[e] = last[e]
      BY <1>a, <2>1
    <3>9. JournalFiles' = JournalFiles /\ First(todo)' = d
      BY <2>1 DEF JournalFiles, First
    <3>10. JournalReadable' /\ MemoryTrue'
      <4>1. \A e \in Drives : log[e].ok
        BY <3>2 DEF JournalReadable
      <4> QED BY <1>a, <2>1, <3>1, <3>2, <3>7, <3>8, <3>9, <4>1 DEF JournalReadable, MemoryTrue
    <3>11. FreshLogs' /\ CommitLasts'
      BY <3>4, <3>5 DEF FreshLogs, Fresh, CommitLasts, CallSteps
    <3>12. StageLasts'
      BY <3>3, <3>4, <3>5, <3>7, <3>9 DEF StageLasts, RollBackStages, FinishSteps
    <3>13. RollLasts'
      <4>1. \A e \in JournalFiles : last'[e] \notin RedoEvents /\ Untouched(e)'
        BY <1>a, <3>1, <3>2, <3>3, <3>6, <3>7, <3>8 DEF RollLasts, Untouched
      <4>2. \A e \in Drives : log'[e].exists = log[e].exists
        BY <3>7, <3>8
      <4>3. \A e \in done : ~log'[e].exists
        BY <1>a, <3>1, <3>2, <4>2 DEF RollLasts
      <4>4. \A e \in JournalFiles : Finished(e)' /\ ~BeingFinished(e)' =>
                                       Finished(e) /\ ~BeingFinished(e)
        <5> SUFFICES ASSUME NEW e \in JournalFiles, Finished(e)', ~BeingFinished(e)'
                     PROVE  Finished(e) /\ ~BeingFinished(e)
          OBVIOUS
        <5>1. ~BeingFinished(e)
          BY <3>5 DEF BeingFinished
        <5>2. CASE e = d
          <6>1. ev = ETempFilesRemoved
            BY <3>3, <3>7, <5>2 DEF Finished
          <6>2. pc' = "delLog"
            BY <3>4, <3>5, <6>1, EventKinds
          <6> QED BY <3>3, <3>7, <3>9, <5>2, <6>2 DEF BeingFinished
        <5>3. CASE e # d
          BY <1>a, <3>8, <5>1, <5>3 DEF Finished
        <5> QED BY <5>2, <5>3
      <4> QED BY <1>a, <2>1, <3>1, <3>2, <3>9, <4>1, <4>2, <4>3, <4>4 DEF RollLasts
    <3> QED BY <3>10, <3>11, <3>12, <3>13 DEF Reading
  <2> QED BY <2>2, <2>3
<1>21. CASE DeleteLog
  <2> DEFINE d == First(todo)
  <2>1. /\ pc = "delLog" /\ d \in JournalFiles /\ d \in Drives /\ pc' \in {"mark", "next"}
        /\ faults = 0 /\ UNCHANGED <<rank, last, done, client, rec>> /\ Reading
    BY <1>21, <1>t, <1>u, <1>l DEF DeleteLog, AbandonDrive, FinishSteps
  <2>2. StageLasts /\ RollLasts /\ MemoryTrue /\ JournalReadable
    BY <2>1 DEF Reading
  <2>3. log' \in {log, [log EXCEPT ![d] = NoLog]}
    BY <1>21 DEF DeleteLog
  <2>4. \A e \in Drives : log'[e] \in {log[e], NoLog}
    BY <1>a, <2>3
  <2>5. JournalReadable'
    BY <1>n, <2>2, <2>4 DEF JournalReadable
  <2>6. CASE client \notin Live
    BY <2>1, <2>5, <2>6, ReadDead DEF CommitStages
  <2>7. CASE client \in Live
    <3>1. JournalFiles' = JournalFiles /\ ~Committing
      BY <2>1 DEF JournalFiles, Committing, CommitStages, CommitFinish
    <3>2. MemoryTrue'
      BY <1>a, <1>n, <2>1, <2>2, <2>4, <2>7, <3>1 DEF MemoryTrue
    <3>3. FreshLogs' /\ CommitLasts'
      BY <2>1 DEF FreshLogs, Fresh, CommitLasts, CallSteps
    <3>4. /\ \A e \in JournalFiles : last[e] \notin RedoEvents /\ Untouched(e)
          /\ \A e \in done : ~log[e].exists
          /\ (\E e \in JournalFiles \ done : Finished(e) /\ ~BeingFinished(e))
                 => \A e \in JournalFiles : ~log[e].exists
      BY <2>2, <2>7, <3>1 DEF RollLasts
    <3>5. CASE log[d].exists
      <4>1. pc' = "mark" /\ todo' = todo /\ log' = [log EXCEPT ![d] = NoLog]
        BY <1>21, <3>5 DEF DeleteLog
      <4>2. ~log'[d].exists /\ \A e \in Drives \ {d} : log'[e] = log[e]
        BY <1>a, <1>n, <2>1, <4>1
      <4>3. last[d] \in {ENone, ETempFilesRemoved}
        BY <2>1, <2>2, <2>7, <3>5 DEF StageLasts, FinishSteps
      <4>4. First(todo)' = d
        BY <2>1, <4>1 DEF First
      <4>5. StageLasts'
        BY <2>1, <4>1, <4>2, <4>3, <4>4 DEF StageLasts, RollBackStages
      <4>6. \A e \in JournalFiles : Finished(e)' /\ ~BeingFinished(e)' =>
                                       Finished(e) /\ ~BeingFinished(e)
        BY <1>a, <2>1, <4>1, <4>2, <4>4 DEF Finished, BeingFinished
      <4>7. \A e \in JournalFiles : last'[e] \notin RedoEvents /\ Untouched(e)'
        BY <1>a, <2>1, <3>4, <4>2, <4>3 DEF Untouched
      <4>8. \A e \in Drives : ~log[e].exists => ~log'[e].exists
        BY <4>2
      <4>9. RollLasts'
        BY <1>a, <2>1, <3>1, <3>4, <4>6, <4>7, <4>8 DEF RollLasts
      <4> QED BY <2>5, <3>2, <3>3, <4>5, <4>9 DEF Reading
    <3>6. CASE ~log[d].exists
      <4>1. pc' = "next" /\ log' = log
        BY <1>21, <3>6 DEF DeleteLog, AbandonDrive
      <4>2. \A e : ~BeingFinished(e)
        BY <2>1, <3>6 DEF BeingFinished
      <4>3. RollLasts'
        BY <2>1, <3>1, <3>4, <4>1, <4>2 DEF RollLasts, Finished, Untouched
      <4>4. StageLasts'
        BY <4>1 DEF StageLasts, RollBackStages, FinishSteps
      <4> QED BY <2>5, <3>2, <3>3, <4>3, <4>4 DEF Reading
    <3> QED BY <3>5, <3>6
  <2> QED BY <2>6, <2>7
<1>22. CASE MarkDrive
  <2> DEFINE d == First(todo)
  <2>1. /\ pc = "mark" /\ d \in JournalFiles /\ d \in Drives /\ pc' \in {"drop", "next"}
        /\ faults = 0 /\ UNCHANGED <<rank, last, client, log, rec>> /\ Reading
        /\ done' = done \cup {d}
    BY <1>22, <1>t, <1>u, <1>l DEF MarkDrive, FinishSteps
  <2>2. StageLasts /\ RollLasts /\ MemoryTrue /\ JournalReadable
    BY <2>1 DEF Reading
  <2>3. CASE client \notin Live
    BY <2>1, <2>2, <2>3, ReadDead DEF JournalReadable, CommitStages
  <2>4. CASE client \in Live
    <3>1. JournalFiles' = JournalFiles /\ ~Committing
      BY <2>1 DEF JournalFiles, Committing, CommitStages, CommitFinish
    <3>2. MemoryTrue' /\ JournalReadable' /\ FreshLogs' /\ CommitLasts' /\ StageLasts'
      BY <2>1, <2>2, <3>1 DEF MemoryTrue, JournalReadable, FreshLogs, Fresh, CommitLasts,
                               StageLasts, RollBackStages, FinishSteps, CallSteps
    <3>3. /\ \A e \in JournalFiles : last[e] \notin RedoEvents /\ Untouched(e)
          /\ \A e \in done : ~log[e].exists
          /\ (\E e \in JournalFiles \ done : Finished(e) /\ ~BeingFinished(e))
                 => \A e \in JournalFiles : ~log[e].exists
      BY <2>2, <2>4, <3>1 DEF RollLasts
    <3>4. ~log[d].exists
      BY <2>1, <2>2, <2>4 DEF StageLasts, FinishSteps
    <3>5. \A e \in JournalFiles \ done' : e \in JournalFiles \ done /\ ~BeingFinished(e)
      BY <2>1 DEF BeingFinished
    <3>6. RollLasts'
      BY <2>1, <3>1, <3>3, <3>4, <3>5 DEF RollLasts, Finished, Untouched
    <3> QED BY <3>2, <3>6 DEF Reading
  <2> QED BY <2>3, <2>4
<1>23. CASE DropDrivesFile
  <2>1. /\ pc = "drop" /\ pc' = "next" /\ faults = 0 /\ UNCHANGED <<rank, last, client, log, rec>>
        /\ Reading /\ Listing /\ done' = {}
    BY <1>23, <1>l DEF DropDrivesFile
  <2>2. RollLasts /\ MemoryTrue /\ JournalReadable
    BY <2>1 DEF Reading
  <2>3. CASE client \notin Live
    BY <2>1, <2>2, <2>3, ReadDead DEF JournalReadable, CommitStages
  <2>4. CASE client \in Live
    <3>1. JournalFiles' = JournalFiles /\ ~Committing
      BY <2>1 DEF JournalFiles, Committing, CommitStages, CommitFinish
    <3>2. MemoryTrue' /\ JournalReadable' /\ FreshLogs' /\ CommitLasts' /\ StageLasts'
      BY <2>1, <2>2, <3>1 DEF MemoryTrue, JournalReadable, FreshLogs, Fresh, CommitLasts,
                               StageLasts, RollBackStages, FinishSteps, CallSteps
    <3>3. JournalFiles \subseteq done
      BY <2>1 DEF Listing, AllListed, DoneEmptied, Opening
    <3>4. RollLasts'
      BY <2>1, <2>2, <2>4, <3>1, <3>3 DEF RollLasts, Untouched
    <3> QED BY <3>2, <3>4 DEF Reading
  <2> QED BY <2>3, <2>4
<1>24. CASE \/ JournallingFails \/ ActFails \/ CommitFails \/ CommitDropFails
            \/ RollBackFails \/ DropFails
  BY <1>24, <1>f DEF JournallingFails, ActFails, CommitFails, CommitDropFails,
                     RollBackFails, DropFails
<1> QED
  BY <1>1, <1>2, <1>3, <1>4, <1>5, <1>6, <1>7, <1>8, <1>9, <1>10, <1>11, <1>12,
     <1>16, <1>17, <1>18, <1>19, <1>20, <1>21, <1>22, <1>23, <1>24
  DEF Next, ServerStep, Failure

\* A fresh transaction has no journal yet.
LEMMA ReadInit == Init => ReadInv
<1> SUFFICES ASSUME Init PROVE Reading
  BY DEF ReadInv
<1>1. JournalFiles = {} /\ done = {} /\ pc = "idle" /\ \A d \in Drives : log[d].ok
  BY DEF Init, JournalFiles, NoLog
<1> QED BY <1>1 DEF Reading, JournalReadable, MemoryTrue, FreshLogs, CommitLasts, RollLasts,
                    StageLasts, RollBackStages, FinishSteps

\* As long as no I/O error occurred, ReadEntryL accepts every journal that the
\* calls, CommitL and RollBackL wrote, whatever crash cut them short: recovery
\* never meets a journal it must give up.
THEOREM EveryJournalReadable == Spec => [](faults = 0 => JournalReadable)
<1>1. ReadInv => (faults = 0 => JournalReadable)
  BY DEF ReadInv, Reading
<1> QED BY <1>1, ReadInit, ReadStep, ListInit, ListStep, UndoInvariance, PTL DEF Spec
-------------------------------------------------------------------------------
(***************************************************************************)
(* A transaction on one drive: what becomes of its files                    *)
(***************************************************************************)

\* All files live on one drive.
OneDrive == Files # {} /\ \A f, g \in Files : DriveOf[f] = DriveOf[g]
Home     == DriveOf[CHOOSE f \in Files : TRUE]

\* The names of temporary files are new ones.
TempsAreNew == \A f \in Files :
    <<"RegisterTemporary", f>> \in Calls \/ <<"CreateTemporary", f>> \in Calls
        => Before[f] = "none"

\* Some client has the server create files for it, and journal them next.
CreatingCalls == {"CreateNew", "CreateTemporary", "Overwrite"}
ServerCreates == \E c \in CreatingCalls, f \in Files : <<c, f>> \in Calls

Added(f)   == Journalled(f, EAddedFile)
Removed(f) == Journalled(f, ERemovedFile)
IsTemp(f)  == Journalled(f, ETempFile)

\* The walk has still to come to the file.
ToVisit(f) == \E w \in work : log[w[1]].leaves[w[2]].file = f

\* The journal of the drive, on disk or in memory, ends with one of the events.
Passed(S) == (rank[Home] > 0 /\ last[Home] \in S) \/ log[Home].last \in S

\* Nothing ever happens on the other drives.
OthersEmpty == \A d \in Drives \ {Home} :
    rank[d] = 0 /\ drv[d] = 0 /\ bak[d] = <<>> /\ log[d] = NoLog

JournalShape ==
    /\ log[Home].leaves # <<>> => log[Home].exists /\ log[Home].last # ENone
    /\ rank[Home] > 0 /\ last[Home] = ENone => log[Home].leaves = <<>>
    /\ rank[Home] > 0 /\ last[Home] \in FileEvents => log[Home].last \in FileEvents \cup {ENone}
    /\ client \in Live /\ rank[Home] = 0 => log[Home].leaves = <<>>
    /\ client = "committed" => log[Home].leaves = <<>>
    /\ pc = "delAdded" => last[Home] \in FileEvents

CallShape ==
    Calling => /\ promise = NoPromise
               /\ Len(bak[Home]) = Len(log[Home].leaves)
               /\ rank[Home] > 0 => log[Home].exists /\ last[Home] = log[Home].last
               /\ pc \in {"register", "journal"} => rank[Home] > 0

\* A backup file is an original, or a temporary file the client removed again.
BackupsOwned == \A i \in DOMAIN bak[Home] :
    bak[Home][i] # "none" =>
        /\ i \in LeavesOf(Home, ERemovedFile)
        /\ \E f \in Files : /\ log[Home].leaves[i].file = f
                            /\ \/ bak[Home][i] = "orig" /\ Before[f] = "orig"
                               \/ bak[Home][i] = "tmp" /\ IsTemp(f)

\* Where the files there are come from.
Origins == \A f \in Files :
    /\ fs[f] = "orig" => Before[f] = "orig"
    /\ fs[f] = "tmp" => Before[f] = "none"
    /\ IsTemp(f) => Before[f] = "none"
    /\ Added(f) /\ Before[f] = "orig" => Removed(f)

\* What a call in progress has done so far.
CallState == pc \in CallSteps =>
    /\ pc = "act" => op.kind \in {"Remove", "Overwrite"}
    /\ pc = "create" => op.kind = "Overwrite" /\ fs[op.file] = "none"
    /\ op.kind \in CreatingCalls => ServerCreates
    /\ op.kind \in {"RegisterTemporary", "CreateTemporary"} => Before[op.file] = "none"
    /\ pc \in {"prepare", "register", "journal"} =>
          /\ op.kind \in {"RegisterNew", "RegisterTemporary"} => fs[op.file] = "none"
          /\ op.kind = "CreateNew" => fs[op.file] = "new"
          /\ op.kind = "CreateTemporary" => fs[op.file] = "tmp"
          /\ op.kind \in {"RegisterNew", "CreateNew"} /\ Before[op.file] = "orig"
                => Added(op.file) \/ Removed(op.file)
    /\ pc = "create" /\ Before[op.file] = "orig" => Added(op.file) \/ Removed(op.file)
    /\ pc = "act" /\ ~Added(op.file) =>
          LET n == Len(bak[Home]) IN
          /\ n > 0 /\ bak[Home][n] = "none"
          /\ log[Home].leaves[n] = [type |-> ERemovedFile, file |-> op.file]

\* Backups are gone when the walk over the removed files has ended ...
AfterBackups == {"delTemp", "cDelTemp", "delLog", "mark", "drop", "cDelLog", "cMark", "cDrop"}
BackupsDone  == {EBackupFilesRemoved, ERemovedFilesRestored, ETempFilesRemoved}
BackupsGone  == \A i \in DOMAIN bak[Home] :
    bak[Home][i] # "none" =>
        /\ pc \in {"restore", "delBackup", "cDelBackup"} => <<Home, i>> \in work
        /\ pc \notin AfterBackups
        /\ ~Passed(BackupsDone)

\* ... temporary files when the walk over those has, and then the journal goes.
TempsGone == \A f \in Files :
    IsTemp(f) /\ fs[f] # "none" =>
        /\ pc \in {"delTemp", "cDelTemp"} => ToVisit(f)
        /\ pc \notin {"delLog", "cDelLog"}
        /\ ~Passed({ETempFilesRemoved})
LogsGone == pc \in {"mark", "drop", "cMark", "cDrop"} => log[Home].leaves = <<>>

\* A file that no journal knows: one call was creating it when the crash came.
Orphan(f) == \/ fs[f] = "new" /\ ~Added(f)
             \/ fs[f] = "tmp" /\ ~IsTemp(f)
Creating  == pc \in {"prepare", "register", "journal"}
                 /\ op.kind \in {"CreateNew", "CreateTemporary"}
Orphaned  == /\ \A f \in Files : Orphan(f) =>
                   \/ client = "crashed" /\ crashes > 0 /\ ServerCreates
                   \/ Creating /\ f = op.file
             /\ \A f, g \in Files : Orphan(f) /\ Orphan(g) => f = g

\* Before the commit point: originals can be restored, and a roll back that
\* got past a stage has done what the stage is for.
UndoneStages == {"cDelBackup", "cDelTemp", "cDelLog", "cMark", "delBackup"}
Undone ==
    promise = NoPromise =>
        /\ ~Passed(RedoEvents) /\ pc \notin UndoneStages
        /\ Orphaned
        /\ \A f \in Files : Added(f) /\ fs[f] = "new" =>
              /\ pc = "delAdded" => ToVisit(f)
              /\ pc \notin {"restore", "delTemp", "delLog"}
              /\ ~Passed({EAddedFilesRemoved, ERemovedFilesRestored, ETempFilesRemoved})
        /\ \A f \in Files : \A i \in LeavesOf(Home, ERemovedFile) :
              log[Home].leaves[i].file = f /\ fs[f] = "none" /\ ~IsTemp(f) =>
                  /\ pc = "restore" => <<Home, i>> \in work
                  /\ pc \notin {"delTemp", "delLog"}
                  /\ ~Passed({ERemovedFilesRestored, ETempFilesRemoved})

\* After it: the files are as promised, once the temporary ones are gone.
Kept ==
    promise # NoPromise =>
        /\ ~Passed(UndoEvents)
        /\ pc \notin CallSteps \cup {"delAdded", "restore"}
        /\ pc = "idle" => client # "open"
        /\ \A f \in Files : IF IsTemp(f) THEN promise[f] = "none" ELSE fs[f] = promise[f]

\* A commit runs only for a client that may call CommitL.
CommitCalled ==
    /\ pc \in CommitStages \cup {"cDelLog", "cMark", "cDrop"} =>
          client = "open" \/ (RetryCommit /\ client = "commitFailed")
    /\ pc = "cMark" => ~log[Home].exists

OneInv == /\ OthersEmpty /\ JournalShape /\ CallShape /\ BackupsOwned /\ Origins
          /\ CallState /\ BackupsGone /\ TempsGone /\ LogsGone /\ NoOriginalLost
          /\ Undone /\ Kept /\ CommitCalled

-------------------------------------------------------------------------------
\* Every file is on the one drive.
LEMMA AtHome ==
    ASSUME OneDrive
    PROVE  Home \in Drives /\ \A f \in Files : DriveOf[f] = Home
<1> DEFINE g == CHOOSE f \in Files : TRUE
<1>1. g \in Files
  BY DEF OneDrive
<1>2. DriveOf[g] \in Drives
  BY <1>1, FilesAssumption
<1> QED BY <1>1, <1>2 DEF OneDrive, Home

\* What is journalled depends on the leaves only.
LEMMA LeavesKept ==
    ASSUME OneDrive, log'[Home].leaves = log[Home].leaves
    PROVE  /\ \A t : LeavesOf(Home, t)' = LeavesOf(Home, t)
           /\ \A f \in Files : \A t : Journalled(f, t)' = Journalled(f, t)
           /\ \A f \in Files : Added(f)' = Added(f) /\ Removed(f)' = Removed(f)
                               /\ IsTemp(f)' = IsTemp(f)
<1>1. \A t : LeavesOf(Home, t)' = LeavesOf(Home, t)
  BY DEF LeavesOf
<1>2. \A f \in Files : DriveOf[f] = Home
  BY AtHome
<1>3. \A f \in Files : \A t : Journalled(f, t)' = Journalled(f, t)
  <2> SUFFICES ASSUME NEW f \in Files, NEW t
               PROVE  Journalled(f, t)' = Journalled(f, t)
    OBVIOUS
  <2>1. DriveOf[f] = Home
    BY <1>2
  <2>2. Journalled(f, t)' = \E i \in LeavesOf(Home, t)' : log'[Home].leaves[i].file = f
    BY <2>1 DEF Journalled
  <2>3. Journalled(f, t) = \E i \in LeavesOf(Home, t) : log[Home].leaves[i].file = f
    BY <2>1 DEF Journalled
  <2> QED BY <1>1, <2>2, <2>3
<1> QED BY <1>1, <1>3 DEF Added, Removed, IsTemp

\* A journal without leaves knows no file.
LEMMA LeavesLost ==
    ASSUME OneDrive, log'[Home].leaves = <<>>
    PROVE  /\ \A t : LeavesOf(Home, t)' = {}
           /\ \A f \in Files : \A t : ~Journalled(f, t)'
           /\ \A f \in Files : ~Added(f)' /\ ~Removed(f)' /\ ~IsTemp(f)'
<1>1. \A t : LeavesOf(Home, t)' = {}
  BY DEF LeavesOf
<1>2. \A f \in Files : DriveOf[f] = Home
  BY AtHome
<1>3. \A f \in Files : \A t : ~Journalled(f, t)'
  <2> SUFFICES ASSUME NEW f \in Files, NEW t
               PROVE  ~Journalled(f, t)'
    OBVIOUS
  <2>1. Journalled(f, t)' = \E i \in LeavesOf(Home, t)' : log'[Home].leaves[i].file = f
    BY <1>2 DEF Journalled
  <2> QED BY <1>1, <2>1
<1> QED BY <1>1, <1>3 DEF Added, Removed, IsTemp

LEMMA NoLeaves ==
    ASSUME OneDrive, log[Home].leaves = <<>>
    PROVE  /\ \A t : LeavesOf(Home, t) = {}
           /\ \A f \in Files : \A t : ~Journalled(f, t)
           /\ \A f \in Files : ~Added(f) /\ ~Removed(f) /\ ~IsTemp(f)
<1>1. \A t : LeavesOf(Home, t) = {}
  BY DEF LeavesOf
<1>2. \A f \in Files : DriveOf[f] = Home
  BY AtHome
<1>3. \A f \in Files : \A t : ~Journalled(f, t)
  BY <1>1, <1>2 DEF Journalled
<1> QED BY <1>1, <1>3 DEF Added, Removed, IsTemp

\* An entry makes one leaf more.
LEMMA LeafMore ==
    ASSUME OneDrive, log[Home].leaves \in Seq(Leaf), NEW t \in FileEvents, NEW g \in Files,
           log'[Home].leaves = Append(log[Home].leaves, [type |-> t, file |-> g])
    PROVE  LET n == Len(log[Home].leaves) + 1 IN
           /\ DOMAIN log'[Home].leaves = DOMAIN log[Home].leaves \cup {n}
           /\ \A i \in DOMAIN log[Home].leaves : log'[Home].leaves[i] = log[Home].leaves[i]
           /\ log'[Home].leaves[n] = [type |-> t, file |-> g]
           /\ n \notin DOMAIN log[Home].leaves
           /\ \A u : LeavesOf(Home, u)' = IF u = t THEN LeavesOf(Home, u) \cup {n}
                                                   ELSE LeavesOf(Home, u)
           /\ \A f \in Files : \A u : Journalled(f, u)' <=> Journalled(f, u) \/ (f = g /\ u = t)
<1> DEFINE s == log[Home].leaves
           n == Len(s) + 1
           x == [type |-> t, file |-> g]
<1>1. x \in Leaf
  BY DEF Leaf
<1>2. /\ DOMAIN Append(s, x) = DOMAIN s \cup {n} /\ Append(s, x)[n] = x
      /\ \A i \in DOMAIN s : Append(s, x)[i] = s[i]
  <2> HIDE DEF x, s
  <2> QED BY <1>1, AppendLeaf DEF s
<1>3. n \notin DOMAIN s
  <2>1. DOMAIN s = 1 .. Len(s) /\ Len(s) \in Nat
    OBVIOUS
  <2> QED BY <2>1
<1>4. /\ DOMAIN log'[Home].leaves = DOMAIN s \cup {n} /\ log'[Home].leaves[n] = x
      /\ \A i \in DOMAIN s : log'[Home].leaves[i] = s[i]
  BY <1>2
<1>5. x.type = t /\ x.file = g
  OBVIOUS
<1> HIDE DEF x, n
<1>6. ASSUME NEW u
      PROVE  LeavesOf(Home, u)' = IF u = t THEN LeavesOf(Home, u) \cup {n}
                                           ELSE LeavesOf(Home, u)
  BY <1>3, <1>4, <1>5 DEF LeavesOf
<1>7. ASSUME NEW f \in Files, NEW u
      PROVE  Journalled(f, u)' <=> Journalled(f, u) \/ (f = g /\ u = t)
  <2>1. DriveOf[f] = Home
    BY AtHome
  <2>2. Journalled(f, u)' = \E i \in LeavesOf(Home, u)' : log'[Home].leaves[i].file = f
    BY <2>1 DEF Journalled
  <2>3. Journalled(f, u) = \E i \in LeavesOf(Home, u) : log[Home].leaves[i].file = f
    BY <2>1 DEF Journalled
  <2>4. LeavesOf(Home, u) \subseteq DOMAIN s
    BY DEF LeavesOf
  <2> QED BY <1>4, <1>5, <1>6, <2>2, <2>3, <2>4
<1> QED BY <1>3, <1>4, <1>6, <1>7 DEF n, x

\* The stages are over when the last entry of a file is, and the other way round.
LEMMA StagesAfterCalls ==
    /\ \A e \in FileEvents \cup {ENone} :
          /\ e \notin RedoEvents /\ e \notin BackupsDone
          /\ e \notin {EAddedFilesRemoved, ERemovedFilesRestored, ETempFilesRemoved}
    /\ \A s \in {"idle"} \cup CallSteps :
          /\ s \notin RollBackStages \cup CommitStages \cup FinishSteps \cup CommitFinish
          /\ s \notin AfterBackups \cup UndoneStages
BY DEF FileEvents, RedoEvents, BackupsDone, ENone, ERemovedFile, ETempFile, EAddedFile,
       ECommitted, EBackupFilesRemoved, EAddedFilesRemoved, ERemovedFilesRestored,
       ETempFilesRemoved, CallSteps, RollBackStages, CommitStages, FinishSteps,
       CommitFinish, AfterBackups, UndoneStages

\* Only a client that has the server create files makes a call create one.
LEMMA CreatesInCall ==
    ASSUME OneInv
    PROVE  /\ pc \in CallSteps /\ op.kind \in CreatingCalls => ServerCreates
           /\ Creating => ServerCreates
<1>1. pc \in CallSteps /\ op.kind \in CreatingCalls => ServerCreates
  BY DEF OneInv, CallState
<1>2. Creating => pc \in CallSteps /\ op.kind \in CreatingCalls
  BY DEF Creating, CallSteps, CreatingCalls
<1> QED BY <1>1, <1>2

\* A step that leaves the files and the journal alone and begins no stage that
\* deletes or restores.
LEMMA OneQuiet ==
    ASSUME OneDrive, OneInv, OthersEmpty', CommitCalled', ~Calling',
           fs' = fs, bak' = bak, promise' = promise,
           log'[Home] = log[Home] \/ (log[Home].leaves = <<>> /\ log'[Home] = EmptyLog),
           \/ pc' \in {"idle", "off", "next", "cCommit"}
           \/ log[Home].leaves = <<>> /\ pc' \in {"drop", "cDrop"},
           rank'[Home] > 0 => \/ rank[Home] > 0 /\ last'[Home] = last[Home]
                              \/ last'[Home] = log[Home].last,
           client' \in Live /\ rank'[Home] = 0 => log[Home].leaves = <<>>,
           client' = "committed" => log[Home].leaves = <<>>,
           Creating \/ (client = "crashed" /\ crashes > 0) => client' = "crashed" /\ crashes' > 0
    PROVE  OneInv'
<1>0. log'[Home].leaves = log[Home].leaves
  BY NoLogType
<1>1. /\ \A t : LeavesOf(Home, t)' = LeavesOf(Home, t)
      /\ \A f \in Files : \A t : Journalled(f, t)' = Journalled(f, t)
      /\ \A f \in Files : Added(f)' = Added(f) /\ Removed(f)' = Removed(f)
                          /\ IsTemp(f)' = IsTemp(f)
  BY <1>0, LeavesKept
<1>2. ASSUME NEW S, ENone \notin S PROVE Passed(S)' => Passed(S)
  <2>1. log'[Home].last \in {log[Home].last, ENone}
    BY DEF EmptyLog, NoLog
  <2> QED BY <1>2, <2>1 DEF Passed
<1>n. /\ ENone \notin RedoEvents /\ ENone \notin BackupsDone /\ ENone \notin UndoEvents
      /\ ENone \notin {ETempFilesRemoved}
      /\ ENone \notin {EAddedFilesRemoved, ERemovedFilesRestored, ETempFilesRemoved}
      /\ ENone \notin {ERemovedFilesRestored, ETempFilesRemoved}
  BY EventKinds, StagesAfterCalls
<1>3. pc' \notin CallSteps \cup AfterBackups \cup {"delAdded", "restore", "delBackup", "cDelBackup"}
      \/ (log[Home].leaves = <<>> /\ pc' \in {"drop", "cDrop"})
  BY DEF CallSteps, AfterBackups
<1>4. log[Home].leaves = <<>> =>
           (\A t : LeavesOf(Home, t) = {}) /\ \A f \in Files : ~Added(f) /\ ~IsTemp(f)
  BY NoLeaves
<1>5. JournalShape' /\ CallShape' /\ LogsGone'
  <2>1. JournalShape'
    <3>1. log[Home].leaves = <<>> \/ log'[Home] = log[Home]
      OBVIOUS
    <3>2. log'[Home] = log[Home] \/ log'[Home].last = ENone
      BY DEF EmptyLog, NoLog
    <3> QED BY <1>0, <1>3, <3>1, <3>2, EventKinds DEF OneInv, JournalShape, AfterBackups
  <2> QED BY <1>0, <1>3, <2>1 DEF CallShape, LogsGone
<1>6. BackupsOwned'
  BY <1>0, <1>1 DEF OneInv, BackupsOwned
<1>7. Origins'
  BY <1>1 DEF OneInv, Origins
<1>8. CallState'
  BY <1>3 DEF CallState, CallSteps
<1>9. BackupsGone'
  <2>1. log[Home].leaves = <<>> => \A i \in DOMAIN bak[Home] : bak[Home][i] = "none"
    BY <1>4 DEF OneInv, BackupsOwned
  <2>2. Passed(BackupsDone)' => Passed(BackupsDone)
    BY <1>2, <1>n
  <2> QED BY <1>3, <2>1, <2>2 DEF OneInv, BackupsGone
<1>10. TempsGone'
  <2>1. Passed({ETempFilesRemoved})' => Passed({ETempFilesRemoved})
    BY <1>2, <1>n
  <2> QED BY <1>1, <1>3, <1>4, <2>1 DEF OneInv, TempsGone, AfterBackups
<1>11. NoOriginalLost'
  <2>1. \A f \in Files : LeavesOf(DriveOf[f], ERemovedFile)' = LeavesOf(DriveOf[f], ERemovedFile)
    BY <1>1, AtHome
  <2>2. \A f \in Files : log'[DriveOf[f]].leaves = log[DriveOf[f]].leaves
    BY <1>0, AtHome
  <2> QED BY <1>1, <2>1, <2>2 DEF OneInv, NoOriginalLost, Added, IsTemp
<1>12. Undone'
  <2> SUFFICES ASSUME promise = NoPromise
               PROVE  Undone'
    BY DEF Undone
  <2>1. Orphaned'
    <3>1. \A f \in Files : Orphan(f)' = Orphan(f)
      BY <1>1 DEF Orphan
    <3> QED BY <3>1, CreatesInCall DEF OneInv, Undone, Orphaned
  <2>2. /\ Passed(RedoEvents)' => Passed(RedoEvents)
        /\ Passed({EAddedFilesRemoved, ERemovedFilesRestored, ETempFilesRemoved})' =>
              Passed({EAddedFilesRemoved, ERemovedFilesRestored, ETempFilesRemoved})
        /\ Passed({ERemovedFilesRestored, ETempFilesRemoved})' =>
              Passed({ERemovedFilesRestored, ETempFilesRemoved})
    BY <1>2, <1>n
  <2>3. pc' \notin UndoneStages
    BY <1>3 DEF UndoneStages, AfterBackups
  <2>4. \A f \in Files : Added(f)' /\ fs'[f] = "new" =>
              /\ pc' \notin {"delAdded", "restore", "delTemp", "delLog"}
              /\ ~Passed({EAddedFilesRemoved, ERemovedFilesRestored, ETempFilesRemoved})'
    BY <1>1, <1>3, <1>4, <2>2 DEF OneInv, Undone, AfterBackups
  <2>5. \A f \in Files : \A i \in LeavesOf(Home, ERemovedFile)' :
            log'[Home].leaves[i].file = f /\ fs'[f] = "none" /\ ~IsTemp(f)' =>
                  /\ pc' \notin {"restore", "delTemp", "delLog"}
                  /\ ~Passed({ERemovedFilesRestored, ETempFilesRemoved})'
    BY <1>0, <1>1, <1>3, <1>4, <2>2 DEF OneInv, Undone, AfterBackups
  <2>6. ~Passed(RedoEvents)'
    BY <2>2 DEF OneInv, Undone
  <2> QED BY <2>1, <2>3, <2>4, <2>5, <2>6 DEF Undone
<1>13. Kept'
  <2>1. Passed(UndoEvents)' => Passed(UndoEvents)
    BY <1>2, <1>n
  <2>2. \A f \in Files : promise # NoPromise =>
            IF IsTemp(f)' THEN promise'[f] = "none" ELSE fs'[f] = promise'[f]
    BY <1>1 DEF OneInv, Kept
  <2>3. promise # NoPromise =>
            /\ ~Passed(UndoEvents)' /\ pc' \notin CallSteps \cup {"delAdded", "restore"}
            /\ pc' = "idle" => client' # "open"
    BY <1>3, <2>1 DEF OneInv, Kept, Calling, CallSteps
  <2> QED BY <2>2, <2>3 DEF Kept
<1> QED
  BY <1>5, <1>6, <1>7, <1>8, <1>9, <1>10, <1>11, <1>12, <1>13 DEF OneInv

\* While the client calls, no stage has begun.
LEMMA OneCall ==
    ASSUME OneDrive, Calling', NotBegun', OthersEmpty', JournalShape', CallShape',
           BackupsOwned', Origins', CallState', NoOriginalLost', Orphaned', CommitCalled'
    PROVE  OneInv'
<1>1. ASSUME NEW S, \A e \in FileEvents \cup {ENone} : e \notin S
      PROVE  ~Passed(S)'
  <2>1. log'[Home].last \in FileEvents \cup {ENone}
    BY AtHome DEF NotBegun
  <2>2. rank'[Home] > 0 => last'[Home] = log'[Home].last
    BY DEF CallShape
  <2> QED BY <1>1, <2>1, <2>2 DEF Passed
<1>2. /\ ~Passed(RedoEvents)' /\ ~Passed(BackupsDone)' /\ ~Passed({ETempFilesRemoved})'
      /\ ~Passed({EAddedFilesRemoved, ERemovedFilesRestored, ETempFilesRemoved})'
      /\ ~Passed({ERemovedFilesRestored, ETempFilesRemoved})'
  BY <1>1, StagesAfterCalls
<1>3. pc' \in {"idle"} \cup CallSteps /\ promise' = NoPromise
  BY DEF Calling, CallShape
<1>4. /\ pc' \notin RollBackStages \cup CommitStages \cup FinishSteps \cup CommitFinish
      /\ pc' \notin AfterBackups \cup UndoneStages
  BY <1>3, StagesAfterCalls
<1>5. BackupsGone' /\ TempsGone' /\ LogsGone'
  <2>1. BackupsGone'
    BY <1>2, <1>4 DEF BackupsGone, RollBackStages, CommitStages
  <2>2. TempsGone'
    BY <1>2, <1>4 DEF TempsGone, RollBackStages, CommitStages, FinishSteps, CommitFinish
  <2>3. LogsGone'
    BY <1>4 DEF LogsGone, FinishSteps, CommitFinish
  <2> QED BY <2>1, <2>2, <2>3
<1>6. Undone'
  BY <1>2, <1>4 DEF Undone, RollBackStages, FinishSteps
<1>7. Kept'
  BY <1>3 DEF Kept
<1> QED BY <1>5, <1>6, <1>7 DEF OneInv

\* The types that the steps below need.
LEMMA OneTypes ==
    ASSUME OneDrive, IInv, UndoInv, OneInv
    PROVE  /\ Home \in Drives /\ fs \in [Files -> Contents]
           /\ log \in [Drives -> Log] /\ log[Home] \in Log /\ log[Home].leaves \in Seq(Leaf)
           /\ bak \in [Drives -> Seq(Contents)] /\ bak[Home] \in Seq(Contents)
           /\ rank \in [Drives -> Nat] /\ last \in [Drives -> Events]
           /\ DOMAIN log[Home].leaves \subseteq DOMAIN bak[Home]
           /\ JournalFiles \subseteq {Home} /\ todo \subseteq JournalFiles
           /\ (todo # {} => todo = {Home} /\ First(todo) = Home /\ rank[Home] > 0)
           /\ \A i \in DOMAIN log[Home].leaves : log[Home].leaves[i].file \in Files
<1>1. Home \in Drives
  BY AtHome
<1>2. /\ fs \in [Files -> Contents] /\ log \in [Drives -> Log]
      /\ bak \in [Drives -> Seq(Contents)]
      /\ rank \in [Drives -> Nat] /\ last \in [Drives -> Events]
  BY DEF IInv, TypeOK
<1>3. log[Home] \in Log /\ bak[Home] \in Seq(Contents)
  BY <1>1, <1>2
<1>4. log[Home].leaves \in Seq(Leaf)
  BY <1>3 DEF Log
<1>5. DOMAIN log[Home].leaves \subseteq DOMAIN bak[Home]
  <2>1. Len(log[Home].leaves) <= Len(bak[Home])
    BY <1>1 DEF IInv, LeavesHaveBackups
  <2> QED BY <1>3, <1>4, <2>1
<1>6. JournalFiles \subseteq {Home} /\ todo \subseteq JournalFiles
  BY <1>1, <1>2 DEF OneInv, OthersEmpty, JournalFiles, UndoInv, TodoLoaded
<1>7. todo # {} => todo = {Home} /\ First(todo) = Home /\ rank[Home] > 0
  BY <1>6, FirstLoaded DEF JournalFiles
<1> QED BY <1>1, <1>2, <1>3, <1>4, <1>5, <1>6, <1>7 DEF UndoInv, LeavesAtHome

\* A file missing from its place was journalled, unless it is a new one.
LEMMA MissingKnown ==
    ASSUME OneDrive, OneInv, promise = NoPromise, NEW f \in Files, fs[f] # "orig",
           Before[f] = "orig"
    PROVE  Added(f) \/ Removed(f)
BY DEF OneInv, NoOriginalLost, Origins, Added, Removed, IsTemp, Journalled

\* While the client calls and no file is being created, every file is known.
LEMMA NoOrphans ==
    ASSUME OneInv, Calling, ~Creating
    PROVE  \A f \in Files : ~Orphan(f)
BY DEF OneInv, CallShape, Calling, Undone, Orphaned

\* A call that moves no journal changes one file, which is no original.
LEMMA OneFileMoves ==
    ASSUME OneDrive, TempsAreNew, IInv, UndoInv, OneInv, UndoInv', OthersEmpty', CommitCalled',
           Calling, Calling', NEW f \in Files, NEW c \in {"none", "new", "tmp"},
           fs' = [fs EXCEPT ![f] = c], fs[f] # "orig",
           bak' = bak, log' = log, rank' = rank, last' = last, promise' = promise,
           client' = client,
           pc' \in {"register", "journal"} => rank[Home] > 0,
           c = "tmp" => Before[f] = "none",
           CallState',
           \A g \in Files : Orphan(g) => g = f,
           ~Creating' \/ op'.file # f => c = "none" \/ (c = "new" /\ Added(f))
                                                   \/ (c = "tmp" /\ IsTemp(f))
    PROVE  OneInv'
<1>1. /\ \A t : LeavesOf(Home, t)' = LeavesOf(Home, t)
      /\ \A g \in Files : \A t : Journalled(g, t)' = Journalled(g, t)
      /\ \A g \in Files : Added(g)' = Added(g) /\ Removed(g)' = Removed(g)
                          /\ IsTemp(g)' = IsTemp(g)
  BY LeavesKept
<1>2. fs \in [Files -> Contents]
  BY OneTypes
<1>3. NotBegun'
  BY DEF UndoInv
<1>4. JournalShape' /\ CallShape'
  <2>1. JournalShape'
    <3>1. pc' # "delAdded"
      BY DEF Calling, CallSteps
    <3> QED BY <3>1 DEF OneInv, JournalShape
  <2>2. CallShape'
    BY DEF OneInv, CallShape
  <2> QED BY <2>1, <2>2
<1>5. BackupsOwned'
  BY <1>1 DEF OneInv, BackupsOwned
<1>6. Origins'
  BY <1>1, <1>2 DEF OneInv, Origins
<1>7. NoOriginalLost'
  <2>1. \A g \in Files : LeavesOf(DriveOf[g], ERemovedFile)' = LeavesOf(DriveOf[g], ERemovedFile)
    BY <1>1, AtHome
  <2> QED BY <1>1, <1>2, <2>1 DEF OneInv, NoOriginalLost
<1>8. Orphaned'
  <2>1. \A g \in Files : Orphan(g)' => g = f
    BY <1>1, <1>2 DEF Orphan
  <2>2. Orphan(f)' => Creating' /\ op'.file = f
    BY <1>1, <1>2 DEF Orphan
  <2> QED BY <2>1, <2>2 DEF Orphaned
<1> QED BY <1>3, <1>4, <1>5, <1>6, <1>7, <1>8, OneCall

\* A call that moves neither a journal nor a file.
LEMMA OneFilesStay ==
    ASSUME OneDrive, IInv, UndoInv, OneInv, UndoInv', OthersEmpty', CommitCalled',
           Calling, Calling', fs' = fs, bak' = bak, log' = log, rank' = rank, last' = last,
           promise' = promise, client' = client,
           pc' \in {"register", "journal"} => rank[Home] > 0,
           CallState',
           Creating => Creating' /\ op'.file = op.file
    PROVE  OneInv'
<1>1. /\ \A t : LeavesOf(Home, t)' = LeavesOf(Home, t)
      /\ \A g \in Files : \A t : Journalled(g, t)' = Journalled(g, t)
      /\ \A g \in Files : Added(g)' = Added(g) /\ Removed(g)' = Removed(g)
                          /\ IsTemp(g)' = IsTemp(g)
  BY LeavesKept
<1>2. NotBegun'
  BY DEF UndoInv
<1>3. JournalShape' /\ CallShape'
  <2>1. JournalShape'
    <3>1. pc' # "delAdded"
      BY DEF Calling, CallSteps
    <3> QED BY <3>1 DEF OneInv, JournalShape
  <2>2. CallShape'
    BY DEF OneInv, CallShape
  <2> QED BY <2>1, <2>2
<1>4. BackupsOwned' /\ Origins'
  <2>1. BackupsOwned'
    BY <1>1 DEF OneInv, BackupsOwned
  <2> QED BY <1>1, <2>1 DEF OneInv, Origins
<1>5. NoOriginalLost'
  <2>1. \A g \in Files : LeavesOf(DriveOf[g], ERemovedFile)' = LeavesOf(DriveOf[g], ERemovedFile)
    BY <1>1, AtHome
  <2> QED BY <1>1, <2>1 DEF OneInv, NoOriginalLost
<1>6. Orphaned'
  <2>1. \A g \in Files : Orphan(g)' = Orphan(g)
    BY <1>1 DEF Orphan
  <2>2. promise = NoPromise /\ client # "crashed"
    BY DEF OneInv, CallShape, Calling
  <2> QED BY <2>1, <2>2 DEF OneInv, Undone, Orphaned
<1> QED BY <1>2, <1>3, <1>4, <1>5, <1>6, OneCall

\* The calls of the client.
LEMMA OneClientCall ==
    ASSUME OneDrive, TempsAreNew, IInv, UndoInv, OneInv, UndoInv', ClientCall
    PROVE  OneInv'
<1> USE DEF durable, memory, control, bounds
<1>1. PICK f \in Files, k \in AllCalls :
        /\ StartCall(k, f) \/ (k = "CreateNew" /\ StartCall("Overwrite", f))
        /\ op' = [kind |-> k, file |-> f]
        /\ \/ k \in {"RegisterNew", "RegisterTemporary"} /\ fs[f] = "none" /\ fs' = fs
           \/ k = "CreateNew" /\ fs[f] = "none" /\ fs' = [fs EXCEPT ![f] = "new"]
           \/ k = "CreateTemporary" /\ fs[f] = "none" /\ fs' = [fs EXCEPT ![f] = "tmp"]
           \/ k \in {"Remove", "Overwrite"} /\ fs' = fs
  BY DEF ClientCall, AllCalls, RegisterNew, RegisterTemporary, CreateNew, CreateTemporary,
         Remove, Overwrite
<1>2. /\ pc = "idle" /\ client = "open" /\ pc' = "prepare" /\ client' = client
      /\ bak' = bak /\ log' = log /\ drv' = drv /\ rank' = rank /\ last' = last
      /\ all' = all /\ promise' = promise
      /\ <<k, f>> \in Calls \/ k = "CreateNew"
  BY <1>1 DEF StartCall
<1>3. Calling /\ Calling' /\ ~Creating
  BY <1>2 DEF Calling, CallSteps, Creating
<1>4. OthersEmpty' /\ CommitCalled'
  <2>1. JournalFiles' = JournalFiles
    BY <1>2 DEF JournalFiles
  <2> QED BY <1>2, <2>1 DEF OneInv, OthersEmpty, CommitCalled, CommitStages, CallSteps
<1>5. k \in {"RegisterTemporary", "CreateTemporary"} => Before[f] = "none"
  BY <1>2 DEF TempsAreNew
<1>6. fs \in [Files -> Contents] /\ promise = NoPromise
  BY <1>3, OneTypes DEF OneInv, CallShape
<1>7. /\ \A g \in Files : Added(g)' = Added(g) /\ Removed(g)' = Removed(g)
      /\ k \in {"RegisterNew", "CreateNew"} /\ Before[f] = "orig" => Added(f) \/ Removed(f)
  BY <1>1, <1>2, <1>6, LeavesKept, MissingKnown
<1>8. op'.kind = k /\ op'.file = f
  BY <1>1
<1>9. CallState'
  <2>1. /\ k \in {"RegisterNew", "RegisterTemporary"} => fs'[f] = "none"
        /\ k = "CreateNew" => fs'[f] = "new"
        /\ k = "CreateTemporary" => fs'[f] = "tmp"
    BY <1>1, <1>6
  <2>2. k \in CreatingCalls => ServerCreates
    BY <1>1 DEF CreatingCalls, ServerCreates, StartCall
  <2> QED BY <1>2, <1>5, <1>7, <1>8, <2>1, <2>2 DEF CallState
<1>10. \A g \in Files : ~Orphan(g)
  BY <1>3, NoOrphans
<1>11. CASE fs' = fs
  BY <1>2, <1>3, <1>4, <1>9, <1>11, OneFilesStay
<1>12. CASE k = "CreateNew" /\ fs[f] = "none" /\ fs' = [fs EXCEPT ![f] = "new"]
  <2>1. Creating'
    BY <1>2, <1>8, <1>12 DEF Creating
  <2> QED BY <1>2, <1>3, <1>4, <1>8, <1>9, <1>10, <1>12, <2>1, OneFileMoves
<1>13. CASE k = "CreateTemporary" /\ fs[f] = "none" /\ fs' = [fs EXCEPT ![f] = "tmp"]
  <2>1. Creating'
    BY <1>2, <1>8, <1>13 DEF Creating
  <2> QED BY <1>2, <1>3, <1>4, <1>5, <1>8, <1>9, <1>10, <1>13, <2>1, OneFileMoves
<1> QED BY <1>1, <1>11, <1>12, <1>13

\* The client writes a file that it registered.
LEMMA OneClientWrites ==
    ASSUME OneDrive, TempsAreNew, IInv, UndoInv, OneInv, UndoInv',
           NEW f \in Files, ClientWrites(f)
    PROVE  OneInv'
<1> USE DEF durable, memory, control, bounds
<1>1. /\ pc = "idle" /\ client = "open" /\ pc' = pc /\ client' = client /\ op' = op
      /\ bak' = bak /\ log' = log /\ drv' = drv /\ rank' = rank /\ last' = last
      /\ all' = all /\ promise' = promise /\ fs[f] = "none"
      /\ \/ Added(f) /\ fs' = [fs EXCEPT ![f] = "new"]
         \/ IsTemp(f) /\ fs' = [fs EXCEPT ![f] = "tmp"]
  BY DEF ClientWrites, Added, IsTemp
<1>2. Calling /\ Calling' /\ ~Creating /\ ~Creating'
  BY <1>1 DEF Calling, CallSteps, Creating
<1>3. OthersEmpty' /\ CommitCalled' /\ CallState'
  <2>1. JournalFiles' = JournalFiles
    BY <1>1 DEF JournalFiles
  <2> QED BY <1>1, <2>1 DEF OneInv, OthersEmpty, CommitCalled, CommitStages, CallSteps, CallState
<1>4. \A g \in Files : ~Orphan(g)
  BY <1>2, NoOrphans
<1>5. IsTemp(f) => Before[f] = "none"
  BY DEF OneInv, Origins
<1> QED BY <1>1, <1>2, <1>3, <1>4, <1>5, OneFileMoves

\* The journal of the drive is made, and the drive mentioned.
LEMMA OnePrepares ==
    ASSUME OneDrive, TempsAreNew, IInv, UndoInv, OneInv, UndoInv', IInv',
           PrepareToWrite \/ RegisterDrive
    PROVE  OneInv'
<1> USE DEF durable, memory, control, bounds
<1>1. /\ client = "open" /\ op.file \in Files /\ DriveOf[op.file] = Home
      /\ pc \in {"prepare", "register"} /\ pc' \in {"register", "journal"}
      /\ client' = client /\ op' = op /\ fs' = fs /\ bak' = bak /\ promise' = promise
    BY AtHome DEF PrepareToWrite, RegisterDrive, IInv, CallOp, CallSteps
<1>2. Calling /\ Calling' /\ (Creating => Creating')
  BY <1>1 DEF Calling, CallSteps, Creating
<1>3. CallState'
  <2>1. log'[Home].leaves = log[Home].leaves => CallState'
    <3> SUFFICES ASSUME log'[Home].leaves = log[Home].leaves
                 PROVE  CallState'
      OBVIOUS
    <3>1. Added(op.file)' = Added(op.file) /\ Removed(op.file)' = Removed(op.file)
      BY <1>1, LeavesKept
    <3>2. pc \in CallSteps
      BY <1>1 DEF CallSteps
    <3> QED BY <1>1, <3>1, <3>2 DEF OneInv, CallState
  <2>2. log'[Home].leaves = log[Home].leaves
    <3>1. CASE log' = log
      BY <3>1
    <3>2. CASE rank[Home] = 0 /\ log' = [log EXCEPT ![Home] = EmptyLog]
      BY <1>1, <3>2, NoLogType, OneTypes DEF OneInv, JournalShape, Live
    <3> QED BY <1>1, <3>1, <3>2 DEF PrepareToWrite, RegisterDrive
  <2> QED BY <2>1, <2>2
<1>4. CASE RegisterDrive
  <2>1. /\ log' = log /\ rank' = rank /\ last' = last /\ pc = "register" /\ pc' = "journal"
        /\ drv' = Mentioned(Home)
    BY <1>1, <1>4 DEF RegisterDrive
  <2>2. rank[Home] > 0
    BY <1>2, <2>1 DEF OneInv, CallShape
  <2>3. OthersEmpty'
    BY <2>1, <1>1 DEF OneInv, OthersEmpty, Mentioned, IInv, TypeOK
  <2>4. CommitCalled'
    BY <2>1 DEF CommitCalled, CommitStages
  <2> QED BY <1>1, <1>2, <1>3, <2>1, <2>2, <2>3, <2>4, OneFilesStay
<1>5. CASE PrepareToWrite /\ rank[Home] # 0
  <2>1. /\ log' = log /\ rank' = rank /\ last' = last /\ pc = "prepare" /\ pc' = "journal"
        /\ drv' = drv
    BY <1>1, <1>5 DEF PrepareToWrite
  <2>2. rank[Home] > 0
    BY <1>5, OneTypes
  <2>3. OthersEmpty'
    BY <2>1, <1>1 DEF OneInv, OthersEmpty
  <2>4. CommitCalled'
    BY <2>1 DEF CommitCalled, CommitStages
  <2> QED BY <1>1, <1>2, <1>3, <2>1, <2>2, <2>3, <2>4, OneFilesStay
<1>6. CASE PrepareToWrite /\ rank[Home] = 0
  <2>1. /\ log' = [log EXCEPT ![Home] = EmptyLog] /\ pc' = "register" /\ pc = "prepare"
        /\ rank' = [rank EXCEPT ![Home] = Cardinality(JournalFiles) + 1]
        /\ last' = [last EXCEPT ![Home] = ENone] /\ drv' = drv /\ all' = all
    BY <1>1, <1>6 DEF PrepareToWrite
  <2>2. log[Home].leaves = <<>>
    BY <1>1, <1>6 DEF OneInv, JournalShape, Live
  <2>3. /\ log'[Home] = EmptyLog /\ last'[Home] = ENone /\ rank'[Home] > 0
        /\ EmptyLog.leaves = <<>> /\ EmptyLog.last = ENone /\ EmptyLog.exists
    <3>1. rank'[Home] # 0
      <4>1. JournalFiles = {}
        BY <1>6, OneTypes DEF JournalFiles
      <4>2. rank'[Home] = 0 + 1
        BY <2>1, <4>1, OneTypes, FS_EmptySet
      <4> QED BY <4>2
    <3>2. rank'[Home] \in Nat
      BY OneTypes DEF IInv, TypeOK
    <3> QED BY <2>1, <3>1, <3>2, OneTypes, NoLogType DEF EmptyLog, NoLog
  <2>4. /\ \A t : LeavesOf(Home, t)' = LeavesOf(Home, t)
        /\ \A g \in Files : \A t : Journalled(g, t)' = Journalled(g, t)
        /\ \A g \in Files : Added(g)' = Added(g) /\ Removed(g)' = Removed(g)
                            /\ IsTemp(g)' = IsTemp(g)
    BY <2>2, <2>3, LeavesKept
  <2>5. NotBegun'
    BY DEF UndoInv
  <2>6. JournalShape' /\ CallShape' /\ OthersEmpty'
    <3>1. JournalShape'
      BY <1>1, <2>1, <2>3 DEF JournalShape
    <3>2. CallShape'
      BY <1>1, <1>2, <2>2, <2>3 DEF OneInv, CallShape
    <3>3. OthersEmpty'
      BY <1>1, <2>1 DEF OneInv, OthersEmpty, IInv, TypeOK
    <3> QED BY <3>1, <3>2, <3>3
  <2>7. BackupsOwned' /\ Origins'
    <3>1. BackupsOwned'
      BY <1>1, <2>2, <2>3, <2>4 DEF OneInv, BackupsOwned
    <3> QED BY <1>1, <2>4, <3>1 DEF OneInv, Origins
  <2>8. NoOriginalLost'
    <3>1. \A g \in Files : LeavesOf(DriveOf[g], ERemovedFile)' = LeavesOf(DriveOf[g], ERemovedFile)
                           /\ log'[DriveOf[g]].leaves = log[DriveOf[g]].leaves
      BY <2>2, <2>3, <2>4, AtHome
    <3> QED BY <1>1, <2>4, <3>1 DEF OneInv, NoOriginalLost
  <2>9. Orphaned'
    <3>1. \A g \in Files : Orphan(g)' = Orphan(g)
      BY <1>1, <2>4 DEF Orphan
    <3>2. promise = NoPromise /\ client # "crashed"
      BY <1>1, <1>2 DEF OneInv, CallShape
    <3> QED BY <1>1, <1>2, <3>1, <3>2 DEF OneInv, Undone, Orphaned
  <2>10. CommitCalled'
    <3>1. Home \notin all
      BY <1>1, <1>6 DEF IInv, CommitInv, DrivesKnown, JournalFiles
    <3> QED BY <2>1, <3>1 DEF CommitCalled, CommitStages
  <2> QED BY <1>2, <1>3, <2>5, <2>6, <2>7, <2>8, <2>9, <2>10, OneCall
<1> QED BY <1>1, <1>4, <1>5, <1>6

\* The call could not be journalled; the file is deleted that was created.
LEMMA OneJournallingFails ==
    ASSUME OneDrive, TempsAreNew, IInv, UndoInv, OneInv, UndoInv', JournallingFails
    PROVE  OneInv'
<1> USE DEF durable, memory, control, bounds
<1> DEFINE f == op.file
<1>1. /\ client = "open" /\ f \in Files /\ pc \in {"prepare", "register", "journal"}
      /\ pc' = "idle"
      /\ client' = client /\ bak' = bak /\ log' = log /\ drv' = drv /\ all' = all
      /\ rank' = rank /\ last' = last /\ promise' = promise
  BY DEF JournallingFails, IInv, CallOp, CallSteps
<1>2. Calling /\ Calling' /\ ~Creating'
  BY <1>1 DEF Calling, CallSteps, Creating
<1>3. OthersEmpty' /\ CallState' /\ CommitCalled'
  <2>1. JournalFiles' = JournalFiles
    BY <1>1 DEF JournalFiles
  <2>2. CommitCalled'
    BY <1>1, <2>1 DEF OneInv, CommitCalled, CommitStages, CallSteps
  <2> QED BY <1>1, <2>2 DEF OneInv, OthersEmpty, CallState, CallSteps
<1>4. CASE op.kind \in {"CreateNew", "CreateTemporary"}
  <2>1. fs' = [fs EXCEPT ![f] = "none"]
    BY <1>4 DEF JournallingFails
  <2>2. fs[f] # "orig"
    BY <1>1, <1>4 DEF OneInv, CallState, CallSteps
  <2>3. \A g \in Files : Orphan(g) => g = f
    BY <1>1, <1>2 DEF OneInv, CallShape, Undone, Orphaned
  <2> QED BY <1>1, <1>2, <1>3, <2>1, <2>2, <2>3, OneFileMoves
<1>5. CASE op.kind \notin {"CreateNew", "CreateTemporary"}
  <2>1. fs' = fs /\ ~Creating
    BY <1>5 DEF JournallingFails, Creating
  <2> QED BY <1>1, <1>2, <1>3, <2>1, OneFilesStay
<1> QED BY <1>4, <1>5

\* OverwriteL creates the file it removed; a rename or a creation fails.
LEMMA OneCreates ==
    ASSUME OneDrive, TempsAreNew, IInv, UndoInv, OneInv, UndoInv', CreateOver \/ ActFails
    PROVE  OneInv'
<1> USE DEF durable, memory, control, bounds
<1>0. PICK f \in Files : f = op.file
  BY DEF CreateOver, ActFails, IInv, CallOp, CallSteps
<1>1. /\ client = "open" /\ pc \in {"act", "create"}
      /\ pc' \in {"prepare", "idle"}
      /\ client' = client /\ bak' = bak /\ log' = log /\ drv' = drv /\ all' = all
      /\ rank' = rank /\ last' = last /\ promise' = promise
  BY DEF CreateOver, ActFails, IInv, CallOp, CallSteps
<1>2. Calling /\ Calling' /\ ~Creating
  BY <1>1 DEF Calling, CallSteps, Creating
<1>3. OthersEmpty' /\ CommitCalled'
  <2>1. JournalFiles' = JournalFiles
    BY <1>1 DEF JournalFiles
  <2>2. CommitCalled'
    BY <1>1, <2>1 DEF OneInv, CommitCalled, CommitStages, CallSteps
  <2> QED BY <1>1, <2>2 DEF OneInv, OthersEmpty
<1>4. CASE ActFails
  <2>1. fs' = fs /\ pc' = "idle"
    BY <1>4 DEF ActFails
  <2>2. CallState'
    BY <2>1 DEF CallState, CallSteps
  <2> QED BY <1>1, <1>2, <1>3, <2>1, <2>2, OneFilesStay
<1>5. CASE CreateOver
  <2>1. /\ fs' = [fs EXCEPT ![f] = "new"] /\ pc = "create" /\ pc' = "prepare"
        /\ op' = [op EXCEPT !.kind = "CreateNew"]
    BY <1>0, <1>5 DEF CreateOver
  <2>2. op'.kind = "CreateNew" /\ op'.file = f
    BY <1>0, <2>1 DEF IInv, TypeOK
  <2>3. fs[f] = "none" /\ (Before[f] = "orig" => Added(f) \/ Removed(f))
    BY <1>0, <2>1 DEF OneInv, CallState, CallSteps
  <2>4. Added(f)' = Added(f) /\ Removed(f)' = Removed(f)
    BY <1>1, LeavesKept
  <2>5. CallState'
    <3>1. fs'[f] = "new"
      BY <1>1, <2>1, OneTypes
    <3>2. ServerCreates
      BY <2>1, CreatesInCall DEF OneInv, CallState, CallSteps, CreatingCalls
    <3> QED BY <2>1, <2>2, <2>3, <2>4, <3>1, <3>2 DEF CallState
  <2>6. Creating'
    BY <2>1, <2>2 DEF Creating
  <2>7. \A g \in Files : ~Orphan(g)
    BY <1>2, NoOrphans
  <2> QED BY <1>1, <1>2, <1>3, <2>1, <2>2, <2>3, <2>5, <2>6, <2>7, OneFileMoves
<1> QED BY <1>4, <1>5

\* An entry is written: before its file is touched, or after the server made it.
LEMMA OneEntry ==
    ASSUME OneDrive, IInv, UndoInv, OneInv, UndoInv', WriteEntry
    PROVE  OneInv'
<1> USE DEF durable, memory, control, bounds
<1>0. PICK f \in Files : f = op.file
  BY SMTT(40) DEF WriteEntry, IInv, CallOp, CallSteps
<1>1. /\ client = "open" /\ pc = "journal" /\ pc' \in {"idle", "act"} /\ DriveOf[f] = Home
      /\ client' = client /\ fs' = fs /\ drv' = drv /\ all' = all
      /\ rank' = rank /\ promise' = promise
  BY <1>0, AtHome DEF WriteEntry, IInv, CallOp, CallSteps
<1>2. Calling /\ Calling' /\ ~Creating' /\ promise = NoPromise
  BY <1>1 DEF Calling, CallSteps, Creating, OneInv, CallShape
<1>3. CASE /\ log' = log /\ bak' = bak /\ last' = last /\ Added(f)
           /\ op.kind \in {"Remove", "Overwrite"} /\ pc' = "act" /\ op' = op
  <2>1. CallState'
    <3>1. Added(f)' = Added(f)
      BY <1>3, LeavesKept
    <3>2. op.kind \in CreatingCalls => ServerCreates
      BY <1>1, CreatesInCall DEF CallSteps
    <3> QED BY <1>0, <1>3, <3>1, <3>2 DEF OneInv, CallState, CallSteps
  <2>2. OthersEmpty'
    BY <1>1, <1>3 DEF OneInv, OthersEmpty
  <2>3. CommitCalled'
    <3>1. log[Home].leaves # <<>>
      BY <1>3, NoLeaves
    <3> QED BY <1>3, <3>1 DEF CommitCalled, CommitStages
  <2>4. ~Creating
    BY <1>3 DEF Creating
  <2> QED BY <1>1, <1>2, <1>3, <2>1, <2>2, <2>3, <2>4, OneFilesStay
<1>4. ASSUME NEW t \in FileEvents,
             log' = [log EXCEPT ![Home] = WithLeaf(@, t, f)],
             bak' = [bak EXCEPT ![Home] = Append(@, "none")],
             last' = [last EXCEPT ![Home] = t],
             \/ t = EAddedFile /\ op.kind \in {"RegisterNew", "CreateNew"} /\ pc' = "idle"
             \/ t = ETempFile /\ op.kind \in {"RegisterTemporary", "CreateTemporary"}
                /\ pc' = "idle"
             \/ t = ERemovedFile /\ op.kind \in {"Remove", "Overwrite"} /\ pc' = "act"
                /\ op' = op
      PROVE  OneInv'
  <2> DEFINE s == log[Home].leaves
             n == Len(s) + 1
             x == [type |-> t, file |-> f]
  <2>1. /\ log'[Home].leaves = Append(s, x) /\ log'[Home].last = t
        /\ log'[Home].exists = log[Home].exists
    <3>1. log'[Home] = WithLeaf(log[Home], t, f)
      BY <1>4, OneTypes
    <3>2. t \in Events
      BY EventKinds
    <3> QED BY <3>1, <3>2, WithEventType, OneTypes DEF WithLeaf, WithEvent, Log
  <2>2. /\ DOMAIN log'[Home].leaves = DOMAIN s \cup {n} /\ n \notin DOMAIN s
        /\ \A i \in DOMAIN s : log'[Home].leaves[i] = s[i]
        /\ log'[Home].leaves[n] = x
        /\ \A u : LeavesOf(Home, u)' = IF u = t THEN LeavesOf(Home, u) \cup {n}
                                                ELSE LeavesOf(Home, u)
        /\ \A g \in Files : \A u : Journalled(g, u)' <=> Journalled(g, u) \/ (g = f /\ u = t)
    <3>1. log'[Home].leaves = Append(log[Home].leaves, [type |-> t, file |-> f])
      BY <2>1
    <3> QED BY SMTT(40), <3>1, LeafMore, OneTypes
  <2>3. /\ \A g \in Files : Added(g)' <=> Added(g) \/ (g = f /\ t = EAddedFile)
        /\ \A g \in Files : Removed(g)' <=> Removed(g) \/ (g = f /\ t = ERemovedFile)
        /\ \A g \in Files : IsTemp(g)' <=> IsTemp(g) \/ (g = f /\ t = ETempFile)
    BY <2>2 DEF Added, Removed, IsTemp
  <2>4. /\ bak'[Home] = Append(bak[Home], "none") /\ Len(bak[Home]) = Len(s)
        /\ DOMAIN bak'[Home] = DOMAIN bak[Home] \cup {n} /\ DOMAIN bak[Home] = DOMAIN s
        /\ \A i \in DOMAIN bak[Home] : bak'[Home][i] = bak[Home][i]
        /\ bak'[Home][n] = "none" /\ Len(bak'[Home]) = n
    <3>1. bak'[Home] = Append(bak[Home], "none")
      BY <1>4, OneTypes
    <3>2. Len(bak[Home]) = Len(s)
      BY <1>2 DEF OneInv, CallShape
    <3>3. DOMAIN bak[Home] = DOMAIN s
      BY <3>2, OneTypes
    <3>4. "none" \in Contents /\ bak[Home] \in Seq(Contents)
      BY OneTypes DEF Contents
    <3> QED BY SMTT(40), <3>1, <3>2, <3>3, <3>4, AppendLeaf
  <2>5. log'[Home].leaves # <<>> /\ n \in Nat /\ n > 0
    <3>1. Len(s) \in Nat /\ DOMAIN <<>> = 1 .. 0
      BY OneTypes
    <3> QED BY <2>2, <3>1
  <2>6. rank[Home] > 0 /\ log[Home].exists /\ last'[Home] = t /\ t # ENone
    BY <1>1, <1>2, <1>4, EventKinds, OneTypes DEF OneInv, CallShape
  <2> HIDE DEF s, n
  <2>7. NotBegun'
    BY DEF UndoInv
  <2>8. OthersEmpty'
    BY <1>1, <1>4, OneTypes DEF OneInv, OthersEmpty
  <2>9. JournalShape' /\ CallShape'
    <3>1. JournalShape'
      BY <1>1, <2>1, <2>5, <2>6 DEF JournalShape
    <3>2. Len(bak'[Home]) = Len(log'[Home].leaves)
      <4>1. x \in Leaf /\ s \in Seq(Leaf)
        BY OneTypes DEF Leaf, s
      <4>2. Len(log'[Home].leaves) = Len(s) + 1
        BY <2>1, <4>1, AppendLeaf
      <4> QED BY <2>4, <4>2 DEF n
    <3> QED BY <1>1, <1>2, <2>1, <2>6, <3>1, <3>2 DEF CallShape
  <2>10. BackupsOwned'
    <3> SUFFICES ASSUME NEW i \in DOMAIN bak'[Home], bak'[Home][i] # "none"
                 PROVE  /\ i \in LeavesOf(Home, ERemovedFile)'
                        /\ \E g \in Files :
                              /\ log'[Home].leaves[i].file = g
                              /\ \/ bak'[Home][i] = "orig" /\ Before[g] = "orig"
                                 \/ bak'[Home][i] = "tmp" /\ IsTemp(g)'
      BY DEF BackupsOwned
    <3>1. i \in DOMAIN bak[Home] /\ bak'[Home][i] = bak[Home][i]
      BY <2>4
    <3>2. log'[Home].leaves[i] = log[Home].leaves[i]
      BY <2>2, <2>4, <3>1 DEF s
    <3>3. i \in LeavesOf(Home, ERemovedFile)
      BY <3>1 DEF OneInv, BackupsOwned
    <3> QED BY <2>2, <2>3, <3>1, <3>2, <3>3 DEF OneInv, BackupsOwned
  <2>11. Origins'
    <3>1. t = ETempFile => Before[f] = "none"
      <4>1. ETempFile # EAddedFile /\ ETempFile # ERemovedFile
        BY DEF ETempFile, EAddedFile, ERemovedFile
      <4> QED BY <1>0, <1>1, <1>4, <4>1 DEF OneInv, CallState, CallSteps
    <3>2. t = EAddedFile /\ Before[f] = "orig" => Added(f) \/ Removed(f)
      <4>1. ETempFile # EAddedFile /\ EAddedFile # ERemovedFile
        BY DEF ETempFile, EAddedFile, ERemovedFile
      <4> QED BY <1>0, <1>1, <1>4, <4>1 DEF OneInv, CallState, CallSteps
    <3> QED BY <1>1, <2>3, <3>1, <3>2 DEF OneInv, Origins
  <2>12. CallState'
    <3>1. CASE pc' = "idle"
      BY <3>1 DEF CallState, CallSteps
    <3>2. CASE pc' = "act"
      <4>1. t = ERemovedFile /\ op' = op /\ op.kind \in {"Remove", "Overwrite"}
        BY <1>4, <3>2
      <4>2. op.kind \in CreatingCalls => ServerCreates
        BY <1>1, CreatesInCall DEF CallSteps
      <4> QED BY <1>0, <2>2, <2>4, <2>5, <3>2, <4>1, <4>2 DEF CallState
    <3> QED BY <1>1, <3>1, <3>2
  <2>13. NoOriginalLost'
    <3> SUFFICES ASSUME NEW g \in Files, Before[g] = "orig", ~Added(g)', ~IsTemp(g)'
                 PROVE  \/ fs'[g] = "orig"
                        \/ \E i \in LeavesOf(Home, ERemovedFile)' :
                              log'[Home].leaves[i].file = g /\ bak'[Home][i] = "orig"
      BY AtHome DEF NoOriginalLost, Added, IsTemp
    <3>1. \/ fs[g] = "orig"
          \/ \E i \in LeavesOf(Home, ERemovedFile) :
                log[Home].leaves[i].file = g /\ bak[Home][i] = "orig"
      BY <1>2, <2>3, AtHome DEF OneInv, NoOriginalLost, Added, IsTemp
    <3>2. LeavesOf(Home, ERemovedFile) \subseteq DOMAIN s
      BY DEF LeavesOf, s
    <3>3. \A i \in DOMAIN s : log'[Home].leaves[i] = log[Home].leaves[i]
      BY <2>2 DEF s
    <3> QED BY <1>1, <2>2, <2>4, <3>1, <3>2, <3>3
  <2>14. Orphaned'
    <3>1. \A g \in Files : ~Orphan(g)'
      <4> SUFFICES ASSUME NEW g \in Files, Orphan(g)'
                   PROVE  FALSE
        OBVIOUS
      <4>1. Orphan(g)
        BY <1>1, <2>3 DEF Orphan
      <4>2. Creating /\ g = f
        BY <1>0, <1>1, <1>2, <4>1 DEF OneInv, Undone, Orphaned
      <4>3. \/ op.kind = "CreateNew" /\ fs[f] = "new" /\ t = EAddedFile
            \/ op.kind = "CreateTemporary" /\ fs[f] = "tmp" /\ t = ETempFile
        BY <1>0, <1>1, <1>4, <4>2 DEF OneInv, CallState, CallSteps, Creating
      <4> QED BY <1>1, <2>3, <4>2, <4>3 DEF Orphan
    <3> QED BY <3>1 DEF Orphaned
  <2>15. CommitCalled'
    BY <1>1, <2>5 DEF CommitCalled, CommitStages
  <2> QED BY <1>2, <2>7, <2>8, <2>9, <2>10, <2>11, <2>12, <2>13, <2>14, <2>15, OneCall
<1>5. {EAddedFile, ETempFile, ERemovedFile} \subseteq FileEvents
  BY DEF FileEvents
<1>6. \/ /\ log' = log /\ bak' = bak /\ last' = last /\ Added(f)
         /\ op.kind \in {"Remove", "Overwrite"} /\ pc' = "act" /\ op' = op
      \/ \E t \in FileEvents :
            /\ log' = [log EXCEPT ![Home] = WithLeaf(@, t, f)]
            /\ bak' = [bak EXCEPT ![Home] = Append(@, "none")]
            /\ last' = [last EXCEPT ![Home] = t]
            /\ \/ t = EAddedFile /\ op.kind \in {"RegisterNew", "CreateNew"} /\ pc' = "idle"
               \/ t = ETempFile /\ op.kind \in {"RegisterTemporary", "CreateTemporary"}
                  /\ pc' = "idle"
               \/ t = ERemovedFile /\ op.kind \in {"Remove", "Overwrite"} /\ pc' = "act"
                  /\ op' = op
  BY <1>0, <1>1, <1>5 DEF WriteEntry, Unjournalled, Added
<1> QED BY SMTT(40), <1>3, <1>4, <1>6

\* The file is moved to the backup its leaf announced, or deleted.
LEMMA OneRemoval ==
    ASSUME OneDrive, IInv, UndoInv, OneInv, UndoInv', MoveToBackup
    PROVE  OneInv'
<1> USE DEF durable, memory, control, bounds
<1>0. PICK f \in Files : f = op.file
  BY DEF MoveToBackup, IInv, CallOp, CallSteps
<1>1. /\ client = "open" /\ pc = "act" /\ DriveOf[f] = Home
      /\ client' = client /\ log' = log /\ drv' = drv /\ all' = all
      /\ rank' = rank /\ last' = last /\ promise' = promise
      /\ fs' = [fs EXCEPT ![f] = "none"]
      /\ bak' = IF Added(f) THEN bak ELSE [bak EXCEPT ![Home][Len(bak[Home])] = fs[f]]
      /\ \/ pc' = "idle"
         \/ pc' = "create" /\ op.kind = "Overwrite" /\ op' = op
  BY <1>0, AtHome DEF MoveToBackup, IInv, CallOp, CallSteps, Added
<1>2. Calling /\ Calling' /\ ~Creating /\ ~Creating' /\ promise = NoPromise
  BY <1>1 DEF Calling, CallSteps, Creating, OneInv, CallShape
<1>3. \A g \in Files : ~Orphan(g)
  BY <1>2, NoOrphans
<1>4. /\ \A t : LeavesOf(Home, t)' = LeavesOf(Home, t)
      /\ \A g \in Files : \A t : Journalled(g, t)' = Journalled(g, t)
      /\ \A g \in Files : Added(g)' = Added(g) /\ Removed(g)' = Removed(g)
                          /\ IsTemp(g)' = IsTemp(g)
  BY <1>1, LeavesKept
<1>5. PICK n \in Nat : n = Len(bak[Home])
  BY OneTypes
<1>6. ~Added(f) =>
         /\ n \in DOMAIN bak[Home] /\ bak[Home][n] = "none"
         /\ n \in LeavesOf(Home, ERemovedFile) /\ log[Home].leaves[n].file = f /\ Removed(f)
  <2> SUFFICES ASSUME ~Added(f)
               PROVE  /\ n \in DOMAIN bak[Home] /\ bak[Home][n] = "none"
                      /\ n \in LeavesOf(Home, ERemovedFile)
                      /\ log[Home].leaves[n].file = f /\ Removed(f)
    OBVIOUS
  <2>1. /\ n > 0 /\ bak[Home][n] = "none"
        /\ log[Home].leaves[n] = [type |-> ERemovedFile, file |-> f]
    BY <1>0, <1>1, <1>5 DEF OneInv, CallState, CallSteps
  <2>2. n \in DOMAIN bak[Home] /\ n \in DOMAIN log[Home].leaves
    <3>1. Len(bak[Home]) = Len(log[Home].leaves)
      BY <1>2 DEF OneInv, CallShape
    <3> QED BY <1>5, <2>1, <3>1, OneTypes
  <2> QED BY <1>1, <2>1, <2>2 DEF LeavesOf, Removed, Journalled
<1>7. fs \in [Files -> Contents] /\ bak \in [Drives -> Seq(Contents)] /\ Home \in Drives
  BY OneTypes
<1>8. /\ DOMAIN bak'[Home] = DOMAIN bak[Home] /\ Len(bak'[Home]) = Len(bak[Home])
      /\ \A d \in Drives \ {Home} : bak'[d] = bak[d]
      /\ \A i \in DOMAIN bak[Home] :
            bak'[Home][i] = IF ~Added(f) /\ i = n THEN fs[f] ELSE bak[Home][i]
  <2>1. CASE Added(f)
    BY <1>1, <2>1
  <2>2. CASE ~Added(f)
    <3>1. bak' = [bak EXCEPT ![Home][n] = fs[f]]
      BY <1>1, <1>5, <2>2
    <3>2. fs[f] \in Contents
      BY <1>7
    <3>3. /\ Len([bak EXCEPT ![Home][n] = fs[f]][Home]) = Len(bak[Home])
          /\ DOMAIN [bak EXCEPT ![Home][n] = fs[f]][Home] = DOMAIN bak[Home]
      BY <1>7, <3>2, BackupType
    <3>4. bak'[Home] = [bak[Home] EXCEPT ![n] = fs[f]] /\ \A d \in Drives \ {Home} : bak'[d] = bak[d]
      BY <1>7, <3>1
    <3> QED BY <1>6, <2>2, <3>1, <3>3, <3>4
  <2> QED BY <2>1, <2>2
<1>9. NotBegun'
  BY DEF UndoInv
<1>10. OthersEmpty' /\ JournalShape' /\ CallShape'
  <2>1. OthersEmpty'
    BY <1>1, <1>8 DEF OneInv, OthersEmpty
  <2>2. JournalShape'
    BY <1>1 DEF OneInv, JournalShape
  <2>3. CallShape'
    BY <1>1, <1>2, <1>8 DEF OneInv, CallShape
  <2> QED BY <2>1, <2>2, <2>3
<1>11. BackupsOwned'
  <2> SUFFICES ASSUME NEW i \in DOMAIN bak[Home], bak'[Home][i] # "none"
               PROVE  /\ i \in LeavesOf(Home, ERemovedFile)
                      /\ \E g \in Files :
                            /\ log[Home].leaves[i].file = g
                            /\ \/ bak'[Home][i] = "orig" /\ Before[g] = "orig"
                               \/ bak'[Home][i] = "tmp" /\ IsTemp(g)
    BY <1>1, <1>4, <1>8 DEF BackupsOwned
  <2>1. CASE ~Added(f) /\ i = n
    <3>1. bak'[Home][i] = fs[f] /\ fs[f] \in {"orig", "new", "tmp"}
      BY <1>7, <1>8, <2>1 DEF Contents
    <3>2. fs[f] # "new" /\ (fs[f] = "tmp" => IsTemp(f))
      BY <1>3, <2>1 DEF Orphan
    <3>3. fs[f] = "orig" => Before[f] = "orig"
      BY DEF OneInv, Origins
    <3> QED BY <1>6, <2>1, <3>1, <3>2, <3>3
  <2>2. CASE ~(~Added(f) /\ i = n)
    <3>1. bak'[Home][i] = bak[Home][i]
      BY <1>8, <2>2
    <3> QED BY <3>1 DEF OneInv, BackupsOwned
  <2> QED BY <2>1, <2>2
<1>12. Origins'
  BY <1>1, <1>4, <1>7 DEF OneInv, Origins
<1>13. CallState'
  <2>1. CASE pc' = "idle"
    BY <2>1 DEF CallState, CallSteps
  <2>2. CASE pc' = "create" /\ op.kind = "Overwrite" /\ op' = op
    <3>1. fs'[f] = "none"
      BY <1>1, <1>7
    <3>2. Added(f) \/ Removed(f)
      BY <1>6
    <3>3. op.kind \in CreatingCalls => ServerCreates
      BY <1>1, CreatesInCall DEF CallSteps
    <3> QED BY <1>0, <1>4, <2>2, <3>1, <3>2, <3>3 DEF CallState
  <2> QED BY <1>1, <2>1, <2>2
<1>14. NoOriginalLost'
  <2> SUFFICES ASSUME NEW g \in Files, Before[g] = "orig", ~Added(g), ~IsTemp(g)
               PROVE  \/ fs'[g] = "orig"
                      \/ \E i \in LeavesOf(Home, ERemovedFile) :
                            log[Home].leaves[i].file = g /\ bak'[Home][i] = "orig"
    BY <1>1, <1>4, AtHome DEF NoOriginalLost, Added, IsTemp
  <2>1. \/ fs[g] = "orig"
        \/ \E i \in LeavesOf(Home, ERemovedFile) :
              log[Home].leaves[i].file = g /\ bak[Home][i] = "orig"
    BY <1>2, AtHome DEF OneInv, NoOriginalLost, Added, IsTemp
  <2>2. CASE fs[g] = "orig" /\ g = f
    BY <1>6, <1>8, <2>2
  <2>3. CASE fs[g] = "orig" /\ g # f
    BY <1>1, <1>7, <2>3
  <2>4. ASSUME NEW i \in LeavesOf(Home, ERemovedFile),
               log[Home].leaves[i].file = g, bak[Home][i] = "orig"
        PROVE  bak'[Home][i] = "orig"
    <3>1. i \in DOMAIN bak[Home]
      BY OneTypes DEF LeavesOf
    <3> QED BY <1>6, <1>8, <2>4, <3>1
  <2> QED BY <2>1, <2>2, <2>3, <2>4
<1>15. Orphaned'
  <2>1. \A g \in Files : ~Orphan(g)'
    BY <1>1, <1>3, <1>4, <1>7 DEF Orphan
  <2> QED BY <2>1 DEF Orphaned
<1>16. CommitCalled'
  <2>1. JournalFiles' = JournalFiles
    BY <1>1 DEF JournalFiles
  <2> QED BY <1>1, <2>1 DEF OneInv, CommitCalled, CommitStages, CallSteps
<1> QED BY <1>2, <1>9, <1>10, <1>11, <1>12, <1>13, <1>14, <1>15, <1>16, OneCall

\* RollBackL is left by an error.
LEMMA OneLeft ==
    ASSUME OneDrive, IInv, UndoInv, OneInv, LeaveRollBack,
           fs' = fs, bak' = bak, log' = log, drv' = drv, promise' = promise,
           crashes' = crashes, pc \notin {"idle", "off"} \cup CallSteps
    PROVE  OneInv'
<1> USE DEF memory
<1>1. ~Creating
  BY DEF Creating, CallSteps
<1>2. Home \in Drives
  BY AtHome
<1>3. CASE rec
  <2>1. /\ pc' = "idle" /\ client' = "rollbackFailed" /\ rank' = rank /\ last' = last
        /\ client \in Live
    BY <1>3 DEF LeaveRollBack, IInv, ClientServed
  <2>2. OthersEmpty' /\ CommitCalled' /\ ~Calling'
    BY <2>1 DEF OneInv, OthersEmpty, CommitCalled, CommitStages, Calling
  <2>3. client \in Live /\ rank[Home] = 0 => log[Home].leaves = <<>>
    BY DEF OneInv, JournalShape
  <2> QED BY <1>1, <2>1, <2>2, <2>3, OneQuiet DEF Live
<1>4. CASE ~rec
  <2>1. /\ pc' = "off" /\ client' = client /\ client \notin Live /\ rank' = [d \in Drives |-> 0]
    BY <1>4 DEF LeaveRollBack, Forget, IInv, ClientServed
  <2>2. rank'[Home] = 0 /\ \A d \in Drives : rank'[d] = 0
    BY <1>2, <2>1
  <2>3. OthersEmpty' /\ CommitCalled' /\ ~Calling'
    BY <2>1, <2>2 DEF OneInv, OthersEmpty, CommitCalled, CommitStages, Calling, CallSteps
  <2>4. client = "committed" => log[Home].leaves = <<>>
    BY DEF OneInv, JournalShape
  <2> QED BY <1>1, <2>1, <2>2, <2>3, <2>4, OneQuiet
<1> QED BY <1>3, <1>4

\* The steps that neither touch a file nor begin to.
LEMMA OneBegins ==
    ASSUME OneDrive, IInv, UndoInv, OneInv, StartCommit \/ CommitRefused \/ StartRollBack
    PROVE  OneInv'
<1> USE DEF durable, memory, control, bounds
<1>1. /\ fs' = fs /\ bak' = bak /\ log' = log /\ drv' = drv /\ promise' = promise
      /\ rank' = rank /\ last' = last /\ all' = all /\ crashes' = crashes
      /\ pc = "idle" /\ client \in Live
      /\ pc' \in {"idle", "next", "cCommit", "cDrop"}
      /\ client' = client \/ (client' = "commitFailed" /\ client \in {"open", "commitFailed"})
  BY DEF StartCommit, CommitRefused, StartRollBack, MayCommit, Live
<1>2. client' \in Live /\ client' # "committed" /\ client # "crashed" /\ client' # "crashed"
  BY <1>1 DEF Live
<1>3. ~Creating
  BY <1>1 DEF Creating
<1>4. ~Calling'
  BY <1>1 DEF Calling, CallSteps, StartCommit, CommitRefused, StartRollBack
<1>5. OthersEmpty'
  BY <1>1 DEF OneInv, OthersEmpty
<1>6. rank[Home] = 0 => log[Home].leaves = <<>>
  BY <1>1 DEF OneInv, JournalShape
<1>7. CommitCalled'
  BY <1>1 DEF CommitCalled, CommitStages, StartCommit, CommitRefused, StartRollBack, MayCommit
<1>8. pc' = "cDrop" => log[Home].leaves = <<>>
  <2>1. pc' = "cDrop" => JournalFiles = {}
    BY <1>1 DEF StartCommit, CommitRefused, StartRollBack
  <2>2. JournalFiles = {} => rank[Home] = 0
    BY OneTypes DEF JournalFiles
  <2> QED BY <1>6, <2>1, <2>2
<1> QED BY <1>1, <1>2, <1>3, <1>4, <1>5, <1>6, <1>7, <1>8, OneQuiet

\* The steps of a roll back between two drives, and at its end.
LEMMA OneRollsOn ==
    ASSUME OneDrive, IInv, UndoInv, OneInv,
           \/ SkipDrive \/ MarkDrive \/ DropDrivesFile \/ EndRollBack
           \/ RollBackFails \/ DropFails
    PROVE  OneInv'
<1> USE DEF durable, memory, control, bounds
<1>1. /\ fs' = fs /\ bak' = bak /\ log' = log /\ promise' = promise /\ crashes' = crashes
      /\ pc \in {"next", "mark", "drop", "delLog"} \cup RollBackStages
  BY DEF SkipDrive, MarkDrive, DropDrivesFile, EndRollBack, RollBackFails, DropFails, Fault
<1>2. ~Creating /\ Home \in Drives /\ pc \notin {"idle", "off"} \cup CallSteps
  BY <1>1, AtHome DEF Creating, CallSteps, RollBackStages
<1>3. CASE RollBackFails
  BY <1>1, <1>2, <1>3, OneLeft DEF RollBackFails
<1>4. client = "committed" => log[Home].leaves = <<>>
  BY DEF OneInv, JournalShape
<1>5. client \in Live /\ rank[Home] = 0 => log[Home].leaves = <<>>
  BY DEF OneInv, JournalShape
<1>6. pc \in {"mark", "drop"} => log[Home].leaves = <<>>
  BY DEF OneInv, LogsGone
<1>t. pc \in RollBackStages \cup FinishSteps => First(todo) = Home
  BY OneTypes DEF IInv, DriveToDo
<1>7. CASE SkipDrive \/ MarkDrive \/ DropDrivesFile
  <2>1. /\ rank' = rank /\ last' = last /\ client' = client /\ all' = all
        /\ pc' \in {"next", "drop"} /\ (pc' = "drop" => pc = "mark")
    BY <1>7 DEF SkipDrive, MarkDrive, DropDrivesFile
  <2>2. \A d \in Drives \ {Home} : drv'[d] = 0
    <3>1. drv' = drv \/ drv' = [d \in Drives |-> 0] \/ drv' = Mentioned(Home)
      BY <1>7, <1>t DEF SkipDrive, MarkDrive, DropDrivesFile, FinishSteps
    <3> QED BY <3>1 DEF OneInv, OthersEmpty, Mentioned, IInv, TypeOK
  <2>3. OthersEmpty'
    BY <1>1, <2>1, <2>2 DEF OneInv, OthersEmpty
  <2>4. CommitCalled' /\ ~Calling'
    BY <2>1 DEF CommitCalled, CommitStages, CallSteps, Calling
  <2> QED BY <1>1, <1>2, <1>4, <1>5, <1>6, <2>1, <2>3, <2>4, OneQuiet
<1>8. CASE EndRollBack \/ (DropFails /\ ~rec)
  <2>1. /\ pc' = "off" /\ rank' = [d \in Drives |-> 0] /\ drv' = drv
        /\ client' = IF rec THEN "rolledBack" ELSE client
        /\ rec => client \in Live
        /\ ~rec => client \notin Live
    BY <1>2, <1>8 DEF EndRollBack, DropFails, Forget, IInv, ClientServed
  <2>2. \A d \in Drives : rank'[d] = 0
    BY <2>1
  <2>3. OthersEmpty' /\ CommitCalled' /\ ~Calling'
    BY <1>1, <2>1, <2>2 DEF OneInv, OthersEmpty, CommitCalled, CommitStages, CallSteps, Calling
  <2>4. client' \notin Live /\ (client = "crashed" => client' = "crashed")
        /\ (client' = "committed" => client = "committed")
    BY <2>1 DEF Live
  <2> QED BY <1>1, <1>2, <1>4, <2>1, <2>2, <2>3, <2>4, OneQuiet
<1>9. CASE DropFails /\ rec
  <2>1. /\ pc' = "idle" /\ client' = "rollbackFailed" /\ rank' = rank /\ last' = last
        /\ all' = all /\ drv' = drv /\ client \in Live
    BY <1>2, <1>9 DEF DropFails, IInv, ClientServed
  <2>2. OthersEmpty' /\ CommitCalled' /\ ~Calling'
    BY <1>1, <2>1 DEF OneInv, OthersEmpty, CommitCalled, CommitStages, Calling
  <2> QED BY <1>1, <1>2, <1>5, <2>1, <2>2, OneQuiet DEF Live
<1> QED BY <1>3, <1>7, <1>8, <1>9

\* The last steps of a commit, and its errors; crashes.
LEMMA OneEnds ==
    ASSUME OneDrive, IInv, UndoInv, OneInv,
           CommitMark \/ CommitDrop \/ CommitFails \/ CommitDropFails \/ Crash
    PROVE  OneInv'
<1> USE DEF durable, memory, control, bounds
<1>1. /\ fs' = fs /\ bak' = bak /\ log' = log /\ promise' = promise
  BY DEF CommitMark, CommitDrop, CommitFails, CommitDropFails, Crash
<1>2. Home \in Drives
  BY AtHome
<1>3. /\ client = "committed" => log[Home].leaves = <<>>
      /\ client \in Live /\ rank[Home] = 0 => log[Home].leaves = <<>>
      /\ pc \in {"cMark", "cDrop"} => log[Home].leaves = <<>>
  BY DEF OneInv, JournalShape, LogsGone
<1>4. CASE CommitMark
  <2>1. /\ rank' = rank /\ last' = last /\ client' = client /\ crashes' = crashes
        /\ pc = "cMark" /\ pc' = "cDrop" /\ drv' = Mentioned(Home)
    <3>1. todo = {Home} /\ First(todo) = Home
      BY <1>4, OneTypes DEF CommitMark, IInv, DriveToDo
    <3> QED BY <1>4, <3>1 DEF CommitMark
  <2>2. OthersEmpty' /\ CommitCalled' /\ ~Calling' /\ ~Creating
    <3>1. \A d \in Drives \ {Home} : drv'[d] = 0
      BY <2>1 DEF OneInv, OthersEmpty, Mentioned, IInv, TypeOK
    <3>2. OthersEmpty'
      BY <1>1, <2>1, <3>1 DEF OneInv, OthersEmpty
    <3> QED BY <2>1, <3>2 DEF OneInv, CommitCalled, CommitStages, CallSteps, Calling, Creating
  <2> QED BY <1>1, <1>3, <2>1, <2>2, OneQuiet
<1>5. CASE CommitDrop
  <2>1. /\ rank' = [d \in Drives |-> 0] /\ client' = "committed" /\ client \in Live
        /\ pc = "cDrop" /\ pc' = "off" /\ drv' \in {drv, [d \in Drives |-> 0]}
    BY <1>5 DEF CommitDrop, Forget, IInv, ClientServed, FinishSteps, RollBackStages
  <2>2. \A d \in Drives : rank'[d] = 0
    BY <2>1
  <2>3. OthersEmpty' /\ CommitCalled' /\ ~Calling' /\ ~Creating
    <3>1. \A d \in Drives \ {Home} : drv'[d] = 0
      BY <2>1 DEF OneInv, OthersEmpty
    <3>2. OthersEmpty'
      BY <1>1, <2>2, <3>1 DEF OneInv, OthersEmpty
    <3> QED BY <2>1, <3>2 DEF CommitCalled, CommitStages, CallSteps, Calling, Creating
  <2> QED BY <1>1, <1>2, <1>3, <2>1, <2>2, <2>3, OneQuiet DEF Live
<1>6. CASE CommitFails
  <2>1. /\ rank' = rank /\ last' = last /\ all' = all /\ drv' = drv /\ crashes' = crashes
        /\ client' = "commitFailed" /\ pc' = "idle" /\ client \in Live
        /\ pc \in CommitStages \cup {"cDelLog", "cMark"}
    BY <1>6 DEF CommitFails, Fault, IInv, ClientServed, FinishSteps, RollBackStages,
                CommitStages
  <2>2. ~Creating /\ ~Calling'
    BY <2>1 DEF Creating, Calling, CommitStages
  <2>3. OthersEmpty' /\ CommitCalled'
    <3>1. JournalFiles' = JournalFiles
      BY <2>1 DEF JournalFiles
    <3>2. CommitCalled'
      BY <1>1, <2>1, <3>1 DEF OneInv, CommitCalled, CommitStages
    <3> QED BY <1>1, <2>1, <3>2 DEF OneInv, OthersEmpty
  <2> QED BY <1>1, <1>3, <2>1, <2>2, <2>3, OneQuiet DEF Live
<1>7. CASE CommitDropFails
  <2>1. /\ rank' = [d \in Drives |-> 0] /\ all' = all /\ drv' = drv /\ crashes' = crashes
        /\ client' = "commitFailed" /\ pc' = "idle" /\ pc = "cDrop" /\ client \in Live
    BY <1>7 DEF CommitDropFails, Fault, IInv, ClientServed, FinishSteps, RollBackStages
  <2>2. JournalFiles' = {} /\ \A d \in Drives : rank'[d] = 0
    BY <2>1 DEF JournalFiles
  <2>3. OthersEmpty' /\ CommitCalled' /\ ~Calling' /\ ~Creating
    BY <1>1, <2>1, <2>2 DEF OneInv, OthersEmpty, CommitCalled, CommitStages, Calling, Creating
  <2> QED BY <1>1, <1>2, <1>3, <2>1, <2>2, <2>3, OneQuiet DEF Live
<1>8. CASE Crash
  <2>1. /\ rank' = [d \in Drives |-> 0] /\ drv' = drv /\ pc' = "off"
        /\ client' = IF client \in {"committed", "rolledBack"} THEN client ELSE "crashed"
        /\ crashes' = crashes + 1 /\ crashes \in Nat /\ crashes' > 0
    BY <1>8 DEF Crash, Forget, IInv, TypeOK
  <2>2. \A d \in Drives : rank'[d] = 0
    BY <2>1
  <2>3. OthersEmpty' /\ CommitCalled' /\ ~Calling'
    BY <1>1, <2>1, <2>2 DEF OneInv, OthersEmpty, CommitCalled, CommitStages, CallSteps, Calling
  <2>4. Creating \/ client = "crashed" => client' = "crashed"
    BY <2>1 DEF Creating, IInv, CallOp, CallSteps
  <2>5. client' \notin Live /\ (client' = "committed" => client = "committed")
    BY <2>1 DEF Live, IInv, TypeOK
  <2> QED BY <1>1, <1>2, <1>3, <2>1, <2>2, <2>3, <2>4, <2>5, OneQuiet
<1> QED BY <1>4, <1>5, <1>6, <1>7, <1>8

\* Recovery loads the journal.
LEMMA OneRecovers ==
    ASSUME OneDrive, IInv, UndoInv, OneInv, Recover
    PROVE  OneInv'
<1> USE DEF durable, memory, control, bounds
<1>1. /\ fs' = fs /\ bak' = bak /\ drv' = drv /\ promise' = promise /\ client' = client
      /\ crashes' = crashes /\ pc = "off" /\ pc' = "next"
  BY DEF Recover
<1>2. Home \in Drives
  BY AtHome
<1>3. /\ \A d \in Drives \ {Home} : rank'[d] = 0 /\ log'[d] = log[d]
      /\ log'[Home] = log[Home] \/ (~log[Home].exists /\ log'[Home] = EmptyLog)
      /\ rank'[Home] > 0 => last'[Home] = log[Home].last
  <2>1. \A d \in Drives : /\ log'[d] = log[d] \/ (~log[d].exists /\ log'[d] = EmptyLog /\ drv[d] # 0)
                          /\ drv[d] = 0 => rank'[d] = 0
                          /\ rank'[d] > 0 => last'[d] = log[d].last
    BY DEF Recover, IInv, TypeOK
  <2> QED BY <1>2, <2>1 DEF OneInv, OthersEmpty
<1>4. log'[Home] = log[Home] \/ (log[Home].leaves = <<>> /\ log'[Home] = EmptyLog)
  BY <1>3 DEF OneInv, JournalShape
<1>5. OthersEmpty'
  BY <1>1, <1>3 DEF OneInv, OthersEmpty
<1>6. CommitCalled' /\ ~Calling' /\ ~Creating
  BY <1>1 DEF CommitCalled, CommitStages, CallSteps, Calling, Creating
<1>7. client \notin Live /\ (client = "committed" => log[Home].leaves = <<>>)
  BY <1>1 DEF IInv, ClientServed, OneInv, JournalShape
<1> QED BY <1>1, <1>3, <1>4, <1>5, <1>6, <1>7, OneQuiet

\* Media come and go.
LEMMA OneStays ==
    ASSUME OneDrive, IInv, UndoInv, OneInv,
           UNCHANGED <<fs, bak, log, drv, memory, control, client, promise, crashes>>
    PROVE  OneInv'
<1> USE DEF memory, control
<1>1. /\ \A t : LeavesOf(Home, t)' = LeavesOf(Home, t)
      /\ \A f \in Files : \A t : Journalled(f, t)' = Journalled(f, t)
      /\ \A f \in Files : Added(f)' = Added(f) /\ Removed(f)' = Removed(f)
                          /\ IsTemp(f)' = IsTemp(f)
  BY LeavesKept
<1>2. OthersEmpty' /\ JournalShape' /\ CallShape' /\ LogsGone'
  BY DEF OneInv, OthersEmpty, JournalShape, CallShape, Calling, LogsGone
<1>3. BackupsOwned' /\ Origins'
  <2>1. BackupsOwned'
    BY <1>1 DEF OneInv, BackupsOwned
  <2> QED BY <1>1, <2>1 DEF OneInv, Origins
<1>4. CallState'
  <2>1. pc \in CallSteps => op.file \in Files
    BY DEF IInv, CallOp
  <2>2. pc \in CallSteps => Added(op.file)' = Added(op.file) /\ Removed(op.file)' = Removed(op.file)
    <3> SUFFICES ASSUME pc \in CallSteps
                 PROVE  Added(op.file)' = Added(op.file) /\ Removed(op.file)' = Removed(op.file)
      OBVIOUS
    <3>1. PICK f \in Files : f = op.file
      BY <2>1
    <3>2. Added(op.file)' = Added(f)' /\ Removed(op.file)' = Removed(f)'
      BY <3>1 DEF Added, Removed, Journalled
    <3> QED BY <1>1, <3>1, <3>2
  <2> QED BY <2>2 DEF OneInv, CallState
<1>5. \A S : Passed(S)' = Passed(S)
  BY DEF Passed
<1>6. \A f \in Files : ToVisit(f)' = ToVisit(f) /\ Orphan(f)' = Orphan(f)
  BY <1>1 DEF ToVisit, Orphan
<1>7. BackupsGone' /\ TempsGone'
  <2>1. BackupsGone'
    BY <1>5 DEF OneInv, BackupsGone
  <2> QED BY <1>1, <1>5, <1>6, <2>1 DEF OneInv, TempsGone
<1>8. NoOriginalLost'
  <2>1. \A f \in Files : LeavesOf(DriveOf[f], ERemovedFile)' = LeavesOf(DriveOf[f], ERemovedFile)
    BY <1>1, AtHome
  <2> QED BY <1>1, <2>1 DEF OneInv, NoOriginalLost
<1>9. Undone'
  <2>1. Orphaned' = Orphaned
    BY <1>6 DEF Orphaned, Creating
  <2> QED BY <1>1, <1>5, <1>6, <2>1 DEF OneInv, Undone
<1>10. Kept' /\ CommitCalled'
  <2>1. Kept'
    BY <1>1, <1>5 DEF OneInv, Kept
  <2>2. JournalFiles' = JournalFiles
    BY DEF JournalFiles
  <2> QED BY <2>1, <2>2 DEF OneInv, CommitCalled, CommitStages
<1> QED BY <1>2, <1>3, <1>4, <1>7, <1>8, <1>9, <1>10 DEF OneInv

\* A stage walks every leaf of its type.
LEMMA WalkCovers ==
    ASSUME OneDrive, NEW stage \in Walking
    PROVE  /\ \A i \in LeavesOf(Home, StageType(stage)) :
                  <<Home, i>> \in StageWalk(stage, {Home})
           /\ \A f \in Files : Journalled(f, StageType(stage)) =>
                  \E w \in StageWalk(stage, {Home}) : log[w[1]].leaves[w[2]].file = f
<1>1. ASSUME NEW i \in LeavesOf(Home, StageType(stage))
      PROVE  <<Home, i>> \in StageWalk(stage, {Home})
  BY LeafInStage
<1>2. ASSUME NEW f \in Files, Journalled(f, StageType(stage))
      PROVE  \E w \in StageWalk(stage, {Home}) : log[w[1]].leaves[w[2]].file = f
  <2>1. PICK i \in LeavesOf(Home, StageType(stage)) : log[Home].leaves[i].file = f
    BY <1>2, AtHome DEF Journalled
  <2>2. <<Home, i>> \in StageWalk(stage, {Home}) /\ <<Home, i>>[1] = Home /\ <<Home, i>>[2] = i
    BY <1>1
  <2> QED BY <2>1, <2>2
<1> QED BY <1>1, <1>2

\* A stage begins: what the stage before it had to do is done.
LEMMA OneStage ==
    ASSUME OneDrive, IInv, UndoInv, OneInv,
           pc \in {"next"} \cup RollBackStages \cup CommitStages,
           pc' \in {"delAdded", "restore", "delBackup", "delTemp", "delLog",
                    "cDelBackup", "cDelTemp", "cDelLog"},
           work' = StageWalk(pc', {Home}),
           fs' = fs, bak' = bak,
           promise' = promise \/ (promise' = Promised /\ promise' # NoPromise),
           client' = client, crashes' = crashes,
           OthersEmpty', JournalShape', CommitCalled',
           log'[Home].leaves = log[Home].leaves,
           ~Passed(RedoEvents)' \/ promise' # NoPromise,
           ~Passed(UndoEvents)' \/ promise' = NoPromise,
           promise' # NoPromise => pc' \notin {"delAdded", "restore"},
           promise' = NoPromise => pc' \notin UndoneStages,
           \A i \in DOMAIN bak[Home] : bak[Home][i] # "none" =>
               pc' \notin AfterBackups /\ ~Passed(BackupsDone)',
           \A f \in Files : IsTemp(f) /\ fs[f] # "none" =>
               pc' \notin {"delLog", "cDelLog"} /\ ~Passed({ETempFilesRemoved})',
           \A f \in Files : promise' = NoPromise /\ Added(f) /\ fs[f] = "new" =>
               /\ pc' \notin {"restore", "delTemp", "delLog"}
               /\ ~Passed({EAddedFilesRemoved, ERemovedFilesRestored, ETempFilesRemoved})',
           \A f \in Files : \A i \in LeavesOf(Home, ERemovedFile) :
              promise' = NoPromise /\ log[Home].leaves[i].file = f /\ fs[f] = "none" /\ ~IsTemp(f) =>
                  /\ pc' \notin {"delTemp", "delLog"}
                  /\ ~Passed({ERemovedFilesRestored, ETempFilesRemoved})'
    PROVE  OneInv'
<1>1. /\ \A t : LeavesOf(Home, t)' = LeavesOf(Home, t)
      /\ \A f \in Files : \A t : Journalled(f, t)' = Journalled(f, t)
      /\ \A f \in Files : Added(f)' = Added(f) /\ Removed(f)' = Removed(f)
                          /\ IsTemp(f)' = IsTemp(f)
  BY LeavesKept
<1>2. PICK stage : stage = pc'
  OBVIOUS
<1>3. stage \notin CallSteps \cup {"idle", "mark", "drop", "cMark", "cDrop"}
  BY <1>2 DEF CallSteps
<1>4. ~Calling' /\ ~Creating' /\ ~Creating
  BY <1>2, <1>3 DEF Calling, Creating, CallSteps, RollBackStages, CommitStages
<1>5. CallShape' /\ LogsGone' /\ CallState'
  <2>1. CallState'
    BY <1>2, <1>3 DEF CallState
  <2>2. CallShape'
    BY <1>4 DEF CallShape
  <2> QED BY <1>2, <1>3, <2>1, <2>2 DEF LogsGone
<1>6. BackupsOwned' /\ Origins'
  <2>1. BackupsOwned'
    BY <1>1 DEF OneInv, BackupsOwned
  <2> QED BY <1>1, <2>1 DEF OneInv, Origins
<1>7. \A f \in Files : \A t : Journalled(f, t) /\ t = StageType(stage) /\ stage \in Walking => ToVisit(f)'
  <2> SUFFICES ASSUME NEW f \in Files, Journalled(f, StageType(stage)), stage \in Walking
               PROVE  ToVisit(f)'
    OBVIOUS
  <2>1. PICK w \in StageWalk(stage, {Home}) : log[w[1]].leaves[w[2]].file = f
    BY WalkCovers
  <2>2. w[1] = Home /\ w \in work'
    BY <1>2, <2>1, StageLeaf
  <2>3. log'[w[1]].leaves[w[2]].file = f
    BY <2>1, <2>2
  <2> QED BY <2>2, <2>3 DEF ToVisit
<1>8. \A i \in LeavesOf(Home, ERemovedFile) :
          stage \in {"restore", "delBackup", "cDelBackup"} => <<Home, i>> \in work'
  BY <1>2, WalkCovers DEF StageType, Walking
<1>9. BackupsGone'
  <2>1. \A i \in DOMAIN bak[Home] : bak[Home][i] # "none" => i \in LeavesOf(Home, ERemovedFile)
    BY DEF OneInv, BackupsOwned
  <2> QED BY <1>2, <1>8, <2>1 DEF BackupsGone
<1>10. TempsGone'
  <2>1. \A f \in Files : IsTemp(f) /\ stage \in {"delTemp", "cDelTemp"} => ToVisit(f)'
    BY <1>7 DEF IsTemp, StageType, Walking
  <2> QED BY <1>1, <1>2, <2>1 DEF TempsGone
<1>11. NoOriginalLost'
  <2>1. \A f \in Files : LeavesOf(DriveOf[f], ERemovedFile)' = LeavesOf(DriveOf[f], ERemovedFile)
                         /\ log'[DriveOf[f]].leaves = log[DriveOf[f]].leaves
    BY <1>1, AtHome
  <2> QED BY <1>1, <2>1 DEF OneInv, NoOriginalLost
<1>12. Undone'
  <2> SUFFICES ASSUME promise' = NoPromise
               PROVE  Undone'
    BY DEF Undone
  <2>1. Orphaned'
    <3>1. \A f \in Files : Orphan(f)' = Orphan(f)
      BY <1>1 DEF Orphan
    <3> QED BY <1>4, <3>1 DEF OneInv, Undone, Orphaned
  <2>2. \A f \in Files : Added(f) /\ stage = "delAdded" => ToVisit(f)'
    BY <1>7 DEF Added, StageType, Walking
  <2>3. \A f \in Files : Added(f)' /\ fs'[f] = "new" =>
              /\ pc' = "delAdded" => ToVisit(f)'
              /\ pc' \notin {"restore", "delTemp", "delLog"}
              /\ ~Passed({EAddedFilesRemoved, ERemovedFilesRestored, ETempFilesRemoved})'
    BY <1>1, <1>2, <2>2
  <2>4. \A f \in Files : \A i \in LeavesOf(Home, ERemovedFile)' :
              log'[Home].leaves[i].file = f /\ fs'[f] = "none" /\ ~IsTemp(f)' =>
                  /\ pc' = "restore" => <<Home, i>> \in work'
                  /\ pc' \notin {"delTemp", "delLog"}
                  /\ ~Passed({ERemovedFilesRestored, ETempFilesRemoved})'
    BY <1>1, <1>2, <1>8
  <2>5. ~Passed(RedoEvents)' /\ pc' \notin UndoneStages
    OBVIOUS
  <2> QED BY <2>1, <2>3, <2>4, <2>5 DEF Undone
<1>13. Kept'
  <2>1. \A f \in Files : promise' # NoPromise =>
            IF IsTemp(f)' THEN promise'[f] = "none" ELSE fs'[f] = promise'[f]
    <3>1. CASE promise' = promise
      BY <1>1, <3>1 DEF OneInv, Kept
    <3>2. CASE promise' = Promised
      BY <1>1, <3>2 DEF Promised, IsTemp
    <3> QED BY <3>1, <3>2
  <2> QED BY <1>2, <1>3, <2>1 DEF Kept
<1> QED BY <1>5, <1>6, <1>9, <1>10, <1>11, <1>12, <1>13 DEF OneInv

\* With one journal, a roll back enters where that journal got to.
LEMMA EntryAlone ==
    ASSUME NEW e \in Events
    PROVE  LET stage == Entry(e, e) IN
           /\ stage \in {"delLog", "delAdded", "restore", "delTemp", "delBackup", "corrupt"}
           /\ stage = "delLog" => e \in {ENone, ETempFilesRemoved}
           /\ stage = "delAdded" => e \in FileEvents
           /\ stage = "restore" => e = EAddedFilesRemoved
           /\ stage = "delTemp" => e \in {ERemovedFilesRestored, EBackupFilesRemoved}
           /\ stage = "delBackup" => e = ECommitted
<1>1. CASE e \in {ENone, ETempFilesRemoved}
  <2>1. Entry(e, e) = "delLog"
    BY <1>1, EventKinds DEF Entry
  <2> QED BY <1>1, <2>1
<1>2. CASE e \notin {ENone, ETempFilesRemoved}
  <2>1. e \in UndoEvents => e \notin RedoEvents
    BY EventKinds
  <2>2. e \in FileEvents => e \notin RedoEvents
    BY EventKinds
  <2>3. e \in RedoEvents => e \in {ECommitted, EBackupFilesRemoved}
    BY EventKinds
  <2> QED BY <1>2, <2>1, <2>2, <2>3 DEF Entry
<1> QED BY <1>1, <1>2

\* RollBackDriveL enters its fall-through.
LEMMA OneEnters ==
    ASSUME OneDrive, IInv, UndoInv, OneInv, RollBackDrive
    PROVE  OneInv'
<1> USE DEF durable, memory, control, bounds
<1> DEFINE stage == Entry(LastEvent, last[Home])
<1>1. todo # {} /\ pc = "next" /\ First(todo) = Home /\ rank[Home] > 0 /\ Home \in Drives
      /\ Home \notin done
  BY OneTypes DEF RollBackDrive
<1>2. LastEvent = last[Home]
  <2>1. JournalFiles \ done = {Home}
    BY <1>1, OneTypes DEF JournalFiles
  <2>2. LastEvent \in {ENone, last[Home]} /\ last[Home] <= LastEvent
    BY <2>1, OneTypes, LastEventIs
  <2>3. last[Home] \in Events /\ \A e \in Events : e <= ENone => e = ENone
    BY OneTypes DEF Events, FileEvents, StageEvents, ENone, ERemovedFile, ETempFile, EAddedFile,
           ECommitted, EBackupFilesRemoved, EAddedFilesRemoved, ERemovedFilesRestored,
           ETempFilesRemoved
  <2> QED BY <2>2, <2>3
<1>3. /\ stage \in {"delLog", "delAdded", "restore", "delTemp", "delBackup", "corrupt"}
      /\ stage = "delLog" => last[Home] \in {ENone, ETempFilesRemoved}
      /\ stage = "delAdded" => last[Home] \in FileEvents
      /\ stage = "restore" => last[Home] = EAddedFilesRemoved
      /\ stage = "delTemp" => last[Home] \in {ERemovedFilesRestored, EBackupFilesRemoved}
      /\ stage = "delBackup" => last[Home] = ECommitted
  BY <1>2, OneTypes, EntryAlone
<1> HIDE DEF stage
<1>4. CASE stage = "corrupt"
  <2>1. LeaveRollBack /\ fs' = fs /\ bak' = bak /\ log' = log /\ drv' = drv
        /\ promise' = promise /\ crashes' = crashes
    BY <1>1, <1>4 DEF RollBackDrive, stage
  <2> QED BY <1>1, <2>1, OneLeft DEF CallSteps
<1>5. CASE stage # "corrupt"
  <2>1. /\ pc' = stage /\ work' = StageWalk(pc', {Home}) /\ rank' = rank /\ last' = last
        /\ all' = all /\ client' = client /\ fs' = fs /\ bak' = bak /\ log' = log
        /\ drv' = drv /\ promise' = promise /\ crashes' = crashes
    BY <1>1, <1>5 DEF RollBackDrive, stage
  <2>2. OthersEmpty' /\ JournalShape'
    <3>1. JournalShape'
      BY <1>3, <2>1 DEF OneInv, JournalShape
    <3> QED BY <2>1, <3>1 DEF OneInv, OthersEmpty
  <2>3. CommitCalled'
    BY <1>3, <1>5, <2>1 DEF CommitCalled, CommitStages, CallSteps
  <2>4. ASSUME NEW S, last[Home] \in S PROVE Passed(S)
    BY <1>1, <2>4 DEF Passed
  <2>5. \A S : Passed(S)' = Passed(S)
    BY <2>1 DEF Passed
  <2>6. last[Home] = ENone => log[Home].leaves = <<>>
    BY <1>1 DEF OneInv, JournalShape
  <2>7. log[Home].leaves = <<>> =>
           (\A t : LeavesOf(Home, t) = {}) /\ \A f \in Files : ~Added(f) /\ ~IsTemp(f)
    BY NoLeaves
  <2>8. /\ last[Home] = ECommitted => Passed(RedoEvents)
        /\ last[Home] = EBackupFilesRemoved => Passed(RedoEvents) /\ Passed(BackupsDone)
        /\ last[Home] \in FileEvents => Passed(UndoEvents)
        /\ last[Home] = EAddedFilesRemoved =>
              /\ Passed(UndoEvents)
              /\ Passed({EAddedFilesRemoved, ERemovedFilesRestored, ETempFilesRemoved})
        /\ last[Home] = ERemovedFilesRestored =>
              /\ Passed(UndoEvents) /\ Passed(BackupsDone)
              /\ Passed({EAddedFilesRemoved, ERemovedFilesRestored, ETempFilesRemoved})
              /\ Passed({ERemovedFilesRestored, ETempFilesRemoved})
        /\ last[Home] = ETempFilesRemoved =>
              /\ Passed({EAddedFilesRemoved, ERemovedFilesRestored, ETempFilesRemoved})
              /\ Passed({ERemovedFilesRestored, ETempFilesRemoved})
              /\ Passed({ETempFilesRemoved}) /\ Passed(BackupsDone)
    <3>1. /\ ECommitted \in RedoEvents /\ EBackupFilesRemoved \in RedoEvents
          /\ FileEvents \subseteq UndoEvents /\ EAddedFilesRemoved \in UndoEvents
          /\ ERemovedFilesRestored \in UndoEvents
          /\ {EBackupFilesRemoved, ERemovedFilesRestored, ETempFilesRemoved} = BackupsDone
      BY EventKinds DEF BackupsDone
    <3> QED BY <2>4, <3>1
  <2>9. \A i \in DOMAIN bak[Home] : bak[Home][i] # "none" =>
            i \in LeavesOf(Home, ERemovedFile) /\ ~Passed(BackupsDone)
    BY DEF OneInv, BackupsOwned, BackupsGone
  <2>10. \A i \in DOMAIN bak[Home] : bak[Home][i] # "none" =>
               pc' \notin AfterBackups /\ ~Passed(BackupsDone)'
    BY <1>3, <1>5, <2>1, <2>5, <2>6, <2>7, <2>8, <2>9 DEF AfterBackups
  <2>11. \A f \in Files : IsTemp(f) /\ fs[f] # "none" =>
               pc' \notin {"delLog", "cDelLog"} /\ ~Passed({ETempFilesRemoved})'
    BY <1>3, <1>5, <2>1, <2>5, <2>6, <2>7, <2>8 DEF OneInv, TempsGone
  <2>12. \A f \in Files : promise = NoPromise /\ Added(f) /\ fs[f] = "new" =>
               /\ pc' \notin {"restore", "delTemp", "delLog"}
               /\ ~Passed({EAddedFilesRemoved, ERemovedFilesRestored, ETempFilesRemoved})'
    BY <1>3, <1>5, <2>1, <2>5, <2>6, <2>7, <2>8 DEF OneInv, Undone
  <2>13. \A f \in Files : \A i \in LeavesOf(Home, ERemovedFile) :
              promise = NoPromise /\ log[Home].leaves[i].file = f /\ fs[f] = "none" /\ ~IsTemp(f) =>
                  /\ pc' \notin {"delTemp", "delLog"}
                  /\ ~Passed({ERemovedFilesRestored, ETempFilesRemoved})'
    BY <1>3, <1>5, <2>1, <2>5, <2>6, <2>7, <2>8 DEF OneInv, Undone
  <2>14. /\ ~Passed(RedoEvents)' \/ promise # NoPromise
         /\ ~Passed(UndoEvents)' \/ promise = NoPromise
         /\ promise # NoPromise => pc' \notin {"delAdded", "restore"}
         /\ promise = NoPromise => pc' \notin UndoneStages
    BY <1>3, <1>5, <2>1, <2>5, <2>8 DEF OneInv, Undone, Kept, UndoneStages
  <2>15. pc' \in {"delAdded", "restore", "delBackup", "delTemp", "delLog",
                  "cDelBackup", "cDelTemp", "cDelLog"} /\ pc' # pc
    BY <1>1, <1>3, <1>5, <2>1
  <2> QED BY <1>1, <2>1, <2>2, <2>3, <2>10, <2>11, <2>12, <2>13, <2>14, <2>15, OneStage
<1> QED BY <1>4, <1>5

\* A stage of a roll back has ended.
LEMMA OneRollEvent ==
    ASSUME OneDrive, IInv, UndoInv, OneInv, WriteRollBackEvent
    PROVE  OneInv'
<1> USE DEF durable, memory, control, bounds
<1>1. PICK ev \in Events :
        /\ \/ pc = "delAdded" /\ ev = EAddedFilesRemoved /\ pc' = "restore"
           \/ pc = "restore" /\ ev = ERemovedFilesRestored /\ pc' = "delTemp"
           \/ pc = "delBackup" /\ ev = EBackupFilesRemoved /\ pc' = "delTemp"
           \/ pc = "delTemp" /\ ev = ETempFilesRemoved /\ pc' = "delLog"
        /\ WriteEvent(First(todo), ev, rec)
  <2>1. RollBackEvent[pc] \in Events
    BY EventKinds DEF WriteRollBackEvent, RollBackStages, RollBackEvent, Events, StageEvents
  <2> QED BY <2>1 DEF WriteRollBackEvent, RollBackStages, RollBackEvent, AfterRollBack
<1>2. First(todo) = Home /\ rank[Home] > 0 /\ Home \in Drives /\ work = {}
  BY OneTypes DEF WriteRollBackEvent, IInv, DriveToDo
<1>3. /\ work' = StageWalk(pc', {Home}) /\ rank' = rank /\ last' = [last EXCEPT ![Home] = ev]
      /\ log' = IF rec THEN [log EXCEPT ![Home] = WithEvent(@, ev)] ELSE log
      /\ all' = all /\ client' = client /\ fs' = fs /\ bak' = bak
      /\ drv' = drv /\ promise' = promise /\ crashes' = crashes
  <2>1. pc' = AfterRollBack[pc] /\ work' = StageWalk(AfterRollBack[pc], {Home})
    BY <1>2 DEF WriteRollBackEvent
  <2> QED BY <1>1, <1>2, <2>1 DEF WriteRollBackEvent, WriteEvent
<1>4. /\ last'[Home] = ev /\ log'[Home].leaves = log[Home].leaves
      /\ log'[Home].exists = log[Home].exists
      /\ log'[Home].last \in {ev, log[Home].last}
      /\ \A d \in Drives \ {Home} : log'[d] = log[d] /\ last'[d] = last[d]
  <2>1. /\ WithEvent(log[Home], ev).leaves = log[Home].leaves
        /\ WithEvent(log[Home], ev).exists = log[Home].exists
        /\ WithEvent(log[Home], ev).last = ev
    BY OneTypes, WithEventType DEF WithEvent, Log
  <2> QED BY <1>2, <1>3, <2>1, OneTypes
<1>5. ASSUME NEW S PROVE Passed(S)' => ev \in S \/ Passed(S)
  BY <1>4 DEF Passed
<1>6. /\ ev # ENone /\ ev \notin FileEvents
      /\ ev = EAddedFilesRemoved => ev \notin BackupsDone /\ ev \notin RedoEvents
            /\ ev \notin {ERemovedFilesRestored, ETempFilesRemoved}
      /\ ev = ERemovedFilesRestored => ev \notin RedoEvents
      /\ ev = ETempFilesRemoved => ev \notin RedoEvents \cup UndoEvents
      /\ ev = EBackupFilesRemoved => ev \notin UndoEvents
            /\ ev \notin {EAddedFilesRemoved, ERemovedFilesRestored, ETempFilesRemoved}
      /\ ev # ETempFilesRemoved => ev \notin {ETempFilesRemoved}
  BY <1>1 DEF RedoEvents, BackupsDone, UndoEvents, FileEvents, ENone, ERemovedFile, ETempFile,
       EAddedFile, ECommitted, EBackupFilesRemoved, EAddedFilesRemoved, ERemovedFilesRestored,
       ETempFilesRemoved
<1>7. OthersEmpty' /\ JournalShape'
  <2>1. OthersEmpty'
    BY <1>3, <1>4 DEF OneInv, OthersEmpty
  <2>2. JournalShape'
    BY <1>1, <1>3, <1>4, <1>6 DEF OneInv, JournalShape
  <2> QED BY <2>1, <2>2
<1>8. CommitCalled'
  BY <1>1 DEF CommitCalled, CommitStages, CallSteps
<1>9. ASSUME NEW i \in DOMAIN bak[Home], bak[Home][i] # "none"
      PROVE  pc' \notin AfterBackups /\ ~Passed(BackupsDone)'
  <2>1. pc = "delAdded" /\ ~Passed(BackupsDone)
    BY <1>1, <1>2, <1>9 DEF OneInv, BackupsGone, AfterBackups
  <2> QED BY <1>1, <1>5, <1>6, <2>1 DEF AfterBackups
<1>10. ASSUME NEW f \in Files, IsTemp(f), fs[f] # "none"
       PROVE  pc' \notin {"delLog", "cDelLog"} /\ ~Passed({ETempFilesRemoved})'
  <2>1. pc # "delTemp" /\ ~Passed({ETempFilesRemoved})
    BY <1>2, <1>10 DEF OneInv, TempsGone, ToVisit
  <2>2. ev # ETempFilesRemoved /\ pc' \notin {"delLog", "cDelLog"}
    BY <1>1, <1>6, <2>1
       DEF EBackupFilesRemoved, EAddedFilesRemoved, ERemovedFilesRestored, ETempFilesRemoved
  <2> QED BY <1>5, <2>1, <2>2
<1>11. ASSUME NEW f \in Files, promise = NoPromise, Added(f), fs[f] = "new" PROVE FALSE
  BY <1>1, <1>2, <1>11 DEF OneInv, Undone, ToVisit, UndoneStages
<1>12. ASSUME NEW f \in Files, NEW i \in LeavesOf(Home, ERemovedFile),
              promise = NoPromise, log[Home].leaves[i].file = f, fs[f] = "none", ~IsTemp(f)
       PROVE  /\ pc' \notin {"delTemp", "delLog"}
              /\ ~Passed({ERemovedFilesRestored, ETempFilesRemoved})'
  <2>1. pc = "delAdded" /\ ~Passed({ERemovedFilesRestored, ETempFilesRemoved})
    BY <1>1, <1>2, <1>12 DEF OneInv, Undone, UndoneStages
  <2> QED BY <1>1, <1>5, <1>6, <2>1
<1>13. /\ ~Passed(RedoEvents)' \/ promise # NoPromise
       /\ ~Passed(UndoEvents)' \/ promise = NoPromise
       /\ promise # NoPromise => pc' \notin {"delAdded", "restore"}
       /\ promise = NoPromise => pc' \notin UndoneStages
  <2>1. CASE promise = NoPromise
    <3>1. ~Passed(RedoEvents) /\ pc # "delBackup"
      BY <2>1 DEF OneInv, Undone, UndoneStages
    <3>2. ev \notin RedoEvents /\ pc' \notin UndoneStages
      BY <1>1, <1>6, <3>1 DEF UndoneStages
    <3> QED BY <1>5, <2>1, <3>1, <3>2
  <2>2. CASE promise # NoPromise
    <3>1. ~Passed(UndoEvents) /\ pc \notin {"delAdded", "restore"}
      BY <2>2 DEF OneInv, Kept
    <3> QED BY <1>1, <1>5, <1>6, <2>2, <3>1
  <2> QED BY <2>1, <2>2
<1>14. pc' # pc /\ pc \in RollBackStages
       /\ pc' \in {"delAdded", "restore", "delBackup", "delTemp", "delLog",
                   "cDelBackup", "cDelTemp", "cDelLog"}
  BY <1>1 DEF RollBackStages
<1> QED BY <1>2, <1>3, <1>4, <1>7, <1>8, <1>9, <1>10, <1>11, <1>12, <1>13, <1>14, OneStage

\* A stage of CommitL has ended: with the first event, what the files are is
\* promised.
LEMMA OneCommitEvent ==
    ASSUME OneDrive, IInv, UndoInv, OneInv, WriteCommitEvent
    PROVE  OneInv'
<1> USE DEF durable, memory, control, bounds
<1>1. todo = {Home} /\ First(todo) = Home /\ rank[Home] > 0 /\ Home \in Drives /\ work = {}
      /\ JournalFiles = {Home}
  BY OneTypes DEF WriteCommitEvent, IInv, DriveToDo
<1>2. PICK ev \in Events :
        /\ \/ pc = "cCommit" /\ ev = ECommitted /\ pc' = "cDelBackup"
           \/ pc = "cDelBackup" /\ ev = EBackupFilesRemoved /\ pc' = "cDelTemp"
           \/ pc = "cDelTemp" /\ ev = ETempFilesRemoved /\ pc' = "cDelLog"
        /\ WriteEvent(Home, ev, TRUE)
        /\ work' = StageWalk(pc', {Home})
  <2>1. /\ pc \in CommitStages /\ WriteEvent(Home, CommitEvent[pc], TRUE)
        /\ pc' = AfterCommit[pc] /\ work' = StageWalk(AfterCommit[pc], {Home})
    <3>1. todo \ {Home} = {}
      BY <1>1
    <3> QED BY <1>1, <3>1 DEF WriteCommitEvent
  <2>2. CommitEvent[pc] \in Events
    BY <2>1, EventKinds DEF CommitStages, CommitEvent, Events, StageEvents
  <2>3. \/ pc = "cCommit" /\ CommitEvent[pc] = ECommitted /\ AfterCommit[pc] = "cDelBackup"
        \/ pc = "cDelBackup" /\ CommitEvent[pc] = EBackupFilesRemoved /\ AfterCommit[pc] = "cDelTemp"
        \/ pc = "cDelTemp" /\ CommitEvent[pc] = ETempFilesRemoved /\ AfterCommit[pc] = "cDelLog"
    BY <2>1 DEF CommitStages, CommitEvent, AfterCommit
  <2> QED BY <2>1, <2>2, <2>3
<1>3. /\ rank' = rank /\ last' = [last EXCEPT ![Home] = ev]
      /\ log' = [log EXCEPT ![Home] = WithEvent(@, ev)]
      /\ all' = all /\ client' = client /\ fs' = fs /\ bak' = bak
      /\ drv' = drv /\ crashes' = crashes
      /\ promise' = IF pc = "cCommit" /\ promise = NoPromise THEN Promised ELSE promise
  BY <1>2 DEF WriteCommitEvent, WriteEvent
<1>4. /\ last'[Home] = ev /\ log'[Home].leaves = log[Home].leaves
      /\ log'[Home].exists = log[Home].exists /\ log'[Home].last = ev
      /\ \A d \in Drives \ {Home} : log'[d] = log[d] /\ last'[d] = last[d]
  <2>1. /\ WithEvent(log[Home], ev).leaves = log[Home].leaves
        /\ WithEvent(log[Home], ev).exists = log[Home].exists
        /\ WithEvent(log[Home], ev).last = ev
    BY OneTypes, WithEventType DEF WithEvent, Log
  <2> QED BY <1>1, <1>3, <2>1, OneTypes
<1>5. ASSUME NEW S PROVE Passed(S)' => ev \in S
  BY <1>4 DEF Passed
<1>6. /\ ev # ENone /\ ev \notin FileEvents /\ ev \notin UndoEvents
      /\ ev = ECommitted => ev \notin BackupsDone
      /\ ev # ETempFilesRemoved => ev \notin {ETempFilesRemoved}
  BY <1>2 DEF RedoEvents, BackupsDone, UndoEvents, FileEvents, ENone, ERemovedFile, ETempFile,
       EAddedFile, ECommitted, EBackupFilesRemoved, EAddedFilesRemoved, ERemovedFilesRestored,
       ETempFilesRemoved
<1>7. promise' # NoPromise /\ (promise' = promise \/ promise' = Promised)
  <2>1. Promised # NoPromise
    <3>1. DOMAIN Promised = Files /\ DOMAIN NoPromise = {}
      BY DEF Promised, NoPromise
    <3> QED BY <3>1 DEF OneDrive
  <2>2. pc # "cCommit" => promise # NoPromise
    BY <1>2 DEF OneInv, Undone, UndoneStages
  <2> QED BY <1>3, <2>1, <2>2
<1>8. OthersEmpty' /\ JournalShape'
  <2>1. OthersEmpty'
    BY <1>3, <1>4 DEF OneInv, OthersEmpty
  <2>2. JournalShape'
    BY <1>1, <1>2, <1>3, <1>4, <1>6 DEF OneInv, JournalShape
  <2> QED BY <2>1, <2>2
<1>9. CommitCalled'
  BY <1>2, <1>3, <1>4 DEF OneInv, CommitCalled, CommitStages, CallSteps
<1>10. ASSUME NEW i \in DOMAIN bak[Home], bak[Home][i] # "none"
      PROVE  pc' \notin AfterBackups /\ ~Passed(BackupsDone)'
  <2>1. pc = "cCommit"
    BY <1>1, <1>2, <1>10 DEF OneInv, BackupsGone, AfterBackups
  <2> QED BY <1>2, <1>5, <1>6, <2>1 DEF AfterBackups
<1>11. ASSUME NEW f \in Files, IsTemp(f), fs[f] # "none"
       PROVE  pc' \notin {"delLog", "cDelLog"} /\ ~Passed({ETempFilesRemoved})'
  <2>1. pc # "cDelTemp"
    BY <1>1, <1>11 DEF OneInv, TempsGone, ToVisit
  <2>2. ev # ETempFilesRemoved /\ pc' \notin {"delLog", "cDelLog"}
    BY <1>2, <2>1 DEF ECommitted, EBackupFilesRemoved, ETempFilesRemoved
  <2> QED BY <1>5, <1>6, <2>1, <2>2
<1>12. ~Passed(UndoEvents)' /\ pc' \notin {"delAdded", "restore"} /\ pc \in CommitStages
       /\ pc' \in {"delAdded", "restore", "delBackup", "delTemp", "delLog",
                   "cDelBackup", "cDelTemp", "cDelLog"}
  BY <1>2, <1>5, <1>6 DEF CommitStages
<1> QED BY <1>2, <1>3, <1>4, <1>7, <1>8, <1>9, <1>10, <1>11, <1>12, OneStage

\* What the walk of a stage comes to next.
LEMMA OneLeaf ==
    ASSUME OneDrive, IInv, UndoInv, OneInv, work # {}
    PROVE  LET w == NextLeaf IN
           /\ w \in work /\ w[1] = Home /\ w = <<Home, w[2]>>
           /\ w[2] \in LeavesOf(Home, StageType(pc)) /\ w[2] \in DOMAIN bak[Home]
           /\ log[w[1]].leaves[w[2]].file \in Files
<1> DEFINE w == NextLeaf
<1>1. w \in work
  BY NextLeafIn DEF IInv, TypeOK
<1> HIDE DEF w
<1>2. /\ w[1] \in Drives /\ w[2] \in LeavesOf(w[1], StageType(pc)) /\ w = <<w[1], w[2]>>
      /\ log[w[1]].leaves[w[2]].file \in Files
      /\ DriveOf[log[w[1]].leaves[w[2]].file] = w[1]
  BY <1>1, LeafWalked
<1>3. w[1] = Home
  BY <1>2, AtHome
<1>4. w[2] \in DOMAIN bak[Home]
  BY <1>2, <1>3, OneTypes DEF LeavesOf
<1> QED BY <1>1, <1>2, <1>3, <1>4 DEF w

\* A walk deletes a backup file.
LEMMA OneBackupDeleted ==
    ASSUME OneDrive, IInv, UndoInv, OneInv, DeleteLeaf, pc \in {"cDelBackup", "delBackup"}
    PROVE  OneInv'
<1> USE DEF durable, memory, control, bounds
<1>1. PICK i \in DOMAIN bak[Home] :
        /\ i \in LeavesOf(Home, ERemovedFile)
        /\ work' = work \ {<<Home, i>>}
        /\ bak' = [bak EXCEPT ![Home][i] = "none"]
  <2>1. work # {}
    BY DEF DeleteLeaf
  <2>2. StageType(pc) = ERemovedFile /\ DeletesBackups
    BY DEF StageType, DeletesBackups
  <2> QED BY <2>1, <2>2, OneLeaf DEF DeleteLeaf
<1>2. /\ fs' = fs /\ log' = log /\ drv' = drv /\ rank' = rank /\ last' = last /\ all' = all
      /\ pc' = pc /\ op' = op /\ client' = client /\ promise' = promise /\ crashes' = crashes
  BY DEF DeleteLeaf, DeletesBackups
<1>3. promise # NoPromise
  BY DEF OneInv, Undone, UndoneStages
<1>4. /\ DOMAIN bak'[Home] = DOMAIN bak[Home]
      /\ \A j \in DOMAIN bak[Home] : bak'[Home][j] = IF j = i THEN "none" ELSE bak[Home][j]
      /\ \A d \in Drives \ {Home} : bak'[d] = bak[d]
  <2>1. "none" \in Contents
    BY DEF Contents
  <2>2. DOMAIN [bak EXCEPT ![Home][i] = "none"][Home] = DOMAIN bak[Home]
    BY <2>1, BackupType, OneTypes
  <2>3. bak'[Home] = [bak[Home] EXCEPT ![i] = "none"]
    BY <1>1, OneTypes
  <2> QED BY <1>1, <2>2, <2>3
<1>5. /\ \A t : LeavesOf(Home, t)' = LeavesOf(Home, t)
      /\ \A f \in Files : \A t : Journalled(f, t)' = Journalled(f, t)
      /\ \A f \in Files : Added(f)' = Added(f) /\ Removed(f)' = Removed(f)
                          /\ IsTemp(f)' = IsTemp(f)
  BY <1>2, LeavesKept
<1>6. \A S : Passed(S)' = Passed(S)
  BY <1>2 DEF Passed
<1>7. OthersEmpty' /\ JournalShape' /\ CallShape' /\ LogsGone' /\ CallState' /\ CommitCalled'
  <2>1. OthersEmpty' /\ JournalShape'
    BY <1>2, <1>4 DEF OneInv, OthersEmpty, JournalShape
  <2>2. CallShape' /\ CallState' /\ LogsGone'
    BY <1>2 DEF CallShape, Calling, CallState, CallSteps, LogsGone
  <2>3. CommitCalled'
    BY <1>2 DEF CommitCalled, CommitStages, CallSteps, OneInv
  <2> QED BY <2>1, <2>2, <2>3
<1>8. BackupsOwned'
  BY <1>2, <1>4, <1>5 DEF OneInv, BackupsOwned
<1>9. Origins'
  BY <1>2, <1>5 DEF OneInv, Origins
<1>10. BackupsGone'
  <2>1. ASSUME NEW j \in DOMAIN bak[Home], bak'[Home][j] # "none"
        PROVE  /\ <<Home, j>> \in work'
               /\ ~Passed(BackupsDone)
    <3>1. j # i /\ bak[Home][j] # "none"
      BY <1>4, <2>1
    <3>2. <<Home, j>> \in work /\ ~Passed(BackupsDone)
      BY <3>1 DEF OneInv, BackupsGone
    <3> QED BY <1>1, <3>1, <3>2
  <2>2. pc \notin AfterBackups
    BY DEF AfterBackups
  <2> QED BY <1>2, <1>4, <1>6, <2>1, <2>2 DEF BackupsGone
<1>11. TempsGone'
  BY <1>2, <1>5, <1>6 DEF OneInv, TempsGone
<1>12. NoOriginalLost' /\ Undone'
  BY <1>2, <1>3 DEF NoOriginalLost, Undone
<1>13. Kept'
  BY <1>2, <1>5, <1>6 DEF OneInv, Kept
<1> QED BY <1>7, <1>8, <1>9, <1>10, <1>11, <1>12, <1>13 DEF OneInv

\* A walk deletes an added or a temporary file.
LEMMA OneFileDeleted ==
    ASSUME OneDrive, IInv, UndoInv, OneInv, DeleteLeaf, pc \in {"delAdded", "delTemp", "cDelTemp"}
    PROVE  OneInv'
<1> USE DEF durable, memory, control, bounds
<1>1. PICK i \in DOMAIN bak[Home], f \in Files :
        /\ i \in LeavesOf(Home, StageType(pc))
        /\ work' = work \ {<<Home, i>>}
        /\ log[Home].leaves[i].file = f
        /\ fs' = [fs EXCEPT ![f] = "none"]
  <2>1. work # {} /\ ~DeletesBackups
    BY DEF DeleteLeaf, DeletesBackups
  <2> QED BY <2>1, OneLeaf DEF DeleteLeaf
<1>2. /\ bak' = bak /\ log' = log /\ drv' = drv /\ rank' = rank /\ last' = last /\ all' = all
      /\ pc' = pc /\ op' = op /\ client' = client /\ promise' = promise /\ crashes' = crashes
  BY DEF DeleteLeaf, DeletesBackups
<1>3. \A g \in Files : fs'[g] = IF g = f THEN "none" ELSE fs[g]
  BY <1>1, OneTypes
<1>4. /\ pc = "delAdded" => Added(f) /\ promise = NoPromise
      /\ pc \in {"delTemp", "cDelTemp"} => IsTemp(f)
  <2>1. DriveOf[f] = Home
    BY AtHome
  <2> QED BY <1>1, <2>1 DEF Added, IsTemp, Journalled, StageType, OneInv, Kept
<1>5. /\ \A t : LeavesOf(Home, t)' = LeavesOf(Home, t)
      /\ \A g \in Files : \A t : Journalled(g, t)' = Journalled(g, t)
      /\ \A g \in Files : Added(g)' = Added(g) /\ Removed(g)' = Removed(g)
                          /\ IsTemp(g)' = IsTemp(g)
  BY <1>2, LeavesKept
<1>6. \A S : Passed(S)' = Passed(S)
  BY <1>2 DEF Passed
<1>7. OthersEmpty' /\ JournalShape' /\ CallShape' /\ LogsGone' /\ CallState' /\ CommitCalled'
  <2>1. OthersEmpty' /\ JournalShape'
    BY <1>2 DEF OneInv, OthersEmpty, JournalShape
  <2>2. CallShape' /\ CallState' /\ LogsGone'
    BY <1>2 DEF CallShape, Calling, CallState, CallSteps, LogsGone
  <2>3. CommitCalled'
    BY <1>2 DEF CommitCalled, CommitStages, CallSteps, OneInv
  <2> QED BY <2>1, <2>2, <2>3
<1>8. BackupsOwned' /\ Origins'
  <2>1. BackupsOwned'
    BY <1>2, <1>5 DEF OneInv, BackupsOwned
  <2> QED BY <1>3, <1>5, <2>1 DEF OneInv, Origins
<1>9. BackupsGone'
  BY <1>2, <1>6 DEF OneInv, BackupsGone
<1>10. \A g \in Files : g # f /\ ToVisit(g) => ToVisit(g)'
  BY <1>1, <1>2 DEF ToVisit
<1>11. TempsGone'
  BY <1>2, <1>3, <1>5, <1>6, <1>10 DEF OneInv, TempsGone
<1>12. NoOriginalLost'
  <2> SUFFICES ASSUME promise = NoPromise, NEW g \in Files, Before[g] = "orig",
                      ~Added(g), ~IsTemp(g)
               PROVE  \/ fs'[g] = "orig"
                      \/ \E j \in LeavesOf(Home, ERemovedFile) :
                            log[Home].leaves[j].file = g /\ bak[Home][j] = "orig"
    BY <1>2, <1>5, AtHome DEF NoOriginalLost, Added, IsTemp
  <2>1. g # f
    BY <1>4
  <2> QED BY <1>3, <2>1, AtHome DEF OneInv, NoOriginalLost, Added, IsTemp
<1>13. Undone'
  <2> SUFFICES ASSUME promise = NoPromise
               PROVE  Undone'
    BY <1>2 DEF Undone
  <2>1. Orphaned'
    <3>1. \A g \in Files : Orphan(g)' => Orphan(g)
      BY <1>3, <1>5 DEF Orphan
    <3> QED BY <1>2, <3>1 DEF OneInv, Undone, Orphaned, Creating
  <2>2. \A g \in Files : Added(g)' /\ fs'[g] = "new" =>
              /\ pc' = "delAdded" => ToVisit(g)'
              /\ pc' \notin {"restore", "delTemp", "delLog"}
              /\ ~Passed({EAddedFilesRemoved, ERemovedFilesRestored, ETempFilesRemoved})'
    BY <1>2, <1>3, <1>5, <1>6, <1>10 DEF OneInv, Undone
  <2>3. ASSUME NEW g \in Files, NEW j \in LeavesOf(Home, ERemovedFile),
               log[Home].leaves[j].file = g, fs'[g] = "none", ~IsTemp(g)
        PROVE  pc # "restore" /\ pc \notin {"delTemp", "delLog"}
               /\ ~Passed({ERemovedFilesRestored, ETempFilesRemoved})
    <3>1. CASE pc = "delAdded"
      <4>1. /\ last[Home] \in FileEvents
            /\ rank[Home] > 0 => log[Home].last \in FileEvents \cup {ENone}
        BY <3>1 DEF OneInv, JournalShape
      <4>2. rank[Home] > 0
        BY <3>1, OneTypes DEF IInv, DriveToDo, RollBackStages
      <4>3. \A e \in FileEvents \cup {ENone} : e \notin {ERemovedFilesRestored, ETempFilesRemoved}
        BY StagesAfterCalls
      <4> QED BY <3>1, <4>1, <4>2, <4>3 DEF Passed
    <3>2. CASE pc # "delAdded"
      <4>1. IsTemp(f) /\ g # f /\ fs[g] = "none"
        BY <1>3, <1>4, <2>3, <3>2
      <4>2. pc \in {"delTemp", "cDelTemp"} /\ pc # "cDelTemp"
        BY <3>2 DEF OneInv, Undone, UndoneStages
      <4> QED BY <2>3, <4>1, <4>2 DEF OneInv, Undone
    <3> QED BY <3>1, <3>2
  <2>4. ~Passed(RedoEvents)' /\ pc' \notin UndoneStages
    BY <1>2, <1>6 DEF OneInv, Undone
  <2>5. \A g \in Files : \A j \in LeavesOf(Home, ERemovedFile)' :
              log'[Home].leaves[j].file = g /\ fs'[g] = "none" /\ ~IsTemp(g)' =>
                  /\ pc' = "restore" => <<Home, j>> \in work'
                  /\ pc' \notin {"delTemp", "delLog"}
                  /\ ~Passed({ERemovedFilesRestored, ETempFilesRemoved})'
    BY <1>2, <1>5, <1>6, <2>3
  <2> QED BY <2>1, <2>2, <2>4, <2>5 DEF Undone
<1>14. Kept'
  <2> SUFFICES ASSUME promise # NoPromise
               PROVE  Kept'
    BY <1>2 DEF Kept
  <2>1. IsTemp(f)
    BY <1>4
  <2>2. \A g \in Files : IF IsTemp(g)' THEN promise'[g] = "none" ELSE fs'[g] = promise'[g]
    BY <1>2, <1>3, <1>5, <2>1 DEF OneInv, Kept
  <2> QED BY <1>2, <1>6, <2>2 DEF OneInv, Kept
<1> QED BY <1>7, <1>8, <1>9, <1>11, <1>12, <1>13, <1>14 DEF OneInv

\* A walk restores a file from its backup, or finds it restored.
LEMMA OneFileRestored ==
    ASSUME OneDrive, IInv, UndoInv, OneInv, pc = "restore",
           NEW i \in DOMAIN bak[Home], NEW f \in Files,
           i \in LeavesOf(Home, ERemovedFile), log[Home].leaves[i].file = f,
           work' = work \ {<<Home, i>>},
           \/ /\ bak[Home][i] # "none" /\ fs' = [fs EXCEPT ![f] = bak[Home][i]]
              /\ bak' = [bak EXCEPT ![Home][i] = "none"]
           \/ bak[Home][i] = "none" /\ fs[f] # "none" /\ fs' = fs /\ bak' = bak,
           log' = log, drv' = drv, rank' = rank, last' = last, all' = all,
           pc' = pc, op' = op, client' = client, promise' = promise, crashes' = crashes
    PROVE  OneInv'
<1>1. promise = NoPromise
  BY DEF OneInv, Kept
<1>2. /\ DOMAIN bak'[Home] = DOMAIN bak[Home]
      /\ \A j \in DOMAIN bak[Home] : bak'[Home][j] = IF j = i THEN "none" ELSE bak[Home][j]
      /\ \A d \in Drives \ {Home} : bak'[d] = bak[d]
  <2>1. CASE bak' = bak /\ bak[Home][i] = "none"
    BY <2>1
  <2>2. CASE bak' = [bak EXCEPT ![Home][i] = "none"]
    <3>1. "none" \in Contents
      BY DEF Contents
    <3>2. DOMAIN [bak EXCEPT ![Home][i] = "none"][Home] = DOMAIN bak[Home]
      BY <3>1, BackupType, OneTypes
    <3>3. bak'[Home] = [bak[Home] EXCEPT ![i] = "none"] /\ \A d \in Drives \ {Home} : bak'[d] = bak[d]
      BY <2>2, OneTypes
    <3> QED BY <2>2, <3>2, <3>3
  <2> QED BY <2>1, <2>2
<1>3. /\ \A g \in Files : g # f => fs'[g] = fs[g]
      /\ fs'[f] # "none"
      /\ fs'[f] = IF bak[Home][i] # "none" THEN bak[Home][i] ELSE fs[f]
  BY OneTypes
<1>4. bak[Home][i] # "none" => \/ fs'[f] = "orig" /\ Before[f] = "orig"
                               \/ fs'[f] = "tmp" /\ IsTemp(f)
  BY <1>3 DEF OneInv, BackupsOwned
<1>5. /\ \A t : LeavesOf(Home, t)' = LeavesOf(Home, t)
      /\ \A g \in Files : \A t : Journalled(g, t)' = Journalled(g, t)
      /\ \A g \in Files : Added(g)' = Added(g) /\ Removed(g)' = Removed(g)
                          /\ IsTemp(g)' = IsTemp(g)
  BY LeavesKept
<1>6. \A S : Passed(S)' = Passed(S)
  BY DEF Passed
<1>7. pc \notin {"idle"} \cup CallSteps \cup CommitStages \cup AfterBackups \cup UndoneStages
                \cup {"delAdded", "delBackup", "cDelBackup", "cDelLog"}
  BY DEF CallSteps, CommitStages, AfterBackups, UndoneStages
<1>8. OthersEmpty' /\ JournalShape' /\ CallShape' /\ LogsGone' /\ CallState' /\ CommitCalled'
  <2>1. OthersEmpty' /\ JournalShape'
    BY <1>2 DEF OneInv, OthersEmpty, JournalShape
  <2>2. CallShape' /\ CallState' /\ LogsGone'
    BY <1>7 DEF CallShape, Calling, CallState, LogsGone
  <2>3. CommitCalled'
    BY <1>7 DEF CommitCalled, CommitStages, CallSteps
  <2> QED BY <2>1, <2>2, <2>3
<1>9. BackupsOwned'
  BY <1>2, <1>5 DEF OneInv, BackupsOwned
<1>10. Origins'
  <2>1. /\ fs'[f] = "orig" => Before[f] = "orig"
        /\ fs'[f] = "tmp" => Before[f] = "none"
    BY <1>3, <1>4 DEF OneInv, Origins
  <2> QED BY <1>3, <1>5, <2>1 DEF OneInv, Origins
<1>11. BackupsGone'
  <2>1. ASSUME NEW j \in DOMAIN bak[Home], bak'[Home][j] # "none"
        PROVE  <<Home, j>> \in work' /\ ~Passed(BackupsDone)
    <3>1. j # i /\ bak[Home][j] # "none"
      BY <1>2, <2>1
    <3>2. <<Home, j>> \in work /\ ~Passed(BackupsDone)
      BY <3>1 DEF OneInv, BackupsGone
    <3> QED BY <3>1, <3>2
  <2> QED BY <1>2, <1>6, <1>7, <2>1 DEF BackupsGone
<1>12. TempsGone'
  <2>1. bak[Home][i] # "none" => ~Passed({ETempFilesRemoved})
    BY DEF OneInv, BackupsGone, Passed, BackupsDone
  <2>2. \A g \in Files : IsTemp(g) /\ fs'[g] # "none" => ~Passed({ETempFilesRemoved})
    BY <1>3, <2>1 DEF OneInv, TempsGone
  <2> QED BY <1>5, <1>6, <2>2 DEF TempsGone
<1>13. NoOriginalLost'
  <2> SUFFICES ASSUME NEW g \in Files, Before[g] = "orig", ~Added(g), ~IsTemp(g)
               PROVE  \/ fs'[g] = "orig"
                      \/ \E j \in LeavesOf(Home, ERemovedFile) :
                            log[Home].leaves[j].file = g /\ bak'[Home][j] = "orig"
    BY <1>5, AtHome DEF NoOriginalLost, Added, IsTemp
  <2>1. \/ fs[g] = "orig"
        \/ \E j \in LeavesOf(Home, ERemovedFile) :
              log[Home].leaves[j].file = g /\ bak[Home][j] = "orig"
    BY <1>1, AtHome DEF OneInv, NoOriginalLost, Added, IsTemp
  <2>2. CASE g # f
    <3>1. ASSUME NEW j \in LeavesOf(Home, ERemovedFile), log[Home].leaves[j].file = g,
                 bak[Home][j] = "orig"
          PROVE  bak'[Home][j] = "orig"
      <4>1. j \in DOMAIN bak[Home] /\ j # i
        BY <2>2, <3>1, OneTypes DEF LeavesOf
      <4> QED BY <1>2, <3>1, <4>1
    <3> QED BY <1>3, <2>1, <2>2, <3>1
  <2>3. CASE g = f
    <3>1. CASE bak[Home][i] # "none"
      BY <1>4, <2>3, <3>1
    <3>2. CASE bak[Home][i] = "none"
      <4>1. bak'[Home] = bak[Home] /\ fs' = fs
        BY <3>2
      <4> QED BY <2>1, <4>1
    <3> QED BY <3>1, <3>2
  <2> QED BY <2>2, <2>3
<1>14. Undone'
  <2>1. Orphaned'
    <3>1. \A g \in Files : Orphan(g)' => Orphan(g)
      BY <1>3, <1>4, <1>5 DEF Orphan
    <3> QED BY <1>1, <3>1 DEF OneInv, Undone, Orphaned, Creating
  <2>2. \A g \in Files : ~(Added(g) /\ fs'[g] = "new")
    BY <1>1, <1>3, <1>4 DEF OneInv, Undone
  <2>3. ~Passed(RedoEvents)
    BY <1>1 DEF OneInv, Undone
  <2>4. ASSUME NEW g \in Files, NEW j \in LeavesOf(Home, ERemovedFile),
               log[Home].leaves[j].file = g, fs'[g] = "none", ~IsTemp(g)
        PROVE  <<Home, j>> \in work' /\ ~Passed({ERemovedFilesRestored, ETempFilesRemoved})
    <3>1. g # f /\ j # i /\ fs[g] = "none"
      BY <1>3, <2>4
    <3> QED BY <1>1, <2>4, <3>1 DEF OneInv, Undone
  <2> QED BY <1>5, <1>6, <1>7, <2>1, <2>2, <2>3, <2>4 DEF Undone
<1>15. Kept'
  BY <1>1 DEF Kept
<1> QED BY <1>8, <1>9, <1>10, <1>11, <1>12, <1>13, <1>14, <1>15 DEF OneInv

\* IntegrityRestoreFileL on a leaf.
LEMMA OneRestores ==
    ASSUME OneDrive, IInv, UndoInv, OneInv, RestoreLeaf
    PROVE  OneInv'
<1> USE DEF durable, memory, control, bounds
<1>1. PICK i \in DOMAIN bak[Home], f \in Files :
        /\ i \in LeavesOf(Home, ERemovedFile) /\ log[Home].leaves[i].file = f
        /\ \/ /\ bak[Home][i] # "none" /\ fs[f] = "none"
              /\ fs' = [fs EXCEPT ![f] = bak[Home][i]]
              /\ bak' = [bak EXCEPT ![Home][i] = "none"]
              /\ work' = work \ {<<Home, i>>}
              /\ UNCHANGED <<memory, pc, op, todo, client>>
           \/ /\ bak[Home][i] = "none" /\ fs[f] # "none"
              /\ work' = work \ {<<Home, i>>}
              /\ UNCHANGED <<fs, bak, memory, pc, op, todo, client>>
           \/ AbandonDrive /\ UNCHANGED <<fs, bak, memory, op, client>>
           \/ LeaveRollBack /\ UNCHANGED <<fs, bak>>
  <2>1. work # {} /\ StageType(pc) = ERemovedFile
    BY Zenon DEF RestoreLeaf, StageType
  <2>2. PICK w : w = NextLeaf
    OBVIOUS
  <2>3. w = <<Home, w[2]>> /\ w[1] = Home /\ w[2] \in LeavesOf(Home, ERemovedFile)
        /\ w[2] \in DOMAIN bak[Home] /\ log[w[1]].leaves[w[2]].file \in Files
    BY <2>1, <2>2, OneLeaf
  <2> QED BY <2>2, <2>3 DEF RestoreLeaf
<1>2. /\ pc = "restore" /\ log' = log /\ drv' = drv /\ promise' = promise /\ crashes' = crashes
  BY Zenon DEF RestoreLeaf
<1>3. pc \notin {"idle", "off"} \cup CallSteps /\ ~Creating
  BY <1>2 DEF CallSteps, Creating
<1>4. CASE AbandonDrive /\ UNCHANGED <<fs, bak, memory, op, client>>
  <2>1. OthersEmpty' /\ CommitCalled' /\ ~Calling'
    BY <1>2, <1>4 DEF AbandonDrive, OneInv, OthersEmpty, CommitCalled, CommitStages, CallSteps, Calling
  <2> QED BY <1>2, <1>3, <1>4, <2>1, OneQuiet DEF AbandonDrive, OneInv, JournalShape
<1>5. CASE LeaveRollBack /\ UNCHANGED <<fs, bak>>
  BY <1>2, <1>3, <1>5, OneLeft
<1> QED BY SMTT(40), <1>1, <1>2, <1>4, <1>5, OneFileRestored

\* The journal is deleted: what it stood for is done.
LEMMA OneLogDeleted ==
    ASSUME OneDrive, IInv, UndoInv, OneInv, pc \in {"delLog", "cDelLog"},
           pc' = IF pc = "delLog" THEN "mark" ELSE "cMark",
           log' = [log EXCEPT ![Home] = NoLog],
           fs' = fs, bak' = bak, drv' = drv, rank' = rank, last' = last, all' = all,
           client' = client, promise' = promise, crashes' = crashes
    PROVE  OneInv'
<1>1. /\ log'[Home] = NoLog /\ \A d \in Drives \ {Home} : log'[d] = log[d]
      /\ log'[Home].leaves = <<>> /\ log'[Home].last = ENone /\ ~log'[Home].exists
  BY OneTypes DEF NoLog
<1>2. /\ \A t : LeavesOf(Home, t)' = {}
      /\ \A f \in Files : \A t : ~Journalled(f, t)'
      /\ \A f \in Files : ~Added(f)' /\ ~Removed(f)' /\ ~IsTemp(f)'
  BY <1>1, LeavesLost
<1>3. ASSUME NEW S, ENone \notin S PROVE Passed(S)' => Passed(S)
  BY <1>1, <1>3 DEF Passed
<1>4. \A i \in DOMAIN bak[Home] : bak[Home][i] = "none"
  BY DEF OneInv, BackupsGone, AfterBackups
<1>5. \A f \in Files : IsTemp(f) => fs[f] = "none"
  BY DEF OneInv, TempsGone
<1>6. promise = NoPromise =>
          /\ pc = "delLog" /\ pc' = "mark"
          /\ \A f \in Files : Added(f) => fs[f] # "new"
          /\ \A f \in Files : Removed(f) /\ ~IsTemp(f) => fs[f] # "none"
  <2> SUFFICES ASSUME promise = NoPromise
               PROVE  /\ pc = "delLog" /\ pc' = "mark"
                      /\ \A f \in Files : Added(f) => fs[f] # "new"
                      /\ \A f \in Files : Removed(f) /\ ~IsTemp(f) => fs[f] # "none"
    OBVIOUS
  <2>1. pc = "delLog"
    BY DEF OneInv, Undone, UndoneStages
  <2>2. \A f \in Files : Added(f) => fs[f] # "new"
    BY <2>1 DEF OneInv, Undone
  <2>3. \A f \in Files : Removed(f) /\ ~IsTemp(f) => fs[f] # "none"
    <3> SUFFICES ASSUME NEW f \in Files, Removed(f), ~IsTemp(f)
                 PROVE  fs[f] # "none"
      OBVIOUS
    <3>1. PICK i \in LeavesOf(Home, ERemovedFile) : log[Home].leaves[i].file = f
      BY AtHome DEF Removed, Journalled
    <3> QED BY <2>1, <3>1 DEF OneInv, Undone
  <2> QED BY <2>1, <2>2, <2>3
<1>7. promise = NoPromise => \A f \in Files : Before[f] = "orig" => fs[f] = "orig"
  <2> SUFFICES ASSUME promise = NoPromise, NEW f \in Files, Before[f] = "orig"
               PROVE  fs[f] = "orig"
    OBVIOUS
  <2>1. ~IsTemp(f) /\ fs[f] # "tmp" /\ (Added(f) => Removed(f))
    BY DEF OneInv, Origins
  <2>2. CASE Added(f)
    <3>1. fs[f] \in Contents
      BY OneTypes
    <3> QED BY <1>6, <2>1, <2>2, <3>1 DEF Contents
  <2>3. CASE ~Added(f)
    <3>1. \/ fs[f] = "orig"
          \/ \E i \in LeavesOf(Home, ERemovedFile) :
                log[Home].leaves[i].file = f /\ bak[Home][i] = "orig"
      BY <2>1, <2>3, AtHome DEF OneInv, NoOriginalLost, Added, IsTemp
    <3>2. \A i \in LeavesOf(Home, ERemovedFile) : i \in DOMAIN bak[Home]
      BY OneTypes DEF LeavesOf
    <3> QED BY <1>4, <3>1, <3>2
  <2> QED BY <2>2, <2>3
<1>8. ~Creating /\ ~Creating' /\ ~Calling' /\ pc' \in {"mark", "cMark"}
  BY DEF Creating, Calling, CallSteps
<1>9. OthersEmpty' /\ JournalShape' /\ CallShape' /\ LogsGone' /\ CallState' /\ CommitCalled'
  <2>1. OthersEmpty'
    BY <1>1 DEF OneInv, OthersEmpty
  <2>2. JournalShape'
    BY <1>1, <1>8 DEF OneInv, JournalShape
  <2>3. CallShape' /\ CallState' /\ LogsGone'
    BY <1>1, <1>8 DEF CallShape, CallState, CallSteps, LogsGone
  <2>4. CommitCalled'
    BY <1>1, <1>8 DEF OneInv, CommitCalled, CommitStages
  <2> QED BY <2>1, <2>2, <2>3, <2>4
<1>10. BackupsOwned' /\ Origins' /\ BackupsGone' /\ TempsGone'
  BY <1>2, <1>4 DEF OneInv, BackupsOwned, Origins, BackupsGone, TempsGone
<1>11. NoOriginalLost'
  BY <1>7 DEF NoOriginalLost
<1>12. Undone'
  <2> SUFFICES ASSUME promise = NoPromise
               PROVE  Undone'
    BY DEF Undone
  <2>1. \A f \in Files : Orphan(f)' => Orphan(f)
    BY <1>2, <1>5, <1>6 DEF Orphan
  <2>2. Orphaned'
    BY <1>8, <2>1 DEF OneInv, Undone, Orphaned
  <2>3. ~Passed(RedoEvents)'
    BY <1>3, StagesAfterCalls DEF OneInv, Undone
  <2> QED BY <1>2, <1>6, <2>2, <2>3 DEF Undone, UndoneStages
<1>13. Kept'
  <2>1. ENone \notin UndoEvents
    BY EventKinds
  <2>2. promise # NoPromise => \A f \in Files : fs[f] = promise[f]
    BY <1>5 DEF OneInv, Kept
  <2> QED BY <1>2, <1>3, <1>8, <2>1, <2>2 DEF OneInv, Kept, CallSteps
<1> QED BY <1>9, <1>10, <1>11, <1>12, <1>13 DEF OneInv

\* FinishRollbackL and DeleteJournalFilesL come to the journal.
LEMMA OneLogGone ==
    ASSUME OneDrive, IInv, UndoInv, OneInv, DeleteLog \/ CommitDeleteLog
    PROVE  OneInv'
<1> USE DEF durable, memory, control, bounds
<1>1. First(todo) = Home /\ pc \in {"delLog", "cDelLog"}
  BY OneTypes DEF DeleteLog, CommitDeleteLog, IInv, DriveToDo, FinishSteps
<1>2. /\ fs' = fs /\ bak' = bak /\ drv' = drv /\ rank' = rank /\ last' = last /\ all' = all
      /\ client' = client /\ promise' = promise /\ crashes' = crashes
  BY DEF DeleteLog, CommitDeleteLog
<1>3. \/ log' = [log EXCEPT ![Home] = NoLog] /\ pc' = IF pc = "delLog" THEN "mark" ELSE "cMark"
      \/ log' = log /\ pc' = "next"
  BY <1>1 DEF DeleteLog, CommitDeleteLog, AbandonDrive
<1>4. CASE log' = log /\ pc' = "next"
  <2>1. OthersEmpty' /\ CommitCalled' /\ ~Calling' /\ ~Creating
    BY <1>1, <1>2, <1>4
       DEF OneInv, OthersEmpty, CommitCalled, CommitStages, CallSteps, Calling, Creating
  <2> QED BY <1>1, <1>2, <1>4, <2>1, OneQuiet DEF OneInv, JournalShape
<1> QED BY <1>1, <1>2, <1>3, <1>4, OneLogDeleted

\* A fresh transaction has not touched a file.
LEMMA OneInit == OneDrive /\ Init => OneInv
<1> SUFFICES ASSUME OneDrive, Init
             PROVE  OneInv
  OBVIOUS
<1>1. Home \in Drives
  BY AtHome
<1>2. /\ log[Home] = NoLog /\ log[Home].leaves = <<>> /\ log[Home].last = ENone
      /\ bak[Home] = <<>> /\ rank[Home] = 0 /\ pc = "idle" /\ client = "open"
      /\ promise = NoPromise /\ fs = Before /\ JournalFiles = {}
  BY <1>1 DEF Init, NoLog, JournalFiles
<1>3. /\ \A t : LeavesOf(Home, t) = {}
      /\ \A f \in Files : ~Added(f) /\ ~Removed(f) /\ ~IsTemp(f)
  BY <1>2, NoLeaves
<1>4. DOMAIN bak[Home] = {}
  BY <1>2
<1>5. \A S : Passed(S) => ENone \in S
  BY <1>2 DEF Passed
<1>6. \A f \in Files : fs[f] \in {"none", "orig"} /\ fs[f] = Before[f]
  BY <1>2, FilesAssumption
<1>7. OthersEmpty /\ JournalShape /\ CallShape
  <2>1. OthersEmpty
    BY DEF Init, OthersEmpty
  <2>2. CallShape
    <3>1. Len(<<>>) = 0
      OBVIOUS
    <3> QED BY <1>2, <3>1 DEF CallShape
  <2> QED BY <1>2, <2>1, <2>2 DEF JournalShape
<1>8. BackupsOwned /\ Origins /\ CallState /\ BackupsGone /\ TempsGone /\ LogsGone
  BY <1>2, <1>3, <1>4, <1>6
     DEF BackupsOwned, Origins, CallState, BackupsGone, TempsGone, LogsGone, CallSteps
<1>9. NoOriginalLost
  BY <1>6 DEF NoOriginalLost
<1>10. Undone
  <2>1. \A f \in Files : ~Orphan(f)
    BY <1>6 DEF Orphan
  <2>2. ~Passed(RedoEvents)
    BY <1>5, EventKinds
  <2> QED BY <1>2, <1>3, <2>1, <2>2 DEF Undone, UndoneStages, Orphaned
<1>11. Kept /\ CommitCalled
  BY <1>2 DEF Kept, CommitCalled, CommitStages, CallSteps
<1> QED BY <1>7, <1>8, <1>9, <1>10, <1>11 DEF OneInv

LEMMA OneStep ==
    ASSUME OneDrive, TempsAreNew, IInv, UndoInv, OneInv, [Next]_vars, IInv', UndoInv'
    PROVE  OneInv'
<1>1. CASE ClientCall \/ \E f \in Files : ClientWrites(f)
  BY <1>1, OneClientCall, OneClientWrites
<1>2. CASE StartCommit \/ CommitRefused \/ StartRollBack
  BY <1>2, OneBegins
<1>3. CASE Recover
  BY <1>3, OneRecovers
<1>4. CASE (\E d \in Drives : Eject(d) \/ Insert(d)) \/ UNCHANGED vars
  BY <1>4, OneStays DEF Eject, Insert, vars, durable, memory, control, bounds
<1>5. CASE WriteCommitEvent
  BY <1>5, OneCommitEvent
<1>6. CASE DeleteLeaf
  BY <1>6, OneBackupDeleted, OneFileDeleted DEF DeleteLeaf
<1>7. CASE RestoreLeaf
  BY <1>7, OneRestores
<1>8. CASE DeleteLog \/ CommitDeleteLog
  BY <1>8, OneLogGone
<1>9. CASE RollBackDrive \/ WriteRollBackEvent
  BY <1>9, OneEnters, OneRollEvent
<1>10. CASE \/ SkipDrive \/ MarkDrive \/ DropDrivesFile \/ EndRollBack
            \/ RollBackFails \/ DropFails
  BY <1>10, OneRollsOn
<1>11. CASE CommitMark \/ CommitDrop \/ CommitFails \/ CommitDropFails \/ Crash
  BY <1>11, OneEnds
<1>12. CASE PrepareToWrite \/ RegisterDrive \/ JournallingFails
  BY <1>12, OnePrepares, OneJournallingFails
<1>13. CASE WriteEntry \/ MoveToBackup
  BY <1>13, OneEntry, OneRemoval
<1>14. CASE CreateOver \/ ActFails
  BY <1>14, OneCreates
<1> QED
  BY <1>1, <1>2, <1>3, <1>4, <1>5, <1>6, <1>7, <1>8, <1>9, <1>10, <1>11, <1>12, <1>13, <1>14
  DEF Next, ServerStep, Failure

\* The invariant that the promises of a transaction on one drive follow from.
THEOREM OneInvariance == OneDrive /\ TempsAreNew => (Spec => []OneInv)
<1> SUFFICES ASSUME OneDrive, TempsAreNew
             PROVE  Spec => []OneInv
  OBVIOUS
<1>1. Init => OneInv
  BY OneInit
<1>2. IInv /\ UndoInv /\ UndoInv' /\ IInv' /\ OneInv /\ [Next]_vars => OneInv'
  BY OneStep
<1> QED BY <1>1, <1>2, UndoInvariance, PTL DEF Spec

\* What a transaction on one drive removes is at its place or in its own backup
\* until CommitL has written ECommitted, whatever crashes and I/O errors occur.
THEOREM OriginalsNotLost == OneDrive /\ TempsAreNew => (Spec => []NoOriginalLost)
<1> SUFFICES ASSUME OneDrive, TempsAreNew
             PROVE  Spec => []NoOriginalLost
  OBVIOUS
<1>1. OneInv => NoOriginalLost
  BY DEF OneInv
<1> QED BY <1>1, OneInvariance, PTL

\* No journal is deleted before the backups that only it can find.
THEOREM BackupsHaveAJournal == OneDrive /\ TempsAreNew => (Spec => []JournalOutlivesBackups)
<1> SUFFICES ASSUME OneDrive, TempsAreNew
             PROVE  Spec => []JournalOutlivesBackups
  OBVIOUS
<1>1. OneInv => JournalOutlivesBackups
  <2> SUFFICES ASSUME OneInv, NEW d \in Drives, NEW i \in DOMAIN bak[d], bak[d][i] # "none"
               PROVE  log[d].exists
    BY DEF JournalOutlivesBackups
  <2>1. d = Home
    BY DEF OneInv, OthersEmpty
  <2>2. log[Home].leaves # <<>>
    BY <2>1, NoLeaves DEF OneInv, BackupsOwned
  <2> QED BY <2>1, <2>2 DEF OneInv, JournalShape
<1> QED BY <1>1, OneInvariance, PTL

\* Settled files of a transaction on one drive are as before it or as promised.
LEMMA SettledFiles ==
    ASSUME OneDrive, IInv, OneInv, log[Home].leaves = <<>>, NEW f \in Files,
           promise = NoPromise => ~Orphan(f)
    PROVE  fs[f] = Outcome[f]
<1>1. ~Added(f) /\ ~Removed(f) /\ ~IsTemp(f)
  BY NoLeaves
<1>2. CASE promise # NoPromise
  BY <1>1, <1>2 DEF OneInv, Kept, Outcome
<1>3. CASE promise = NoPromise
  <2>1. fs[f] \notin {"new", "tmp"} /\ fs[f] \in Contents
    BY <1>1, <1>3 DEF Orphan, IInv, TypeOK
  <2>2. Before[f] = "orig" => fs[f] = "orig"
    BY <1>1, <1>3, MissingKnown
  <2>3. fs[f] = "orig" => Before[f] = "orig"
    BY DEF OneInv, Origins
  <2>4. Before[f] \in {"none", "orig"}
    BY FilesAssumption
  <2> QED BY <1>3, <2>1, <2>2, <2>3, <2>4 DEF Outcome, Contents
<1> QED BY <1>2, <1>3

\* What CommitL or RollBackL reported of a transaction on one drive is true, and
\* no recovery that runs afterwards makes it false.
THEOREM ReportsStayTrue == OneDrive /\ TempsAreNew => (Spec => []AckedOutcome)
<1> SUFFICES ASSUME OneDrive, TempsAreNew
             PROVE  Spec => []AckedOutcome
  OBVIOUS
<1>1. IInv /\ OneInv => AckedOutcome
  <2> SUFFICES ASSUME IInv, OneInv
               PROVE  AckedOutcome
    OBVIOUS
  <2>1. Home \in Drives
    BY AtHome
  <2>2. ASSUME client \in {"committed", "rolledBack"}, log[Home].leaves = <<>>
        PROVE  \A f \in Files : fs[f] = Outcome[f]
    <3>1. ~Creating
      BY <2>2 DEF Creating, IInv, CallOp, CallSteps
    <3>2. promise = NoPromise => \A f \in Files : ~Orphan(f)
      BY <2>2, <3>1 DEF OneInv, Undone, Orphaned
    <3> QED BY <2>2, <3>2, SettledFiles
  <2>3. fs \in [Files -> Contents] /\ Outcome \in [Files -> Contents]
    BY FilesAssumption DEF IInv, TypeOK, Outcome, Contents
  <2>4. client = "committed" => fs = Outcome
    <3>1. client = "committed" => log[Home].leaves = <<>>
      BY DEF OneInv, JournalShape
    <3> QED BY <2>2, <2>3, <3>1
  <2>5. client = "rolledBack" /\ promise = NoPromise /\ NoEntries => fs = Before
    BY <2>1, <2>2, <2>3 DEF NoEntries, Outcome
  <2> QED BY <2>4, <2>5 DEF AckedOutcome
<1> QED BY <1>1, OneInvariance, Invariance, PTL

\* Of a settled transaction on one drive at most one file differs from what it
\* was, or was promised to be, and only when the server crashed.
THEOREM AtMostOneOrphan == OneDrive /\ TempsAreNew => (Spec => []OneOrphanPerCrash)
<1> SUFFICES ASSUME OneDrive, TempsAreNew
             PROVE  Spec => []OneOrphanPerCrash
  OBVIOUS
<1>1. IInv /\ OneInv => OneOrphanPerCrash
  <2> SUFFICES ASSUME IInv, OneInv, Settled
               PROVE  Cardinality({f \in Files : fs[f] # Outcome[f]}) <= crashes
    BY DEF OneOrphanPerCrash
  <2> DEFINE D == {f \in Files : fs[f] # Outcome[f]}
  <2>1. log[Home].leaves = <<>> /\ client # "open"
    BY AtHome DEF Settled, NoEntries, MayCommit
  <2>2. ~Creating
    BY <2>1 DEF Creating, IInv, CallOp, CallSteps
  <2>3. \A f \in D : promise = NoPromise /\ Orphan(f)
    BY <2>1, SettledFiles
  <2>4. \A f, g \in D : f = g /\ crashes > 0
    BY <2>2, <2>3 DEF OneInv, Undone, Orphaned
  <2>5. crashes \in Nat
    BY DEF IInv, TypeOK
  <2>6. CASE D = {}
    <3>1. Cardinality(D) = 0
      BY <2>6, FS_EmptySet
    <3> QED BY <2>5, <3>1
  <2>7. CASE D # {}
    <3>1. PICK f \in D : TRUE
      BY <2>7
    <3>2. D = {f}
      BY <2>4, <3>1
    <3>3. Cardinality(D) = 1
      BY <3>2, FS_Singleton
    <3>4. crashes > 0
      BY <2>4, <3>1
    <3> QED BY <2>5, <3>3, <3>4
  <2> QED BY <2>6, <2>7
<1> QED BY <1>1, OneInvariance, Invariance, PTL

(***************************************************************************)
(* The refinement: a transaction on one drive whose files the client        *)
(* creates itself is an atomic transaction                                  *)
(***************************************************************************)

\* When no call creates a file before it journals it, no file is forgotten.
LEMMA SettledOutcome ==
    ASSUME OneDrive, ~ServerCreates, IInv, OneInv, Settled
    PROVE  fs = Outcome
<1>1. log[Home].leaves = <<>> /\ client # "open"
  BY AtHome DEF Settled, NoEntries, MayCommit
<1>2. ~Creating
  BY <1>1 DEF Creating, IInv, CallOp, CallSteps
<1>3. promise = NoPromise => \A f \in Files : ~Orphan(f)
  BY <1>2 DEF OneInv, Undone, Orphaned
<1>4. \A f \in Files : fs[f] = Outcome[f]
  BY <1>1, <1>3, SettledFiles
<1>5. fs \in [Files -> Contents] /\ Outcome \in [Files -> Contents]
  BY FilesAssumption DEF IInv, TypeOK, Outcome, Contents
<1> QED BY <1>4, <1>5

\* "All operations fail or all operations succeed together" (sts.h), for a
\* transaction on one drive whose client creates the files itself.
THEOREM OneDriveAtomic == OneDrive /\ TempsAreNew /\ ~ServerCreates => (Spec => []Atomic)
<1> SUFFICES ASSUME OneDrive, TempsAreNew, ~ServerCreates
             PROVE  Spec => []Atomic
  OBVIOUS
<1>1. IInv /\ OneInv => Atomic
  BY SettledOutcome DEF Atomic
<1> QED BY <1>1, OneInvariance, Invariance, PTL

\* A promise is made by CommitL, which settles nothing yet, and is never changed.
LEMMA PromiseMade ==
    ASSUME OneDrive, IInv, UndoInv, OneInv, [Next]_vars, promise' # promise
    PROVE  /\ promise = NoPromise /\ promise' \in [Files -> Contents]
           /\ ~Settled /\ ~Settled'
<1>1. WriteCommitEvent
  BY Zenon DEF Next, vars, durable, memory, control, bounds, ClientCall, StartCall, RegisterNew,
         RegisterTemporary, CreateNew, CreateTemporary, Remove, Overwrite, ClientWrites,
         StartCommit, CommitRefused, StartRollBack, ServerStep, PrepareToWrite, RegisterDrive,
         WriteEntry, MoveToBackup, CreateOver, DeleteLeaf, CommitDeleteLog, CommitMark,
         CommitDrop, SkipDrive, RollBackDrive, WriteRollBackEvent, RestoreLeaf, DeleteLog,
         MarkDrive, DropDrivesFile, EndRollBack, Failure, JournallingFails, ActFails,
         CommitFails, CommitDropFails, RollBackFails, DropFails, Crash, Recover, Eject, Insert
<1>2. promise = NoPromise /\ promise' = Promised /\ pc \in CommitStages
  BY <1>1 DEF WriteCommitEvent
<1>3. Promised \in [Files -> Contents]
  BY DEF Promised, IInv, TypeOK, Contents
<1>4. MayCommit
  BY <1>2 DEF OneInv, CommitCalled, CommitStages, MayCommit
<1>5. MayCommit'
  BY <1>1, <1>4 DEF WriteCommitEvent, MayCommit
<1> QED BY <1>2, <1>3, <1>4, <1>5 DEF Settled

\* What is settled stays so: only a call of an open client adds an entry.
LEMMA SettledStays ==
    ASSUME OneDrive, IInv, UndoInv, OneInv, [Next]_vars, OneInv', Settled
    PROVE  Settled'
<1> USE DEF durable, memory, control, bounds
<1>0. ~MayCommit /\ pc \notin CommitStages \cup {"cDelLog", "cMark", "cDrop"}
  BY DEF Settled, MayCommit, OneInv, CommitCalled
<1>1. client # "open" /\ (\A d \in Drives : log[d].leaves = <<>>) /\ pc \notin CallSteps
  BY <1>0 DEF Settled, NoEntries, MayCommit, IInv, CallOp
<1>2. client' = client \/ client' \notin {"open", "commitFailed"}
  BY Zenon, <1>0, <1>1 DEF MayCommit, CommitStages, Next, vars, ClientCall, StartCall, RegisterNew,
         RegisterTemporary, CreateNew, CreateTemporary, Remove, Overwrite, ClientWrites,
         StartCommit, CommitRefused, StartRollBack, ServerStep, PrepareToWrite, RegisterDrive,
         WriteEntry, MoveToBackup, CreateOver, WriteCommitEvent, DeleteLeaf, CommitDeleteLog,
         CommitMark, CommitDrop, SkipDrive, RollBackDrive, LeaveRollBack, Forget,
         WriteRollBackEvent, RestoreLeaf, DeleteLog,
         MarkDrive, DropDrivesFile, EndRollBack, Failure, JournallingFails, ActFails,
         CommitFails, CommitDropFails, RollBackFails, DropFails, Crash, Recover, Eject, Insert
<1>3. log'[Home].leaves = <<>>
  <2>1. log[Home] \in Log /\ Home \in Drives /\ log[Home].leaves = <<>>
    BY <1>1, OneTypes
  <2>2. \A ev : WithEvent(log[Home], ev).leaves = <<>>
    BY <2>1 DEF WithEvent, Log
  <2>3. CASE log' = log
    BY <2>1, <2>3
  <2>4. CASE WriteCommitEvent
    BY <1>0, <2>4 DEF WriteCommitEvent
  <2>5. CASE WriteRollBackEvent
    <3>1. First(todo) = Home
      BY <2>5, OneTypes DEF WriteRollBackEvent, IInv, DriveToDo
    <3>2. log' = log \/ log' = [log EXCEPT ![Home] = WithEvent(@, RollBackEvent[pc])]
      BY <2>5, <3>1 DEF WriteRollBackEvent, WriteEvent
    <3> QED BY <2>1, <2>2, <3>2, OneTypes
  <2>6. CASE DeleteLog \/ CommitDeleteLog
    <3>1. log' = log \/ log' = [log EXCEPT ![First(todo)] = NoLog]
      BY <2>6 DEF DeleteLog, CommitDeleteLog
    <3>2. NoLog.leaves = <<>>
      BY DEF NoLog
    <3> QED BY <2>1, <3>1, <3>2, OneTypes
  <2>7. CASE Recover
    <3>1. log'[Home] \in {log[Home], EmptyLog}
      BY <2>1, <2>7 DEF Recover
    <3> QED BY <2>1, <3>1 DEF EmptyLog, NoLog
  <2> QED BY Zenon, <1>1, <2>3, <2>4, <2>5, <2>6, <2>7
      DEF Next, vars, ClientCall, StartCall, RegisterNew, RegisterTemporary, CreateNew,
          CreateTemporary, Remove, Overwrite, ClientWrites, StartCommit, CommitRefused,
          StartRollBack, ServerStep, PrepareToWrite, RegisterDrive, WriteEntry, MoveToBackup,
          CreateOver, DeleteLeaf, CommitMark, CommitDrop, SkipDrive, RollBackDrive,
          RestoreLeaf, MarkDrive, DropDrivesFile, EndRollBack, Failure, JournallingFails,
          ActFails, CommitFails, CommitDropFails, RollBackFails, DropFails, Crash, Eject,
          Insert, CallSteps
<1>4. \A d \in Drives \ {Home} : log'[d].leaves = <<>>
  BY DEF OneInv, OthersEmpty, NoLog
<1> QED BY <1>0, <1>2, <1>3, <1>4 DEF Settled, NoEntries, MayCommit

\* Every step of the engine decides the abstract transaction, settles it, or
\* is none of its business.
THEOREM OneDriveRefines ==
    OneDrive /\ TempsAreNew /\ ~ServerCreates =>
        (Spec => AbstractTransaction!Init /\ [][AbstractTransaction!Next]_(AbstractTransaction!vars))
<1> SUFFICES ASSUME OneDrive, TempsAreNew, ~ServerCreates
             PROVE  Spec => /\ AbstractTransaction!Init
                            /\ [][AbstractTransaction!Next]_(AbstractTransaction!vars)
  OBVIOUS
<1>1. Init => AbstractTransaction!Init
  BY DEF Init, AbstractTransaction!Init, Settled, MayCommit
<1>a. IInv /\ OneInv => (Settled => fs = Outcome)
  BY SettledOutcome
<1>2. ASSUME IInv, UndoInv, OneInv, [Next]_vars, IInv', OneInv'
      PROVE  [AbstractTransaction!Next]_(AbstractTransaction!vars)
  <2>1. /\ Settled => fs = Outcome
        /\ Settled' => fs' = Outcome'
    <3>1. Settled => fs = Outcome
      BY <1>a, <1>2
    <3>2. (IInv /\ OneInv => (Settled => fs = Outcome))'
      BY <1>a, PTL
    <3> QED BY <1>2, <3>1, <3>2
  <2>2. CASE promise' # promise
    <3>1. AbstractTransaction!Decide
      BY <1>2, <2>2, PromiseMade DEF AbstractTransaction!Decide
    <3> QED BY <3>1 DEF AbstractTransaction!Next
  <2>3. CASE promise' = promise /\ Settled
    <3>1. Settled' /\ fs' = fs
      BY <1>2, <2>1, <2>3, SettledStays DEF Outcome
    <3> QED BY <2>3, <3>1 DEF AbstractTransaction!vars
  <2>4. CASE promise' = promise /\ ~Settled
    <3>1. CASE Settled'
      BY <2>1, <2>4, <3>1 DEF AbstractTransaction!Next, AbstractTransaction!Settle, Outcome
    <3>2. CASE ~Settled'
      BY <2>4, <3>2 DEF AbstractTransaction!vars
    <3> QED BY <3>1, <3>2
  <2> QED BY <2>2, <2>3, <2>4
<1> QED BY <1>1, <1>2, OneInvariance, UndoInvariance, PTL DEF Spec
===============================================================================
