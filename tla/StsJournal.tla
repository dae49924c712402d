------------------------------ MODULE StsJournal ------------------------------
(***************************************************************************)
(* The transaction engine of the Software Transaction Server (STS):        *)
(* CIntegrityServices over CJournal, one CJournalFile per drive, the file   *)
(* of drives, and the recovery that runs when the server starts.            *)
(*                                                                          *)
(* One transaction is followed from its creation until its journals are     *)
(* gone.  Every I/O the code performs is one step, so that a crash (of the  *)
(* device or of the server process) can fall between any two of them.       *)
(*                                                                          *)
(* What is abstracted:                                                      *)
(*  - file contents are one of none, orig, new, tmp; directories, their     *)
(*    pruning and the detour of binaries through \sys\bin are left out;     *)
(*  - CIntegrityTree is the sequence of leaves of its journal, walked in    *)
(*    the order of insertion (one directory per drive);                     *)
(*  - one journal entry is written in one step.  A torn entry is an absent  *)
(*    one: ReadL stops at end of file.  A write that fails (an entry in      *)
(*    JournallingFails, an event in CommitFails and RollBackFails) leaves    *)
(*    nothing in the file, and the node that CIntegrityTree may keep of the  *)
(*    entry is left out: a removal's node can stop the client's own roll     *)
(*    back at its drive, as that of a rename that failed does (ActFails).    *)
(*                                                                          *)
(* The numbers of drives are their TDriveUnit values: iAllDrives is kept in *)
(* that order, iJournalFiles in the order of first use until a restart.     *)
(***************************************************************************)
EXTENDS Naturals, Sequences, FiniteSets

CONSTANTS
    Drives,         \* the drives files may live on
    Files,          \* the file names clients use
    DriveOf,        \* the drive of each file name
    Before,         \* the content of each file before the transaction
    Removable,      \* drives whose medium may be taken out
    Calls,          \* <<call, file>>: what the client does with each name
    RetryCommit,    \* does a client call CommitL again after it failed?
    MaxCalls,       \* bound: client calls
    MaxCrashes,     \* bound: crashes
    MaxFaults,      \* bound: I/O errors
    MaxEjects,      \* bound: media taken out
    MaxMishaps      \* bound: crashes, I/O errors and media taken out, in all

Contents == {"none", "orig", "new", "tmp"}

AllCalls == {"RegisterNew", "CreateNew", "Remove", "RegisterTemporary",
             "CreateTemporary", "Overwrite"}

ASSUME DrivesAssumption == Drives \subseteq Nat \ {0} /\ IsFiniteSet(Drives)
ASSUME FilesAssumption  == /\ DriveOf \in [Files -> Drives]
                           /\ Before \in [Files -> {"none", "orig"}]
ASSUME MiscAssumption   == /\ Removable \subseteq Drives
                           /\ Calls \subseteq AllCalls \X Files
                           /\ RetryCommit \in BOOLEAN
                           /\ {MaxCalls, MaxCrashes, MaxFaults, MaxEjects,
                             MaxMishaps} \subseteq Nat

(***************************************************************************)
(* TIntegrityServicesEvent: the order of the values matters, LastEventL     *)
(* takes a maximum.  (EBackupFile, 2, never ends a journal.)                *)
(***************************************************************************)
ENone                 == 0
ERemovedFile          == 1
ETempFile             == 3
EAddedFile            == 4
ECommitted            == 5
EBackupFilesRemoved   == 6
EAddedFilesRemoved    == 7
ERemovedFilesRestored == 8
ETempFilesRemoved     == 9

FileEvents  == {ERemovedFile, ETempFile, EAddedFile}
StageEvents == {ECommitted, EBackupFilesRemoved, EAddedFilesRemoved,
                ERemovedFilesRestored, ETempFilesRemoved}
Events      == {ENone} \cup FileEvents \cup StageEvents

VARIABLES
    \* durable
    fs,         \* content of each file
    bak,        \* per drive, content of the backup file of each journal leaf
    log,        \* per drive, the journal file
    drv,        \* mentions of each drive in the .drv file
    present,    \* drives whose medium is present
    \* CJournal, in memory
    rank,       \* position of a drive in iJournalFiles, 0 when it is not in it
    last,       \* CJournalFile::iLastEvent
    all,        \* iAllDrives
    done,       \* iCompletedDrives
    \* the call in progress
    pc,         \* where the server is in it
    op,         \* the client call and its file
    rec,        \* aRecordAllRollbackEvents
    todo,       \* drives the loop over iJournalFiles has still to visit
    work,       \* <<drive, leaf>> pairs the tree walk has still to visit
    \* the client, and what was promised to it
    client,     \* what the client knows of the outcome
    promise,    \* files as they must be once committed, <<>> before that
    \* bounds
    calls, crashes, faults, ejects

durable == <<fs, bak, log, drv, present>>
memory  == <<rank, last, all, done>>
control == <<pc, op, rec, todo, work>>
bounds  == <<calls, crashes, faults, ejects>>
vars    == <<durable, memory, control, client, promise, bounds>>

NoPromise == <<>>
NoOp      == [kind |-> "none", file |-> "none"]
NoLog     == [exists |-> FALSE, leaves |-> <<>>, last |-> ENone, ok |-> TRUE]
EmptyLog  == [NoLog EXCEPT !.exists = TRUE]

Leaf == [type : FileEvents, file : Files]
Log  == [exists : BOOLEAN, leaves : Seq(Leaf), last : Events, ok : BOOLEAN]

\* The stages of a rollback of one drive, and of a commit, by what they walk.
RollBackStages == {"delAdded", "restore", "delBackup", "delTemp"}
CommitStages   == {"cCommit", "cDelBackup", "cDelTemp"}
CallSteps      == {"create", "prepare", "register", "journal", "act"}
FinishSteps    == {"delLog", "mark", "drop"}
CommitFinish   == {"cDelLog", "cMark", "cDrop"}
Labels == {"idle", "off", "next"} \cup RollBackStages \cup CommitStages
              \cup CallSteps \cup FinishSteps \cup CommitFinish

Init ==
    /\ fs = Before
    /\ bak = [d \in Drives |-> <<>>]
    /\ log = [d \in Drives |-> NoLog]
    /\ drv = [d \in Drives |-> 0]
    /\ present = Drives
    /\ rank = [d \in Drives |-> 0]
    /\ last = [d \in Drives |-> ENone]
    /\ all = {} /\ done = {}
    /\ pc = "idle" /\ op = NoOp /\ rec = TRUE /\ todo = {} /\ work = {}
    /\ client = "open" /\ promise = NoPromise
    /\ calls = 0 /\ crashes = 0 /\ faults = 0 /\ ejects = 0

-------------------------------------------------------------------------------
(***************************************************************************)
(* Journals                                                                 *)
(***************************************************************************)

\* iJournalFiles, and its first member among the drives of S.
JournalFiles == {d \in Drives : rank[d] > 0}
First(S)     == CHOOSE d \in S : \A e \in S : rank[d] <= rank[e]

LeavesOf(d, type) == {i \in DOMAIN log[d].leaves : log[d].leaves[i].type = type}

\* CIntegrityTree::FindNode on the tree of the file's own drive.
Journalled(f, type) ==
    \E i \in LeavesOf(DriveOf[f], type) : log[DriveOf[f]].leaves[i].file = f

\* What a walk filtered by type visits on the drives of S.
Walk(S, type) == UNION {{d} \X LeavesOf(d, type) : d \in S}

\* The leaf the walk comes to next: of the first drive, the first leaf.
NextLeaf == LET d == First({w[1] : w \in work}) IN
            CHOOSE w \in work : /\ w[1] = d
                                /\ \A v \in work : v[1] = d => w[2] <= v[2]

\* ReadEntryL's tests: may an entry ev follow the entry prev?
Readable(prev, ev) ==
    \/ ev \in FileEvents          /\ prev \in FileEvents \cup {ENone}
    \/ ev = ECommitted            /\ prev \in FileEvents
    \/ ev = EBackupFilesRemoved   /\ prev = ECommitted
    \/ ev = EAddedFilesRemoved    /\ prev \in FileEvents \cup {ECommitted}
    \/ ev = ERemovedFilesRestored /\ prev = EAddedFilesRemoved
    \/ ev = ETempFilesRemoved     /\ prev \in {EBackupFilesRemoved, ERemovedFilesRestored}

\* A journal with the entry ev appended; ok says ReadL still accepts it.
WithEvent(j, ev) == [j EXCEPT !.last = ev, !.ok = @ /\ Readable(j.last, ev)]
WithLeaf(j, type, f) ==
    [WithEvent(j, type) EXCEPT !.leaves = Append(@, [type |-> type, file |-> f])]

\* Mutant: the flag aSerializeEventToJournal taken the wrong way round.
WriteEventInverted(d, ev, serialize) ==
    /\ log' = IF serialize THEN log ELSE [log EXCEPT ![d] = WithEvent(@, ev)]
    /\ last' = [last EXCEPT ![d] = ev]

\* EventL: iLastEvent always, the journal file only when asked to.
WriteEvent(d, ev, serialize) ==
    /\ log' = IF serialize THEN [log EXCEPT ![d] = WithEvent(@, ev)] ELSE log
    /\ last' = [last EXCEPT ![d] = ev]

\* LastEventL(): the highest last event of the journals not completed.
LastEvent == LET open == {last[d] : d \in JournalFiles \ done} \cup {ENone}
             IN  CHOOSE e \in open : \A x \in open : x <= e

\* Mutants: the drive is written twice; the file is replaced, not appended to.
MentionedTwice(d) == [drv EXCEPT ![d] = @ + 2]
MentionedAlone(d) == [e \in Drives |-> IF e = d THEN 1 ELSE 0]

\* UpdateDrivesFileL: one more mention (a third says nothing new).
Mentioned(d) == [drv EXCEPT ![d] = IF @ < 2 THEN @ + 1 ELSE 2]

\* The CIntegrityServices object is destroyed.
Forget == /\ rank' = [d \in Drives |-> 0]
          /\ last' = [d \in Drives |-> ENone]
          /\ all' = {} /\ done' = {} /\ todo' = {} /\ work' = {} /\ op' = NoOp

Mishap == crashes + faults + ejects < MaxMishaps

Fault == Mishap /\ faults < MaxFaults /\ faults' = faults + 1

-------------------------------------------------------------------------------
(***************************************************************************)
(* The calls of the client                                                  *)
(***************************************************************************)

StartCall(kind, f) ==
    /\ pc = "idle" /\ client = "open" /\ <<kind, f>> \in Calls
    /\ calls < MaxCalls /\ calls' = calls + 1
    /\ DriveOf[f] \in present
    /\ pc' = "prepare"
    /\ UNCHANGED <<bak, log, drv, present, memory, rec, todo, work, client,
                   promise, crashes, faults, ejects>>

\* RegisterNewL and RegisterTemporaryL only journal; the client creates the
\* file afterwards (ClientWrites).
RegisterNew(f) ==
    /\ StartCall("RegisterNew", f) /\ fs[f] = "none"
    /\ op' = [kind |-> "RegisterNew", file |-> f] /\ UNCHANGED fs

RegisterTemporary(f) ==
    /\ StartCall("RegisterTemporary", f) /\ fs[f] = "none"
    /\ op' = [kind |-> "RegisterTemporary", file |-> f] /\ UNCHANGED fs

\* CreateNewL and CreateTemporaryL create the file first and journal it next.
CreateNew(f) ==
    /\ StartCall("CreateNew", f) /\ fs[f] = "none"
    /\ op' = [kind |-> "CreateNew", file |-> f]
    /\ fs' = [fs EXCEPT ![f] = "new"]

CreateTemporary(f) ==
    /\ StartCall("CreateTemporary", f) /\ fs[f] = "none"
    /\ op' = [kind |-> "CreateTemporary", file |-> f]
    /\ fs' = [fs EXCEPT ![f] = "tmp"]

\* RemoveL does nothing when the file is missing.
Remove(f) ==
    /\ StartCall("Remove", f) /\ fs[f] # "none"
    /\ op' = [kind |-> "Remove", file |-> f] /\ UNCHANGED fs

\* OverwriteL removes a file that exists and then is CreateNewL.
Overwrite(f) ==
    /\ StartCall("Overwrite", f)
    /\ IF fs[f] # "none"
       THEN op' = [kind |-> "Overwrite", file |-> f] /\ UNCHANGED fs
       ELSE op' = [kind |-> "CreateNew", file |-> f] /\ fs' = [fs EXCEPT ![f] = "new"]

\* The client's own write of a file it registered before.
ClientWrites(f) ==
    /\ pc = "idle" /\ client = "open" /\ fs[f] = "none" /\ DriveOf[f] \in present
    /\ \/ /\ <<"RegisterNew", f>> \in Calls /\ Journalled(f, EAddedFile)
          /\ fs' = [fs EXCEPT ![f] = "new"]
       \/ /\ <<"RegisterTemporary", f>> \in Calls /\ Journalled(f, ETempFile)
          /\ fs' = [fs EXCEPT ![f] = "tmp"]
    /\ UNCHANGED <<bak, log, drv, present, memory, control, client, promise, bounds>>

\* PrepareToWriteL: the journal file of the drive is created on first use ...
PrepareToWrite ==
    LET d == DriveOf[op.file] IN
    /\ pc = "prepare"
    /\ IF rank[d] # 0
       THEN pc' = "journal" /\ UNCHANGED <<log, rank, last>>
       ELSE /\ log' = [log EXCEPT ![d] = EmptyLog]
            /\ rank' = [rank EXCEPT ![d] = Cardinality(JournalFiles) + 1]
            /\ last' = [last EXCEPT ![d] = ENone]
            /\ pc' = "register"
    /\ UNCHANGED <<fs, bak, drv, present, all, done, op, rec, todo, work,
                   client, promise, bounds>>

\* ... and the drive is mentioned in the .drv file after that.
RegisterDrive ==
    LET d == DriveOf[op.file] IN
    /\ pc = "register" /\ pc' = "journal"
    /\ drv' = Mentioned(d) /\ all' = all \cup {d}
    /\ UNCHANGED <<fs, bak, log, present, rank, last, done, op, rec, todo, work,
                   client, promise, bounds>>

\* The removal of a file added by this journal is not journalled.
Unjournalled == op.kind \in {"Remove", "Overwrite"} /\ Journalled(op.file, EAddedFile)

\* AddL, TemporaryL, RemoveL of CJournalFile: write the entry.
WriteEntry ==
    LET f == op.file
        d == DriveOf[f]
        AddEntry(type) == /\ log' = [log EXCEPT ![d] = WithLeaf(@, type, f)]
                          /\ bak' = [bak EXCEPT ![d] = Append(@, "none")]
                          /\ last' = [last EXCEPT ![d] = type]
    IN
    /\ pc = "journal"
    /\ \/ /\ op.kind \in {"RegisterNew", "CreateNew"}
          /\ AddEntry(EAddedFile) /\ pc' = "idle" /\ op' = NoOp
       \/ /\ op.kind \in {"RegisterTemporary", "CreateTemporary"}
          /\ AddEntry(ETempFile) /\ pc' = "idle" /\ op' = NoOp
       \/ /\ op.kind \in {"Remove", "Overwrite"}
          /\ IF Unjournalled THEN UNCHANGED <<log, bak, last>>
                             ELSE AddEntry(ERemovedFile)
          /\ pc' = "act" /\ UNCHANGED op
    /\ UNCHANGED <<fs, drv, present, rank, all, done, rec, todo, work, client,
                   promise, bounds>>

\* The journal file cannot be created, UpdateDrivesFileL leaves, or the entry
\* cannot be written.  A file created by the call is deleted again
\* (ProcessNewFileRegistrationResultL); the journal stays in iJournalFiles.
JournallingFails ==
    /\ \/ pc = "prepare" /\ rank[DriveOf[op.file]] = 0
       \/ pc = "register"
       \/ pc = "journal" /\ ~Unjournalled
    /\ pc' = "idle" /\ op' = NoOp /\ Fault
    /\ fs' = IF op.kind \in {"CreateNew", "CreateTemporary"}
             THEN [fs EXCEPT ![op.file] = "none"] ELSE fs
    /\ UNCHANGED <<bak, log, drv, present, memory, rec, todo, work, client,
                   promise, calls, crashes, ejects>>

\* RemoveL: move the file to its backup, or delete one added earlier.
MoveToBackup ==
    LET f == op.file
        d == DriveOf[f]
    IN
    /\ pc = "act"
    /\ fs' = [fs EXCEPT ![f] = "none"]
    /\ bak' = IF Journalled(f, EAddedFile) THEN bak
              ELSE [bak EXCEPT ![d][Len(bak[d])] = fs[f]]
    /\ IF op.kind = "Overwrite" THEN pc' = "create" /\ UNCHANGED op
                                ELSE pc' = "idle" /\ op' = NoOp
    /\ UNCHANGED <<log, drv, present, memory, rec, todo, work, client, promise, bounds>>

\* OverwriteL goes on with CreateNewL.
CreateOver ==
    /\ pc = "create" /\ pc' = "prepare"
    /\ fs' = [fs EXCEPT ![op.file] = "new"]
    /\ op' = [op EXCEPT !.kind = "CreateNew"]
    /\ UNCHANGED <<bak, log, drv, present, memory, rec, todo, work, client, promise, bounds>>

\* The rename, or the creation, fails: the file is in use, the disk is full.
ActFails ==
    /\ pc \in {"act", "create"} /\ pc' = "idle" /\ op' = NoOp /\ Fault
    /\ UNCHANGED <<fs, bak, log, drv, present, memory, rec, todo, work, client,
                   promise, calls, crashes, ejects>>

-------------------------------------------------------------------------------
(***************************************************************************)
(* CommitL: each stage walks every journal, then writes its event to every  *)
(* journal.                                                                  *)
(***************************************************************************)

\* Mutant: the last two events of a commit swapped.
CommitEventSwapped == [cCommit    |-> ECommitted,
                       cDelBackup |-> ETempFilesRemoved,
                       cDelTemp   |-> EBackupFilesRemoved]

CommitEvent == [cCommit    |-> ECommitted,
                cDelBackup |-> EBackupFilesRemoved,
                cDelTemp   |-> ETempFilesRemoved]
AfterCommit == [cCommit    |-> "cDelBackup",
                cDelBackup |-> "cDelTemp",
                cDelTemp   |-> "cDelLog"]

\* Mutant: a rollback leaves the added files where they are.
StageWalkKeepsAdded(stage, S) ==
    CASE stage \in {"delBackup", "cDelBackup", "restore"} -> Walk(S, ERemovedFile)
      [] stage \in {"delTemp", "cDelTemp"}                -> Walk(S, ETempFile)
      [] OTHER                                            -> {}

\* The leaves that the walk opening a stage deletes (a removal's leaf stands
\* for its peer, the backup file).
StageWalk(stage, S) ==
    CASE stage = "delAdded"                   -> Walk(S, EAddedFile)
      [] stage \in {"delBackup", "cDelBackup",
                    "restore"}                -> Walk(S, ERemovedFile)
      [] stage \in {"delTemp", "cDelTemp"}    -> Walk(S, ETempFile)
      [] OTHER                                -> {}

\* What the client will find once its transaction is committed.
Promised == [f \in Files |-> IF Journalled(f, ETempFile) THEN "none" ELSE fs[f]]

MayCommit == client = "open" \/ (RetryCommit /\ client = "commitFailed")

\* StartCommitL's conditions, and journals that can still be written to.
CommitReady == /\ Cardinality(JournalFiles) = Cardinality(all)
               /\ done = {}
               /\ JournalFiles \subseteq present
               /\ \A d \in JournalFiles : log[d].exists

StartCommit ==
    /\ pc = "idle" /\ MayCommit /\ CommitReady
    /\ pc' = IF JournalFiles = {} THEN "cDrop" ELSE "cCommit"
    /\ todo' = JournalFiles /\ work' = {} /\ rec' = TRUE
    /\ UNCHANGED <<durable, memory, op, client, promise, bounds>>

\* CommitL leaves before it did anything: KErrNotReady, KErrNotSupported.
CommitRefused ==
    /\ pc = "idle" /\ MayCommit /\ ~CommitReady
    /\ client' = "commitFailed"
    /\ UNCHANGED <<durable, memory, control, promise, bounds>>

WriteCommitEvent ==
    LET d == First(todo)
        rest == todo \ {d}
        next == AfterCommit[pc]
    IN
    /\ pc \in CommitStages /\ work = {}
    /\ WriteEvent(d, CommitEvent[pc], TRUE)
    /\ promise' = IF pc = "cCommit" /\ promise = NoPromise THEN Promised ELSE promise
    /\ IF rest # {}
       THEN todo' = rest /\ UNCHANGED <<pc, work>>
       ELSE /\ todo' = JournalFiles /\ pc' = next
            /\ work' = StageWalk(next, JournalFiles)
    /\ UNCHANGED <<fs, bak, drv, present, rank, all, done, op, rec, client, bounds>>

\* IntegrityDeleteFileL on one leaf, for a commit or a rollback; a file that
\* is missing is no error.
DeletesBackups == pc \in {"cDelBackup", "delBackup"}

DeleteLeaf ==
    LET w == NextLeaf
        f == log[w[1]].leaves[w[2]].file
    IN
    /\ pc \in {"cDelBackup", "cDelTemp", "delAdded", "delBackup", "delTemp"}
    /\ work # {} /\ work' = work \ {w}
    /\ IF DeletesBackups THEN bak' = [bak EXCEPT ![w[1]][w[2]] = "none"] /\ UNCHANGED fs
                         ELSE fs' = [fs EXCEPT ![f] = "none"] /\ UNCHANGED bak
    /\ UNCHANGED <<log, drv, present, memory, pc, op, rec, todo, client, promise, bounds>>

\* DeleteJournalFilesL: per drive, delete the journal, then mention the drive
\* a second time in the .drv file.
CommitDeleteLog ==
    /\ pc = "cDelLog" /\ pc' = "cMark"
    /\ log' = [log EXCEPT ![First(todo)] = NoLog]
    /\ UNCHANGED <<fs, bak, drv, present, memory, op, rec, todo, work, client,
                   promise, bounds>>

CommitMark ==
    LET d == First(todo) IN
    /\ pc = "cMark"
    /\ drv' = Mentioned(d) /\ done' = done \cup {d} /\ todo' = todo \ {d}
    /\ pc' = IF todo' = {} THEN "cDrop" ELSE "cDelLog"
    /\ UNCHANGED <<fs, bak, log, present, rank, last, all, op, rec, work,
                   client, promise, bounds>>

\* The .drv file goes, the message is completed and FinaliseTransactionL
\* releases the transaction.  (CommitReady makes all of iAllDrives complete.)
CommitDrop ==
    /\ pc = "cDrop" /\ pc' = "off" /\ client' = "committed"
    /\ drv' = IF Cardinality(all) = Cardinality(done)
              THEN [d \in Drives |-> 0] ELSE drv
    /\ Forget
    /\ UNCHANGED <<fs, bak, log, present, rec, promise, bounds>>

\* An I/O error, of a deletion or of the write of an event, makes CommitL leave;
\* the session keeps its transaction.
CommitFails ==
    /\ pc \in CommitStages \cup {"cDelLog", "cMark"} /\ Fault
    /\ pc' = "idle" /\ client' = "commitFailed" /\ todo' = {} /\ work' = {}
    /\ UNCHANGED <<durable, memory, op, rec, promise, calls, crashes, ejects>>

\* DeleteDrivesFileL leaves: iJournalFiles and iCompletedDrives are reset.
CommitDropFails ==
    /\ pc = "cDrop" /\ pc' = "idle" /\ client' = "commitFailed" /\ Fault
    /\ rank' = [d \in Drives |-> 0] /\ last' = [d \in Drives |-> ENone]
    /\ done' = IF Cardinality(all) = Cardinality(done) THEN {} ELSE done
    /\ UNCHANGED <<durable, all, op, rec, todo, work, promise, calls, crashes, ejects>>

-------------------------------------------------------------------------------
(***************************************************************************)
(* RollBackL: one drive after the other, each from where its journal got to. *)
(***************************************************************************)

\* CStsServerSession: ERollBack, or its destructor when the session closes.
StartRollBack ==
    /\ pc = "idle" /\ client \in {"open", "commitFailed", "rollbackFailed"}
    /\ pc' = "next" /\ rec' = TRUE /\ todo' = JournalFiles /\ work' = {}
    /\ UNCHANGED <<durable, memory, op, client, promise, bounds>>

\* RollBackL is left by an error.  RollbackAllL destroys the object.
LeaveRollBack ==
    IF rec THEN /\ pc' = "idle" /\ client' = "rollbackFailed"
                /\ todo' = {} /\ work' = {} /\ UNCHANGED <<memory, op>>
           ELSE pc' = "off" /\ Forget /\ UNCHANGED client

\* Where RollBackDriveL enters its fall-through, from the last event of all the
\* open journals and the last event of this one.
UndoEvents == FileEvents \cup {EAddedFilesRemoved, ERemovedFilesRestored}
RedoEvents == {ECommitted, EBackupFilesRemoved}

\* Mutants: a journal that ends with a file event is rolled forward; a committed
\* journal is rolled back; the case ETempFilesRemoved is forgotten.
EntryRollsForward(outer, inner) ==
    IF inner \in FileEvents THEN "delBackup" ELSE "delLog"
EntryUndoesCommit(outer, inner) ==
    IF inner \in FileEvents \cup {ECommitted} THEN "delAdded" ELSE "delLog"
EntryNotFinished(outer, inner) ==
    CASE outer = ETempFilesRemoved -> "corrupt"
      [] inner \in FileEvents      -> "delAdded"
      [] inner \in RedoEvents      -> "delBackup"
      [] OTHER                     -> "delLog"

Entry(outer, inner) ==
    CASE inner \in {ETempFilesRemoved, ENone} \/ outer \in {ETempFilesRemoved, ENone}
                                                                   -> "delLog"
      [] outer \in UndoEvents /\ inner \in FileEvents              -> "delAdded"
      [] outer \in UndoEvents /\ inner = EAddedFilesRemoved        -> "restore"
      [] outer \in UndoEvents /\ inner = ERemovedFilesRestored     -> "delTemp"
      [] outer \in RedoEvents /\ inner \in FileEvents \cup {ECommitted}
                                                                   -> "delBackup"
      [] outer \in RedoEvents /\ inner = EBackupFilesRemoved       -> "delTemp"
      [] OTHER                                                     -> "corrupt"

SkipDrive ==
    LET d == First(todo) IN
    /\ pc = "next" /\ todo # {} /\ d \in done \cup (Drives \ present)
    /\ todo' = todo \ {d}
    /\ UNCHANGED <<durable, memory, pc, op, rec, work, client, promise, bounds>>

RollBackDrive ==
    LET d == First(todo)
        stage == Entry(LastEvent, last[d])
    IN
    /\ pc = "next" /\ todo # {} /\ d \in present \ done
    /\ IF stage = "corrupt"
       THEN LeaveRollBack
       ELSE /\ pc' = stage /\ work' = StageWalk(stage, {d})
            /\ UNCHANGED <<memory, op, todo, client>>
    /\ UNCHANGED <<durable, rec, promise, bounds>>

RollBackEvent == [delAdded  |-> EAddedFilesRemoved,
                  restore   |-> ERemovedFilesRestored,
                  delBackup |-> EBackupFilesRemoved,
                  delTemp   |-> ETempFilesRemoved]
\* Mutant: a break where the code falls through to the restoring stage.
AfterRollBackSkipsRestore == [delAdded  |-> "delTemp",
                              restore   |-> "delTemp",
                              delBackup |-> "delTemp",
                              delTemp   |-> "delLog"]
AfterRollBack == [delAdded  |-> "restore",
                  restore   |-> "delTemp",
                  delBackup |-> "delTemp",
                  delTemp   |-> "delLog"]

WriteRollBackEvent ==
    LET d == First(todo)
        next == AfterRollBack[pc]
    IN
    /\ pc \in RollBackStages /\ work = {}
    /\ WriteEvent(d, RollBackEvent[pc], rec)
    /\ pc' = next /\ work' = StageWalk(next, {d})
    /\ UNCHANGED <<fs, bak, drv, present, rank, all, done, op, rec, todo,
                   client, promise, bounds>>

\* An error RollBackL ignores: the drive is left as it is, the next one follows.
AbandonDrive == pc' = "next" /\ todo' = todo \ {First(todo)} /\ work' = {}

\* IntegrityRestoreFileL: Rename fails on a missing backup, which is fine when
\* the original is back already, and on an existing original.
RestoreLeaf ==
    LET w == NextLeaf
        f == log[w[1]].leaves[w[2]].file
        backup == bak[w[1]][w[2]]
    IN
    /\ pc = "restore" /\ work # {}
    /\ \/ /\ backup # "none" /\ fs[f] = "none"
          /\ fs' = [fs EXCEPT ![f] = backup]
          /\ bak' = [bak EXCEPT ![w[1]][w[2]] = "none"]
          /\ work' = work \ {w}
          /\ UNCHANGED <<memory, pc, op, todo, client>>
       \/ /\ backup = "none" /\ fs[f] # "none"
          /\ work' = work \ {w} /\ UNCHANGED <<fs, bak, memory, pc, op, todo, client>>
       \/ /\ backup = "none" /\ fs[f] = "none"          \* KErrNotFound
          /\ AbandonDrive /\ UNCHANGED <<fs, bak, memory, op, client>>
       \/ /\ backup # "none" /\ fs[f] # "none"          \* KErrAlreadyExists
          /\ LeaveRollBack /\ UNCHANGED <<fs, bak>>
    /\ UNCHANGED <<log, drv, present, rec, promise, bounds>>

\* FinishRollbackL: the journal file, the second mention, the .drv file.
DeleteLog ==
    LET d == First(todo) IN
    /\ pc = "delLog"
    /\ IF log[d].exists
       THEN /\ log' = [log EXCEPT ![d] = NoLog] /\ pc' = "mark"
            /\ UNCHANGED <<todo, work>>
       ELSE AbandonDrive /\ UNCHANGED log
    /\ UNCHANGED <<fs, bak, drv, present, memory, op, rec, client, promise, bounds>>

MarkDrive ==
    LET d == First(todo) IN
    /\ pc = "mark"
    /\ drv' = IF rec THEN Mentioned(d) ELSE drv
    /\ done' = done \cup {d}
    /\ IF Cardinality(done') = Cardinality(all)
       THEN pc' = "drop" /\ UNCHANGED todo
       ELSE pc' = "next" /\ todo' = todo \ {d}
    /\ UNCHANGED <<fs, bak, log, present, rank, last, all, op, rec, work,
                   client, promise, bounds>>

DropDrivesFile ==
    /\ pc = "drop" /\ pc' = "next" /\ todo' = todo \ {First(todo)}
    /\ drv' = [d \in Drives |-> 0] /\ done' = {}
    /\ UNCHANGED <<fs, bak, log, present, rank, last, all, op, rec, work,
                   client, promise, bounds>>

\* RollBackL returns; the transaction is finalised, or the recovery is over.
EndRollBack ==
    /\ pc = "next" /\ todo = {} /\ pc' = "off" /\ Forget
    /\ client' = IF rec THEN "rolledBack" ELSE client
    /\ UNCHANGED <<durable, rec, promise, bounds>>

\* An I/O error other than not-found and not-ready, of the write of an event too.
RollBackFails ==
    /\ pc \in RollBackStages \cup {"delLog", "mark"} /\ Fault
    /\ LeaveRollBack
    /\ UNCHANGED <<durable, rec, promise, calls, crashes, ejects>>

\* DeleteDrivesFileL has reset iCompletedDrives before it leaves.
DropFails ==
    /\ pc = "drop" /\ Fault
    /\ IF rec THEN /\ pc' = "idle" /\ client' = "rollbackFailed"
                   /\ done' = {} /\ todo' = {} /\ work' = {}
                   /\ UNCHANGED <<rank, last, all, op>>
              ELSE pc' = "off" /\ Forget /\ UNCHANGED client
    /\ UNCHANGED <<durable, rec, promise, calls, crashes, ejects>>

-------------------------------------------------------------------------------
(***************************************************************************)
(* Crash, recovery, media                                                   *)
(***************************************************************************)

\* The device loses power or the server process dies, at any point.
Crash ==
    /\ Mishap /\ crashes < MaxCrashes /\ crashes' = crashes + 1
    /\ pc # "off" /\ pc' = "off" /\ Forget
    /\ client' = IF client \in {"committed", "rolledBack"} THEN client ELSE "crashed"
    /\ UNCHANGED <<durable, rec, promise, calls, faults, ejects>>

Pending == \E d \in Drives : drv[d] > 0

\* RollbackAllL, when the server starts or on RStsRecoverySession's request:
\* a transaction listed by its .drv file is loaded by InitJournalsL and rolled
\* back with aRecordAllRollbackEvents = EFalse.  A journal that cannot be read
\* is passed over; one that is missing is created anew.
Recover ==
    LET parts  == {d \in Drives : drv[d] >= 1}
        over   == {d \in Drives : drv[d] = 2}
        loaded == {d \in (parts \ over) \cap present : log[d].ok}
        Read(d) == IF log[d].exists THEN log[d] ELSE EmptyLog
    IN
    /\ pc = "off" /\ Pending
    /\ all' = parts /\ done' = over
    /\ log' = [d \in Drives |-> IF d \in loaded THEN Read(d) ELSE log[d]]
    /\ rank' = [d \in Drives |-> IF d \in loaded THEN d ELSE 0]
    /\ last' = [d \in Drives |-> IF d \in loaded THEN log[d].last ELSE ENone]
    /\ pc' = "next" /\ rec' = FALSE /\ todo' = loaded /\ work' = {}
    /\ UNCHANGED <<fs, bak, drv, present, op, client, promise, bounds>>

\* A memory card is taken out between calls, and put back at any time.
Eject(d) ==
    /\ pc \in {"idle", "off"} /\ d \in Removable \cap present
    /\ Mishap /\ ejects < MaxEjects /\ ejects' = ejects + 1
    /\ present' = present \ {d}
    /\ UNCHANGED <<fs, bak, log, drv, memory, control, client, promise, calls,
                   crashes, faults>>

Insert(d) ==
    /\ d \notin present
    /\ present' = present \cup {d}
    /\ UNCHANGED <<fs, bak, log, drv, memory, control, client, promise, bounds>>

-------------------------------------------------------------------------------
ClientCall == \E f \in Files :
    \/ RegisterNew(f) \/ CreateNew(f) \/ Remove(f)
    \/ RegisterTemporary(f) \/ CreateTemporary(f) \/ Overwrite(f)

\* What the server goes on doing without anybody's help.
ServerStep ==
    \/ PrepareToWrite \/ RegisterDrive \/ WriteEntry \/ MoveToBackup \/ CreateOver
    \/ WriteCommitEvent \/ DeleteLeaf \/ CommitDeleteLog \/ CommitMark \/ CommitDrop
    \/ SkipDrive \/ RollBackDrive \/ WriteRollBackEvent \/ RestoreLeaf
    \/ DeleteLog \/ MarkDrive \/ DropDrivesFile \/ EndRollBack

Failure ==
    \/ JournallingFails \/ ActFails \/ CommitFails \/ CommitDropFails
    \/ RollBackFails \/ DropFails \/ Crash

Next ==
    \/ ClientCall
    \/ \E f \in Files : ClientWrites(f)
    \/ StartCommit \/ CommitRefused \/ StartRollBack
    \/ ServerStep
    \/ Failure
    \/ Recover
    \/ \E d \in Drives : Eject(d) \/ Insert(d)

Spec == Init /\ [][Next]_vars

(***************************************************************************)
(* Fairness.  The server runs the call it is in; the session of a client    *)
(* that calls nothing more is closed by the kernel, which rolls back; the   *)
(* server is started again after a crash; a card comes back.                *)
(***************************************************************************)
Fairness ==
    /\ WF_vars(ServerStep)
    /\ WF_vars(StartRollBack)
    /\ WF_vars(Recover)
    /\ WF_vars(\E d \in Drives : Insert(d))

FairSpec == Spec /\ Fairness

-------------------------------------------------------------------------------
TypeOK ==
    /\ fs \in [Files -> Contents]
    /\ bak \in [Drives -> Seq(Contents)]
    /\ log \in [Drives -> Log]
    /\ drv \in [Drives -> 0 .. 2]
    /\ present \subseteq Drives
    /\ rank \in [Drives -> Nat]
    /\ last \in [Drives -> Events]
    /\ all \subseteq Drives /\ done \subseteq Drives
    /\ pc \in Labels
    /\ op \in [kind : AllCalls \cup {"none"}, file : Files \cup {"none"}]
    /\ rec \in BOOLEAN
    /\ todo \subseteq Drives
    /\ work \subseteq Drives \X Nat
    /\ client \in {"open", "commitFailed", "rollbackFailed", "committed",
                   "rolledBack", "crashed"}
    /\ promise \in [Files -> Contents] \cup {NoPromise}
    /\ calls \in Nat /\ crashes \in Nat /\ faults \in Nat /\ ejects \in Nat

-------------------------------------------------------------------------------
(***************************************************************************)
(* What the transaction promises                                            *)
(***************************************************************************)

\* The client has called CommitL for the last time and no journal has an entry left.
NoEntries == \A d \in Drives : log[d].leaves = <<>>
Settled   == ~MayCommit /\ NoEntries

\* "All operations fail or all operations succeed together" (sts.h): a settled
\* transaction left the files from before it, or those CommitL promised.
Outcome == IF promise = NoPromise THEN Before ELSE promise
Atomic  == Settled => fs = Outcome

\* ... but for the one file that a call had created and not journalled yet when
\* the crash came.
OneOrphanPerCrash ==
    Settled => Cardinality({f \in Files : fs[f] # Outcome[f]}) <= crashes

\* As long as no journal holds ECommitted, a file that the transaction removed
\* and did not give a successor is at its place or in its own backup: a rollback
\* can always bring it back.  (A second pass of recovery deletes a restored file
\* whose name was also added, or made temporary, in the transaction.)
NoOriginalLost ==
    promise = NoPromise =>
        \A f \in Files :
            Before[f] = "orig" /\ ~Journalled(f, EAddedFile) /\ ~Journalled(f, ETempFile) =>
                \/ fs[f] = "orig"
                \/ \E i \in LeavesOf(DriveOf[f], ERemovedFile) :
                      log[DriveOf[f]].leaves[i].file = f /\ bak[DriveOf[f]][i] = "orig"

\* DeleteJournalFileL never removes a journal whose backups still exist: they
\* could be neither restored nor deleted any more.
JournalOutlivesBackups ==
    \A d \in Drives : \A i \in DOMAIN bak[d] : bak[d][i] # "none" => log[d].exists

\* GetListOfTransactionsL finds a transaction by its .drv file and InitJournalsL
\* its journals by the drives in it: a journal with entries is listed, once.
JournalListed == \A d \in Drives : log[d].leaves # <<>> => drv[d] = 1

\* ReadEntryL accepts every journal the server writes.
JournalReadable == \A d \in Drives : log[d].ok

\* The writer does not check the order of the events, ReadEntryL does: over failed
\* calls, retries and crashes, a journal with entries that recovery would refuse
\* is made by nothing but a second CommitL after one that failed.
SpoiltByRecommit ==
    [][\A d \in Drives : log[d].ok /\ ~log'[d].ok /\ log[d].leaves # <<>>
          => pc = "cCommit" /\ client = "commitFailed"]_vars

\* What CommitL or RollBackL reported to the client is true and stays true,
\* whatever recovery runs afterwards.  A roll back that passed over a drive (its
\* card was out) leaves that drive's journal to recovery.
AckedOutcome ==
    /\ client = "committed" => fs = Outcome
    /\ client = "rolledBack" /\ promise = NoPromise /\ NoEntries => fs = Before

\* CommitL destroys a backup only when every journal durably holds ECommitted.
CommitBarrier ==
    [][\A d \in Drives : \A i \in DOMAIN bak[d] :
          pc = "cDelBackup" /\ bak[d][i] # "none" /\ bak'[d][i] = "none"
              => \A e \in all : log[e].last = ECommitted]_vars

\* On a drive whose journal has passed its commit point nothing is undone:
\* only temporary files still go.
CommittedNotUndone ==
    [][\A f \in Files : log[DriveOf[f]].last \in RedoEvents /\ fs'[f] # fs[f]
          => Journalled(f, ETempFile)]_vars

\* Every journal is eventually brought to its end.
JournalsFinish == <>[]NoEntries

\* A transaction on one drive is an atomic transaction.
AbstractTransaction ==
    INSTANCE AtomicTransaction WITH
        Images <- [Files -> Contents],
        None   <- NoPromise,
        image  <- IF Settled THEN fs ELSE NoPromise

ImplementsAtomic == AbstractTransaction!Spec
===============================================================================
