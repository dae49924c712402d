# TLA+ models of the application installation package

This directory is the verification project kept beside the source of the Symbian
*appinstall* package: TLA+ modules translated from the C++ code, TLC
configurations that model-check them, and proof modules that TLAPS checks. `STS/` stands for
`src/installationservices/swtransactionservices/`, `SWI/` for `src/installationservices/swi/source/`,
`OBS/` for `SWI/swiobserver/`, `SCR/` for `src/installationservices/swcomponentregistry/` and `SIF/` for
`src/installationservices/swinstallationfw/`. Components in bold are modelled, wholly or in the part
that section 2 names.

## 1. The system

### 1.1 Components

| Component | Code | State it keeps | Operations | Hard behaviour |
|---|---|---|---|---|
| **STS transaction engine** | `STS/source/server/{integrityservices,journal,journalfile,integritytree,operationfunctions}.cpp` | per drive a journal file and a tree of leaves; a `.drv` file naming the drives; backups; in memory `iJournalFiles`, `iAllDrives`, `iCompletedDrives` | register/create new and temporary files, remove, overwrite, commit, roll back, recover | crash between any two I/Os, several drives that cannot be written together, media taken out, errors half way, calls made again |
| **STS server** | `STS/source/server/{stsserver,stsserversession,transactionwrapper,startup}.cpp` | ordered container of reference-counted transaction wrappers; one transaction pointer per session | create, open, operate, commit, roll back, close, roll back all pending; start, shut down after two seconds | sessions sharing a transaction, automatic roll back on close, recovery against active transactions, identifiers from a wrapping clock |
| STS client | `STS/source/client/` | a session handle | marshals the calls | none of its own |
| SWI integrity services | `src/installationservices/swi/source/integrityservices/` | as the STS engine, the journal of each drive | as the STS engine | several processes append to one journal (`SynchL`) |
| **SWI observer** | `src/installationservices/swi/source/swiobserver/` | log files of installations, a flag file, the processor's state and plugins, waiting clients | register, transfer a log, commit, process logs at boot | a commit while the processor completes, a log that fails half way, restart |
| **SWIS** (and UISS) | `SWI/{swis,uiss}/` | one state machine per session of a client; a session to STS, one to the registry and one to the observer; `iCancelled`; the plan | install, uninstall, query, restore, cancel | one thread for all machines; cancellation and failure in every state; two transactions committed one after the other; the observer's queue |
| Installation plan | `src/installationservices/swi/source/plan/` | tree of packages to install, eclipse and remove | build and resolve the plan | partial upgrades, embedded packages |
| SIS registry | `src/installationservices/swi/source/sisregistry/` | registry entries, a cache and its backup | add, update, delete, query | cache stale after a crash, several sessions |
| **SIS launcher** | `SWI/sislauncher/` | session count, one timer with a short and a long period, a queue of files to run, the processor that waits for ECOM | start, start and wait, shut down, run after the ECOM notification | clients that come and go while a queue waits; the queue executed twice |
| **Software Component Registry** | `SCR/` | SQL database behind one connection, one transaction and its owner, subsessions with views | add, set, delete, query, transactions | a transaction of one session beside the requests and views of others; errors of SQLite; end of the process |
| **Installation framework (SIF)** | `SIF/` | properties of the kernel that list the operations going on; a transport server with one asynchronous task per request | publish an operation, subscribe to them; install, uninstall, cancel | installers in several processes write one list without a lock; a notifier that lags behind |
| Installer daemon | `src/appinstaller/AppinstUi/Daemon/` | per drive watchers, SIS lists, a queue of drives | media inserted, removed, scan | media removed during the scan |
| IAD | `src/iaupdate/IAD/` | controller of update nodes, background checker's mode and timers | check, download, install | retries over days, cancellation |
| NCD engine | `src/ncdengine/` | server-side operations and sessions, client proxies | load, download, install, purchase | proxies against operations, cancellation |
| Others | test code, resource files, tools for the host computer, vendored SQLite, OpenSSL and Xerces | | | not protocols of this program |

### 1.2 How they interact

A client of the installer (SIF, the daemon, a user interface) asks SWIS, which builds a
plan, opens a transaction, copies and removes files through it, updates the SIS
registry and SCR and commits. Every component that changes files relies on one
promise of the transaction server (`STS/inc/sts.h:43`): *either all operations fail or
all operations succeed together*, over crashes of the device. The client library sends
requests to the STS server; the server is a single thread that serves one
request at a time; each session points at a `CIntegrityServices`, which owns a
`CJournal`, which owns one `CJournalFile` per drive. When the server process starts
(`CStsServer::ConstructL`), and on request of a recovery session,
`CIntegrityServices::RollbackAllL` finishes every transaction that left a `.drv` file.

What an installation changed reaches other components through the SWI observer: the
installer asks it for a log file, adds the file to its transaction, writes what it does into
it, and commits; the observer then reads the log to its plugins. The log lives or dies
with the transaction, and the observer never sees the transaction itself. An observer that is at work
lets nobody register: it queues the request, and answers the first of its queue when it has
done (`OBS/server/swiobserver.cpp:163`).

SWIS is one thread that runs the machines of all its clients. A machine opens an STS transaction when it
is made, takes the registry's only transaction with its first registry entry, and ends both,
one call after the other, in `CSwisStateMachine::FinalizeJournalsL`, or in `RunError` when that leaves. Files
to be run after the installation are queued at the SIS launcher, which runs them when ECOM reports
the new plug-ins. Meanwhile a plug-in of SIF tells the world by way of kernel properties
(`SIF/source/sifnotification`) that an operation goes on, how far it is, and how it ended.

### 1.3 What makes each component correct

* Engine: all or nothing over crashes; no original lost; no backup destroyed before the
  commit point; what was committed is not undone; a journal the server writes can be
  read again; every journal with entries can be found; recovery terminates.
* Server: a transaction is resolved only by somebody who holds it, no session keeps a
  pointer to a deleted transaction, nothing pending outlives its last session, a new
  transaction starts empty, every active transaction is found.
* SWI observer: every committed log is processed, once for each plugin, in order, also after a
  restart; a log of an installation that failed is not; a waiting client is served.
* SWIS: what a client is told is true of files, registry and log; files and registry come apart only
  in the window between the two commits; every request ends; the registry is not left locked.
* SCR: a component is on disk whole or not at all; no session writes into, or publishes, the
  transaction of another; what an aborted transaction leaves is never committed.
* SIS launcher: each queued file is run once, after ECOM and not before; no timer takes a waiting
  queue away; a server that nobody uses ends.
* SIF: no two operations share a key; a watcher that keeps up sees each start and end once, in
  order; keys come back.
* Plan, SIS registry: the plan removes no file that another planned package owns; cache and store
  agree.
* Daemon, IAD, NCD: each request completes exactly once, whatever is cancelled, removed or times out.

## 2. The modules

```
AtomicTransaction   what sts.h promises of one transaction
      ^ implemented by (one drive)
StsJournal          the transaction engine, one step per I/O
      ^ EXTENDS                      ^ EXTENDS
MCStsJournal        instances        StsJournalProofs   theorems, inductive invariant
StsServer           sessions, wrappers, life cycle
      ^ EXTENDS                      ^ EXTENDS
MCStsServer         instances        StsServerProofs    theorems, inductive invariants
TransactionTable    identifiers and the ordered container
      ^ EXTENDS
TransactionTableProofs  theorems, inductive invariant
SwiObserver         clients, server, log processor        MCSwiObserver  instances
      ^ EXTENDS
SwiObserverProofs   theorems, inductive invariant
SwisMachine         the install server's machines, over one transaction of STS and one of
      ^ EXTENDS                      the registry each, and the observer's queue
MCSwisMachine       instances        SwisMachineProofs  theorems, inductive invariant
ScrServer           sessions, transaction, views, SQLite   MCScrServer    instances
      ^ EXTENDS
ScrServerProofs     theorems, inductive invariant
SifNotification     publishers, properties, notifier       MCSifNotification  instances
      ^ EXTENDS
SifNotificationProofs  theorems, inductive invariant
SisLauncher         sessions, timer, queue, ECOM           MCSisLauncher  instances
      ^ EXTENDS
SisLauncherProofs   theorems, inductive invariant
```

`SwisMachine` composes what the others model in detail: its `files` and `sts` are a `StsJournal`
transaction in three values (what `AtomicTransaction` promises), `registry`, `writer` and `mutable`
the transaction of `ScrServer` with its owner, `log`, `busy` and `waiters` what an installer sees of
`SwiObserver`.

### 2.1 `StsJournal`

One transaction, from its first call until its journals are gone. Each step is one call of
the file server, so a crash falls between any two of them.

* Durable state: `fs` (file contents), `bak` (backup files, by journal leaf), `log` (the
  journal file of each drive: its leaves, its last event, whether `ReadEntryL` would
  accept it), `drv` (how often the `.drv` file names each drive: once is *in use*, twice is
  *completed*), `present` (media).
* Memory: `rank` (order of `iJournalFiles`: order of first use, or drive order after a
  restart), `last` (`iLastEvent`), `all` (`iAllDrives`), `done` (`iCompletedDrives`). It
  can differ from the durable state: recovery rolls back with `aRecordAllRollbackEvents`
  false, and then `last` moves on while `log` does not.
* Control: `pc` is the place in the call, `todo` the drives its loop has still to visit,
  `work` the leaves its tree walk has still to visit, `rec` the flag just named.
* `client` is what the client has been told, `promise` the files it may rely on, fixed when the
  first `ECommitted` becomes durable.

Actions follow the functions: `RegisterNew` ... `Overwrite` with `PrepareToWrite`,
`RegisterDrive`, `WriteEntry`, `MoveToBackup`, `CreateOver`; `StartCommit`,
`WriteCommitEvent`, `DeleteLeaf`, `CommitDeleteLog`, `CommitMark`, `CommitDrop`;
`StartRollBack`, `RollBackDrive` (the two nested `switch`es are `Entry`, the fall-through
is `AfterRollBack`), `WriteRollBackEvent`, `RestoreLeaf`, `DeleteLog`, `MarkDrive`,
`DropDrivesFile`; `Recover` is `RollbackAllL` with `InitJournalsL`. Each has its error path
(`...Fails`): `JournallingFails` is an entry that does not get into the journal, or whose journal or `.drv` file
cannot be written (the removal of a file added earlier writes none, `Unjournalled`), `CommitFails` and `RollBackFails`
are an event that cannot be written or a file that cannot be deleted or moved. `Crash` may come
at any point, `Eject`/`Insert` move the card between calls.

Abstractions: contents are one of four values; directories, their pruning and the
detour of binaries through `\sys\bin` are left out; the integrity tree is the sequence of its
leaves; a journal entry is written in one step (a torn one is an absent one, since `ReadL`
stops at the end of the file).

### 2.2 `AtomicTransaction`

Two steps: the transaction may be decided once (`Decide` fixes the committed image), and it
settles in that image or in the one from before. `StsJournal` implements it with
`image <- fs` once settled and `promise <- promise`.

### 2.3 `StsServer`

One action per request. A transaction is the set of its operations not resolved yet
(`pending`) and the last event of its journal (`stage`: of a file, of a commit or of a roll back); what
`StsJournal` does in many steps is `Resolve` here. `table`, `refs`, `completed` are the wrappers, `trans` the
sessions' pointers, `streams` tells whether a journal object has been closed by
`RollBackL` (it stays in `iJournalFiles`, so a write to it fails). `CommitFailsLate`, `RollBackFails` and the
failing branch of `CloseSession` are requests that leave; `Start` recovers before the
server accepts sessions, and ignores the transactions whose recovery fails; `Exit` is the shutdown timer, `Crash`
the death of the process. `FreshId` asks only that no active transaction has the identifier, as
`CreateTransactionID` does: one that an earlier transaction had comes again, and `CreateTransaction` then loads the
journal that is still there. History: `made` is what was made in a transaction, `kept` and `undone` what
became of it, `failed` the transactions with something that a roll back failed to undo, `late` those in which
a session operated after another one had completed them.

Abstractions: a request that leaves before it changed anything is no step; a transaction has one journal
file; clients that saw a commit or a roll back fail do not go on with the opposite (no operation is added to a journal with
an event of either, and none that a roll back has begun on is committed; `StsJournal` has the calls that repeat
what failed).

### 2.4 `TransactionTable`

Identifiers are the low word of the microsecond clock; the container is kept in order by
the signed difference of two identifiers and searched by halving. `Word` stands for 2^32, and half of it for
some 36 minutes.
`InsertInOrderL` and `FindInOrder` belong to the platform; they are modelled from how
the server uses them and marked external.

### 2.5 `SwiObserver`

One action per request of a client, one per `RunL` of the processor. The server is one thread, but
the processor is an active object of low priority, so requests come between any two of its
steps, and clients, transactions, backups and the device move on their own.

* Durable state: `swi` and `obs` are the directories `log_swi` (logs being written or waiting) and
  `log_obs` (the log being processed), `content` what a log holds, `flag` the flag file that makes
  the device start the observer at boot.
* Server: `up`, `high` (`iHighestFileNum`), `timer` (the shutdown timer), `waiters`
  (`iAsyncRequests`), `proc` (the members of the processor: `progress` is `iInProgress` with its
  phase of waiting for a backup, `state` is `iState`, `impl` and `pos` the places in the plugin
  list and in the log, `header` the `iHeader` that tells whether `StartL` was sent).
* Clients: `cl` is how far an installation is, `file` the log it holds. `Leave` and `RollBack` are
  two steps, because the installer closes its session before it rolls its transaction back.
* Device: `on`, and `bur`, the property of backup and restore.
* History: `fate` is what became of the transaction of a log, `told` what each plugin has heard of it,
  `cut` whether a log was given up half way.

`StartServer` is `ConstructL` with `InitializeLogDirsL`: half-processed logs are deleted, the highest
number is found, and processing starts if there is a log. `NextLogFile`, `NextPlugin`, `Notify`,
`Finalize`, `GiveUp` and `CompleteProcess` are the states of the processor, `LogFileFails` and
`RunError` its error paths. `Crash` takes the device down, `Boot` rolls back open transactions and
then starts the observer when the flag file is there. `GiveUp` is a record that cannot be read: at a header it
comes after `StartL` (`StartNotes`).

Abstractions: a record is a header, data that concerns the plugins, data that does not, or
unreadable; all plugins have one filter; a client writes its log in one step; the order in which the
directory is listed is left open; a file that is open cannot be moved or deleted.

### 2.6 `SwisMachine`

One machine per client, with one operation each (`kind`: an installation, an uninstallation, or a
query in info mode). SWIS is one thread, so `running` is the session whose `RunL` is going on, and a call
that it makes to another server in its course is a step of its own: only the end of the process
falls between two of them. Where nothing runs, `stage` is the wait a machine is in.

* `Start`/`StartFails` are `CInstallSession::ServiceL` with `ConstructL`. `Begin`, `Registered`, `Confirmed`,
  `Refused` are the states up to the user's consent (the states between, which only look things up and
  ask, are one), `ChangeFiles` and `UpdateRegistry` those of `CProcessor`, which is an active object
  of its own: a cancelled installation stops it and a cancelled uninstallation does not.
* `SignalCompleted`, `CommitFiles`, `CommitRegistry`, `CommitLog`, `PostJournalFinalization` are
  `FinalizeJournalsL(KErrNone)` call by call; `CloseLog`, `UndoFiles`, `UndoRegistry`, `CompleteUndone` the other
  branch, of cancellation and of info mode; `RunError`, `FatalFiles`, `FatalRegistry`, `FatalTell` are
  `RunError` with `InformUserOfFatalErrorL`, whose dialog may fail and take both roll backs with it. A user who
  says no makes `RunL` leave with `KErrCancel` (`SayNo`, `refused`): no dialog is shown, and the client is told
  of a cancellation unless what comes after fails and replaces the error (`ReplacesError`).
* `CancelInstallation` is `ECancel`, which may come in any wait and after the request is completed. It stops the
  processor (stage `stopped`), unless the call to the launcher before that leaves: then the processor runs
  on in a machine that is marked as cancelled. `UpdateRegistry` may fail before or after the registry's transaction
  is its own.
* `CloseSession`, or `CloseRegistering` and `Closing`, is the destructor: `DoCancel` is empty, so a machine whose
  registration is outstanding keeps the thread until the observer answers. `EndSessions` is what the
  other servers do when a session to them goes: an open transaction is rolled back, one past its commit
  point is committed, the registry's is cancelled, an uncommitted log is deleted.
* `Begin` queues the registration (`waiters`) while the observer is `busy`; `CommitLog` makes it busy;
  `ObserverIdle` answers the first of the queue and nobody else.
* `Death` is the end of the process between any two steps; a commit that was going on may have been
  made. `struck` remembers that a commit was interrupted or failed once begun.

Abstractions: the plan is a number of packages (`Apps`); a package's files change in one step; who installs
without SWIS shows only in `busy`, which starts either way.

### 2.7 `ScrServer`

One step per request: the server is one thread. `work` is the registry as the connection sees
it and `disk` as the process would find it again; they differ while `auto` is false, as in SQLite.
`owner` is `iTransactionOwningSession`. `ApplyTransactionConstraint` is the preamble that a mutating
request has to pass; `MutateExplicit`, `MutateImplicit` and `MutateSingle` are the requests of several
statements inside and outside a transaction and those of one, `SetScomoState` the one the preamble does
not know. `Halted`, `Aborted`, `RollBackAll` are the parts of SQLite (`vdbeaux.c`) that the server
relies on: in auto-commit mode a statement that halts commits only when no other one runs, and an I/O
error rolls everything back and turns auto-commit on. `OpenView`, `NextRow`, `CloseView` are the
subsessions; a view that has returned a row and not ended is what makes commits and roll backs fail.
`Finalized` is the end of a statement, which commits what is pending in auto-commit mode; when the file is
locked and it cannot, the view stays as it is (`Refused`) and a later call tries again, and a statement
that is destroyed all the same is counted as running for the rest of the connection's life (`stuck`).
`CloseSession` rolls back for an owner and reconnects when nobody is left (`CloseSessionReconnects`);
a connection that cannot be closed is leaked with its locks (`leak`): its readers keep the new one from
publishing, and what it had pending (`late`) lands when its last statement ends (`WorkAfter`). `ServerEnds` and
`ServerEndsInRequest` are the end of the process. A component is five rows, which tell apart what a
request may write half.

### 2.8 `SifNotification`

`CPublishSifOperationInfo` in each installer's process, the properties, and one
`CSifOperationsNotifier`. Each call to a property is a step: `AvailableKey` (find a key of the pool that is
not defined), `DefineKey`, `SetStart`, `DefineProgress`, `ReadList`, `AppendKey`, then `LookUp`,
`LookAtKey`, `SetEnd`, and after `KDeleteKeyDelay` `TimerReads`, `TimerRemoves`, `DeleteKey`, `DeleteProgress`.
`Fault` is a call that leaves, `Dies` the end of the installer's process. The notifier's `Run`
compares lengths as `RunL` does; `Announce` reads a new key and tells the client of its start (`Told`), `Subscribe` is the
client's call back, which reads nothing, so that an end in between goes unheard (`behind`); `NotifierRun`
handles a key's change. `AvailableKey` asks for one key of the pool in each step.
`disturbed` and `behind` record that two publishers overtook each other between
reading and writing the list, or were faster than the notifier; the properties name them where the code
has no defence.

### 2.9 `SisLauncher`

`CSisLauncherServer` with its timer, `CQueueProcessor`, and the installer's loop that fills the queue.
`Connect`, `Close`, `Terminated` count sessions and start or stop the timer (`StartShort`,
`StartLong`; `long` is `iLongTimerActive`); `RunAfterEcomNotification`, `AddToQueue`, `SkipFile`, `ExecuteQueue` are
one client's sequence, `ExecuteQueuePanics` the activation of an active processor; `EcomNotifies`,
`RunQueue` with `DoExecuteQueue`, `RunFailed` the processor; `TimerExpires` ends the server. A queue entry keeps
its place, with its item deleted, after the file was run.

### 2.10 The MC modules

They only give constants their values: where the files live, what they hold before, which calls the
client makes with which name (a name is used as a permanent or as a temporary file, as the clients do),
what logs contain, who is symmetric to whom.

## 3. The runs

| Run | Instance | Shows |
|---|---|---|
| `StsOneDrive` | 4 files, 4 calls, 1 crash | the engine implements `AtomicTransaction` (`ImplementsAtomic`); journals outlive their backups |
| `StsEveryCall` | all six calls, 4 of them, two crashes or I/O errors, commits and roll backs called again | nothing lost and one orphan per crash (`NoOriginalLost`, `OneOrphanPerCrash`); what was acknowledged is true and stays true (`AckedOutcome`); a committed journal is never undone (`CommittedNotUndone`); only a second commit makes a journal that `ReadEntryL` rejects (`SpoiltByRecommit`) |
| `StsTwoDrives` | two drives, 4 calls, a crash, or the second drive's card taken out and put back | `CommitBarrier`; `JournalListed`; `AckedOutcome`; every journal ends (`JournalsFinish`) |
| `StsSplitRollBack` | two drives, 3 calls, 1 crash | *violation*: `Atomic` |
| `SrvShared` | 3 sessions, 2 identifiers that come again, 3 operations, 2 creates, 2 opens, 1 death, 2 failures | `RefsExact`, `ResolvedByHolder`; all or nothing (`AllTogether`); only a failed roll back or an operation after the completion leaves anything without a session (`NothingLeftBehind`) or to a later transaction (`BeginsEmpty`); everything resolved |
| `TableYoung` | word of 12 values, ages up to 5, 4 active | every active transaction is found |
| `ObsInstallers` | 2 clients, 2 plugins, 2 logs, a crash, an error, a backup or an overlap | plugins hear each log in order and once, the first one with its start, and none of a failed installation; a log is deleted only when heard; waiting clients are served; a log handed over is processed |
| `ScrSessions` | 3 sessions, 1 component, errors and ends of the process anywhere, half written components on disk once | a component is whole on disk; no known request of another session writes into a transaction; nothing of a transaction reaches the disk before its owner commits; an orphan never does |
| `ScrForeignWrite` | the same | *violation*: `NobodyElseWrites` |
| `SifOperations` | 2 publishers, 2 keys of which some may be lost before, faults and deaths anywhere | keys are disjoint, a watcher that keeps up has the publishers' list, keys come back, a running operation is told |
| `LauncherQueue` | 2 clients, 4 files, restarts, ECOM with and without an error | no file run twice; the short timer harmless; what was executed is kept and run |
| `SwisInstalls` | 2 clients, 2 packages, 2 failures, 1 end of the process, observer at work or not | `ToldTruth`, `TornOnlyInWindow`; every request is answered and the registry freed, but for the observer's queue |

**Bounds.** Four calls are enough for a removal, an addition of the same name, a second name and a temporary
file, so that roll back's order has something to get wrong; one
crash may come at any I/O, and recovery then runs to its end. `MaxMishaps` bounds crashes, errors and
ejections together. `StsEveryCall` has two, so that one falls into the recovery from the other. `StsOneDrive` and
`StsTwoDrives` have one: a second recovery deletes a restored file whose name was also added (3.2), which
neither an atomic transaction nor the end of every journal survives. Two drives show every order of
two journals. Three sessions of the STS server are two that share a transaction and one that does not;
three operations are two of one transaction and one of the next with its identifier; the
server may exit and start any number of times, so that one death and two failures meet in every order of
recovery, request and closed session. In the table, 12 values wrap around
within a few ticks and four entries give a search of depth three.

Two clients of the observer are what a waiting queue and a commit beside another installation
need; two plugins tell the first from the last; the second log is the one that inherits whatever
the first one left behind. `MaxMishaps` of the observer counts crashes, errors, backups
and overlaps together, for the reason given above, and properties that an overlap breaks say so in
their premise (`AloneOnlyCommitted`, `AloneProcessed`).

Three sessions of SCR are one that owns the transaction, one that reads and one that tries to write; they
are interchangeable, and the runs that use the symmetry check no liveness. With
one component every request meets every other one at the same rows. `ScrSessions` does not go on from a state
whose database file has a half written component (`WholeSoFar`): what such rows would do there is what
they do in a transaction, and the theorems of `ScrServerProofs` hold without this bound. Two publishers show every race at
the list, which is between a reader and a writer; the second key is the one the other takes; a third
publisher multiplies the states beyond what a run may take. Two clients of the launcher are the one
whose queue waits and the one that starts the processor again, and four files let each of them
queue two. Two failures of SWIS put one into the commit and one into the recovery from it
(`RunError`); two machines contend for the registry and for the observer's queue; with two packages, a
package embedded in another fails after the first is installed.

**Deadlock** is checked for the STS server, the table, SCR and the launcher. A settled transaction has
nothing more to do, clients of the observer may all be gone when their logs are used up, and publishers
and SWIS clients are done after one operation, so those configurations turn it off.

### 3.1 Fairness

`StsJournal`: the server runs the call it is in (one thread, no waiting); the session of a
client that calls no more is closed by the kernel, which rolls back; the server is started
by the next client, or at boot, and recovers; a card comes back. Nothing obliges a client to commit,
nor a crash or an error to happen or not. `StsServer`: every session is closed one day, a
server without sessions exits (`MaxCreates` and `MaxOpens` say that clients leave it without sessions one day), a
server that is down is started.

`SwiObserver`: the scheduler runs the processor when no request is there (a client can make only so
many), plugins complete what they are told, and a device that is down is booted. Nothing obliges a
client to commit or to leave, or a backup to end.

`SwisMachine`: the scheduler runs a machine that has something to do, the servers it calls answer, the
observer finishes the logs it works on, and a client that was told the result closes its session.
Nobody has to say yes or no, cancel, or close otherwise. `SifNotification`: an installer that has begun to
publish goes on, up to the operation itself, which may take for ever; the notifier is run.
`SisLauncher`: the timer expires and the processor runs once its request is completed; ECOM may
never notify, and clients need not do anything. `ScrServer` states no fairness and no liveness.

### 3.2 Where code and documentation disagree

Two runs keep a disagreement in view:

* `StsSplitRollBack`: what happens to a drive is decided by the highest event of all journals not completed
  yet (`journal.cpp:427`, `:477`). A client removes a file on each of two drives and rolls back; the crash comes
  when drive 2 is restored and its journal ends with `ETempFilesRemoved`, with drive 1 untouched. Recovery
  takes the drives in order: for drive 1 it finds that event, does nothing (`:570`), and deletes
  the journal with the file still in the backup. The same decision splits a commit: with `ECommitted` on one of
  two drives recovery rolls that drive forward, completes it, and no longer sees the commit when it comes to the other.
* `ScrForeignWrite`: `MutatingOperationsPreambleL` does not name `ESetScomoState`, so the update of
  another session joins the transaction in progress, contrary to the comment at `scrsession.cpp:394`.

The following were found the same way. Each is a property that its module defines, or an exception
that one states; a configuration that checks the property without it shows the trace.

* The observer answers one waiting session each time it has been at work (`swiobserver.cpp:163`), and the next one
  waits for the next *commit*, although the client library says that "the server completes the client when the
  processor becomes idle" (`swiobserverclient.cpp:104`). When two SWIS machines wait and the client of the second
  goes away, the destructor holds the one thread of SWIS for an answer (`statemachine.cpp:53`, `DoCancel` at
  `:368` is empty) that only a commit of the first machine could bring: the install server stops for good
  (`RegistrationAnswered` in the instance of `SwisInstalls`; it is what `[]LeftWaiting` in `EveryoneTold` and
  `LockFreed` stands for).
* When the error dialog of `InformUserOfFatalErrorL` fails, both roll backs are skipped; the client is told
  of the error while the files are half changed and the registry stays locked until it closes its session
  (`ErrorRolledBack`). After the commit of the files, the roll back goes to a closed session and leaves, and
  the registry's transaction is not cancelled either (`FatalFiles`). A launcher that cannot be reached in
  `PostJournalFinalizationL` makes the client hear of an error although everything is committed.
* Recovery does not journal its progress (`integrityservices.cpp:370`), so
  after a second crash it deletes the *added* file again, which is now the restored
  original. It takes a removal and an addition of one name and a second crash, or an overwritten file, whose
  new content ends the first recovery with `KErrAlreadyExists`. A temporary file that bears the name of a
  removed one does the same in any roll back, since temporary files are deleted after the originals are
  restored. `NoOriginalLost` excepts names that were also added or made temporary.
* The new file of `OverwriteL` exists before it is journalled; the roll back
  meets it when it wants to restore, and `KErrAlreadyExists` ends this and every
  later recovery (`JournalsFinish` with `Overwrite` among the calls and a crash).
* An error between the deletion of a journal and its mark in the `.drv`
  file leaves `ETempFilesRemoved` as the highest event; the next `RollBackL` deletes the
  other drive's journal without restoring anything (`AckedOutcome` with two drives and a fault).
* One session commits, another one attached to the same transaction goes on in it, and what it does is
  decided by another commit or roll back (`StsServer!AllTogether` without the exception of `late`).
* A commit that arrives after the observer has looked for logs for the last time
  is ignored because it is still in progress (`swiobserver.cpp:306`); completion then
  deletes the flag file (`:162`) and lets the server exit, and the log waits for the next
  installation, while `swiobcommon.h` says that the flag shows that there are logs left (`FlagShowsLogs` with
  an overlap).
* `CancelTransaction` of SCR ignores the error of the roll back, which a running view causes, and clears the
  owner: a transaction is open that belongs to nobody, although `scrserver.h:113` takes no owner for no
  transaction (`NoOwnerNoTransaction`; `OrphanNeverLands` is what holds all the same). An I/O error in any
  statement turns auto-commit on while the server still has an owner. A connection closed with
  statements pending is leaked (`main.c:160`).
* The timer that returns a key to the pool belongs to the object that publishes, and the plug-in may
  be destroyed within its two seconds: the key is lost, and after ten such operations none can be published
  (`DeletedAfterTimer`). Two publishers that overtake each other lose an entry of the list, and a key that goes
  while another comes is not noticed, since `RunL` compares lengths (what `disturbed` and `behind` except).
* The long timer of the launcher stays marked active when the queue was run, so a server that nobody uses
  may stay (`EndsWhenUnused`); a second `ExecuteQueue` while the first waits activates an active object
  (`ExecuteQueuePanics`).

Further disagreements that these modules reproduce when the constants are changed:
`CreateNewL` leaves an orphan (`Atomic` with `EveryCall` and a crash); with two drives
`ETempFilesRemoved` of one hides the backups of the other (`JournalOutlivesBackups`); a
journal whose drive could not be written to the `.drv` file is used all the same (`JournalListed` with a
fault); a commit called again writes `ECommitted` twice, and recovery cannot read the journal (what
`SpoiltByRecommit` excepts); a clock that shows an identifier again loads the pending journal of the
earlier transaction (`BeginsEmpty` without the exception of `failed`); transactions older than half the
range of the clock word are missed by the search (`EveryActiveFound` with `MaxAge` not below `Word \div 2`).
In the observer: a log given up half way leaves `iHeader` set, and the first plugin of the next log
is not started (`StartedFirst` without `~cut`); the log of an installation that failed can be
processed between the close of its handle and the roll back, contrary to the comment at
`swiobserver.cpp:207` (`AloneOnlyCommitted` without `NoOverlap`); a backup that ends between the reading of the property and the
subscription is not noticed (`AloneProcessed` with backups); an error of `RunL` deletes the flag file
with logs left (`FlagShowsLogs` with a fault).

## 4. Theorems

`StsJournalProofs` proves, for any finite set of drives, any files, calls and bounds:

* `TypeCorrect` and `Invariance`: `Spec => []TypeOK`, `Spec => []IInv`.
* `CommitIsBarrier`: `Spec => CommitBarrier`, that is: a commit destroys no backup until every
  drive of the transaction durably holds `ECommitted`.
* `CommittedNeverUndone`: `Spec => CommittedNotUndone`: once the journal of a drive durably holds `ECommitted`,
  nothing changes the files of that drive any more but for the temporary ones.
* `EveryJournalListed` and `EveryJournalReadable`: `JournalListed` and `JournalReadable` (`ReadEntryL` accepts
  every journal) hold as long as there was no I/O error (`faults = 0`), whatever crashed or was ejected. With an error
  they are false (3.2); `SpoiltByRecommit` says what then makes a journal unreadable.

If all files are on one drive (`OneDrive`) and names that calls make temporary were free before
(`TempsAreNew`), whatever crashes and I/O errors occur:

* `OneInvariance`: `Spec => []OneInv`, and from it `OriginalsNotLost` (`NoOriginalLost`), `BackupsHaveAJournal`
  (`JournalOutlivesBackups`), `ReportsStayTrue` (`AckedOutcome`) and `AtMostOneOrphan` (`OneOrphanPerCrash`).
* `OneDriveAtomic` and `OneDriveRefines`: if moreover no call has the server create a file (`~ServerCreates`),
  a settled transaction is all or nothing (`Atomic`), and every behaviour of the engine is one of
  `AtomicTransaction`, up to its fairness, which `ImplementsAtomic` checks in `StsOneDrive`.

`StsOneDrive` is an instance of all three hypotheses, `StsEveryCall` of the first two. Each is there because the
code needs it: two drives break `Atomic` (`StsSplitRollBack`) and `JournalOutlivesBackups`; a temporary name
that was an original's is deleted after the original is restored; a file that the server creates before it
is journalled is the orphan. The install server gives temporary files names of their own.

All of them rest on the assumptions named in `StsJournal` only. `CommitBarrier` is not inductive: that the
journals hold `ECommitted` while backups are deleted follows from the loop of the *previous*
stage. `IInv` therefore says how far the commit has come: while the call is in a commit stage,
its drives are exactly those of `iAllDrives`, each once in `iJournalFiles` (`DrivesKnown`,
from `StartCommitL`'s count and the order of drives), the drives the loop has passed hold this stage's
event and the others the previous one (`CommitMarks`). `TypeOK` itself needs that every leaf
has a slot for its backup (`LeavesHaveBackups`), that the walk visits existing leaves of drives
with a journal (`WorkIsLeaves`), that a loop over drives has one left when its body runs
(`DriveToDo`), and that a call in progress belongs to an open transaction (`CallOp`, `ClientServed`).
The proof has one lemma per group of actions, and `IInvStep` puts them together.

Three more invariants build on `IInv`. `UndoInv` is for `CommittedNotUndone`: memory may run ahead of
the journal, since recovery does not record its progress, but never across the commit point, because a journal whose
memory says "undo" is not durably past it (`MemoryAhead`), and a walk only visits leaves of its
stage and its drive (`WorkOfStage`). Without errors, `ListInv` and `ReadInv` say which drives the `.drv` file
mentions within a call (`AllListed`) and after a roll back (`DoneEmptied`), and which events a journal ends
with at each stage of commit (`CommitLasts`) and roll back (`RollLasts`, `StageLasts`): a stage begins
where the one before it ended, also for a client that calls a failed roll back again.

`OneInv` says what became of the files. A transaction may crash, be rolled back half way and start again, so
the content of one file is determined by nothing less than: where it and each backup come from
(`Origins`, `BackupsOwned`), what the call in progress has done (`CallState`), which backups, temporary files
and journals the stages behind have removed (`BackupsGone`, `TempsGone`, `LogsGone`), and, by whether `ECommitted`
is on disk, that an addition still there is still to be visited and an original still away is still in the
walk (`Undone`), or that every file is as promised (`Kept`). `Passed` joins the journal on disk with the
memory of the server, since either decides what is skipped. When the transaction is settled
nothing is left to visit, which gives the outcome (`SettledFiles`).

`StsServerProofs` proves, for any finite set of sessions, any identifiers and any bounds on operations,
opens, crashes and failures, from the assumptions named in `StsServer`:

* `ServerTypeCorrect`: `Spec => []TypeOK`, in particular that no count drops below zero.
* `CountsAreExact`: `Spec => []RefsExact`.
* `OnlyHoldersResolve`: `Spec => ResolvedByHolder`.
* `TransactionsAreAtomic`: `Spec => []AllTogether`: the operations of a transaction are all kept or all undone, shared
  or not, whatever failed, crashed and was recovered, and whatever an earlier transaction of the
  identifier left. The exception, `late`, is a transaction in which a session operated after another one had completed it.
* `NothingStaysBehind`: `Spec => []NothingLeftBehind`: what is pending in a running server without a session
  is what a roll back failed to undo (`failed`), or `late`. Nothing is assumed of failures, deaths or sharing.
* `TransactionsBeginEmpty`: `Spec => []BeginsEmpty`: a transaction holds nothing of an earlier one of its identifier, but for
  `failed` and `late`.

`TypeOK` and `RefsExact` hold only together: a count stays natural because it counts the session
that goes, and that a deleted wrapper leaves no pointer behind is because a count of one means one
session (`HolderCounted`). `JoinCounts` and `LeaveCounts` are `AttachTransactionL` and
`ReleaseTransactionL`; the actions cite them. `ResolvedByHolder` follows because recovery needs an empty container, and an
empty container means that nobody is attached (`NoWrapper`).
`AllTogether` is not inductive either: a session that goes on in a transaction of which
something has been resolved would break it. `AInv` adds that this cannot be unless it is `late` (`ResolvedIsOver`: then
nothing is pending, and the wrapper, if there still is one, is completed), and that an operation is made
once, in one transaction (`OpsNumbered`, `OpsApart`), so that resolving one transaction does not touch the others
(`NewOutcome`). `LInv` holds `NothingLeftBehind` and `BeginsEmpty` together with the reason why a destructor may leave a
completed transaction alone: nothing is pending in it but what `failed` and `late` name (`CompletedIsEmpty`).

`TransactionTableProofs` proves `YoungAreFound` (`EveryActiveFound`), `ContainerTypeCorrect` and `ContainerInvariance`
for every word of the clock and every number of transactions, if none becomes as old as half the range of
the word (`MaxAge < Word \div 2`; `TableYoung` is an instance, and 3.2 says what happens otherwise). The identifiers are then in the order of the ages even
when the clock has wrapped around (`Listed`, `CompareAges`), and a new one goes to the end. What the search
computes follows by the smallest range on which it could differ from a closed form (`SearchIs`); the same
argument shows first that its recursive definition has a solution.

`SwisMachineProofs` proves, for any finite or infinite set of clients, any number of packages, failures and ends
of the process, from `SwisAssumption`:

* `TypeCorrect`, `ClientsToldTruth` (`ToldTruth`: a client told of success has all three results, one told
  of a cancellation, its own or the user's no, has none), `TornInWindow` (`TornOnlyInWindow`);
* `CommitsInOrder`: the registry names only committed files, and the observer is told only of a committed
  registry (`InCommitOrder`);
* `LockIsOwned`: the flag of a machine's registry wrapper is true exactly while its session owns the
  transaction, and no machine told of success or cancellation holds it (`LockOwned`);
* `CancelIsHonoured`: no step of a cancelled machine tells its client of success, a cancellation whose call to the
  launcher left included (`CancelHonoured`);
* `QueueIsOfWaiting`: the observer's queue holds a session once, and only while its machine waits
  (`QueueOfWaiting`).

None of them is inductive: what a client is told at the end depends on every call that was
made before. `IInv` says what each place in the sequence of calls may assume: `StageOK` what the stage of a
machine says of its two transactions and its log (after `UndoFiles` nothing is left of the files; at
`commitRegistry` they are new and the registry old), `StsOK` what the state of the files' transaction says of
the rest, `ToldOK` which machine may be where and what its client was told. `OneRuns` says that one
machine runs at a time and `FlagIsLock` that flag and owner change together, which makes another machine's
step leave these facts alone. There is one lemma for each part of `IInv`, with one step for each action.

`SisLauncherProofs` proves, for any clients and any number of files, from `LauncherAssumption`:

* `TypeCorrect`, in particular that the queue, which never shrinks while the server lives, has no more entries
  than there are files;
* `ShortTimerIsHarmless` (`ShortTimerHarmless`), `FilesRunOnce` (`RunOnce`), `ExecutedFilesKept`
  (`ExecutedIsKept`), and `RunOnlyAfterEcom` (`RunAfterEcom`: files are run on a notification without an error
  and on nothing else).

`RunOnce` needs that no file is queued twice, although entries stay in the queue after they were run
and any number of clients append to it. `IInv` has a function from the places of the queue to the
files each was made for (`QueueOK`, `Origin`): it is injective, no client still plans a file of its range
(`PlansApart`), and an entry that is not deleted has not been run. The bound on the queue's length is
the pigeonhole principle on that function. `TimersOK` ties the two timers to the sessions and the
processor, `ExecutedOK` says that an executed file which has not been run is still queued, under
the long timer.

`ScrServerProofs` proves, for any sessions and any components, from `ScrAssumption`:

* `TypeCorrect`, and `OwnerIsConnected` (`OwnerConnected`): the session the server points at exists;
* `ComponentsWhole` (`WholeOnDisk`), `OwnerWritesAlone` (`OnlyOwnerWrites`), `HiddenUntilCommit`
  (`TransactionHides`), `OrphansStay` (`OrphanNeverLands`);
* `ToldOfTheEnd` (`EndsClean`): a client that was told its transaction is committed finds all of it on disk,
  one that was told it is rolled back finds none.

`WholeOnDisk` is not inductive, since rows come to the disk by three ways: the commit of the connection,
the end of somebody else's statement in auto-commit mode, and the late commit of a leaked connection.
`RowsKept` says that what waits on each of these is whole too, except in a transaction that nobody owns;
that such a transaction never lands is `OrphanNeverLands`, and needs that only an owner may ask for a commit.
`LeakAlone` keeps the leaked connection apart from the new one: one that may still commit leaves no transaction
to it, and a session that owns one has found none.

`SifNotificationProofs` proves, for any publishers, keys and bounds, `KeysAreDisjoint` (`KeysDisjoint`). The code
searches for a key that is not defined and defines it in a later call, so two publishers can hold the
same number in between. `OwnKey` says that this is the only time: from `DefineKey`, which succeeds for one of them,
a publisher that still counts on its key is the one whose property it is. `PublishedType` is the
part of the type invariant about publishers and properties that this needs.

`KeepsInStep` (`InStep`) is about the notifier, and `TypeCorrect` about the rest of the types. It needs that the list
has no duplicates and that its keys are those of operations that were listed (`ListRight`), that what the notifier has
seen is the list itself or one change behind it (`SeenRight`), and that it has told once of the operations among
what it has seen (`StartedRight`). `RunL` only compares lengths, and its loop passes over the key behind one it
removes; on a list that differs in one key that is enough. For publishers that overtake each
other (`disturbed`) or are faster than the notifier (`behind`) it is not.

`SwiObserverProofs` proves, for any clients, any number of plugins and logs, any contents and bounds, from the
assumptions named in `SwiObserver`:

* `HeardBeforeDeletion` (`DeletedWhenHeard`): a running server deletes a log only when every plugin has heard it to
  its end, unless the log cannot be read or an error ended the processing;
* `OnlyCommittedIsTold` (`AloneOnlyCommitted`): no plugin hears of an installation that failed, as long as no client
  came while the observer was at work;
* `TimerMeansIdle` (`TimerOnlyWhenIdle`): the server does not go while it processes;
* `ToldOnceInOrder` (`ToldInOrder`) and `StartComesFirst` (`StartedFirst`): what a plugin is told of a log is a beginning of
  what is written there and concerns it, in order and once; it starts with the start, as long as no log was
  given up half way.

The first needs `HeardSoFar`, which ties what the plugins were told to the place of the processor in the log and
in the list of plugins, and `Places`, which says where a log can be: one that a client has open stays in
`log_swi`, the one being processed is no longer there, and the number given next is above all of them. The second needs that one
client at a time has a log, and none while the processor works (`OneWrites`), so that what is moved to
`log_obs` has been committed (`OnlyKept`). The last two need that the plugin at work has heard exactly what is
wanted of the log up to the reader's position and the plugins after it nothing (`HeardUpto`), that
nothing was told of a log that still waits (`Fresh`), and that `iHeader` outlives a log only if that was given up
(`HeaderOld`). `HalfDone` says what a log given up half way leaves behind. `LogTypes` is
the type invariant without `waiters` and without the bound on mishaps, which no theorem here needs.

`LeastNatural`, that a non-empty set of naturals has a least member, stands at the head of four of the modules: the
operators that choose the next drive, key or log number rest on it, and it stands in for induction where a
recursive function is reasoned about (`Wanted` of the observer, the loops of `RunL` in SIF, `Search` of the container).
The prover cannot instantiate the library's induction theorems, but that there is no smallest counterexample can
be shown directly.

`InCommitOrder`, `LockOwned`, `CancelHonoured`, `QueueOfWaiting`, `RunAfterEcom`, `OwnerConnected`, `EndsClean`,
`TimerOnlyWhenIdle` and the type invariants are not listed in a run: they are theorems, and TLC was used to find
them. A few more properties are defined beside those the runs check and hold in the same instances:
`ListedOnce`, `ToldRight`, `EndsUnlessLong`, `AloneFlagged`.

Model-checked only: liveness (`JournalsFinish`, `AllResolved`, `FirstWaiterServed`,
`AloneProcessed`, `KeyComesBack`, `RunningTold`, `ExecutedIsRun`, `EveryoneTold`, `LockFreed`), which is beyond
the prover, and with it the fairness of `AtomicTransaction` in `ImplementsAtomic`; `AckedOutcome` on two drives;
`SpoiltByRecommit`.
Every other invariant and action property of a passing run is a theorem, under the hypotheses named
above. The bound on the number of mishaps in the observer's `TypeOK` is a bound of the model and not proved.

## 5. Not modelled, and the plan

Not modelled for good: parsing and certificate checking, user interface, resource and test
data, host tools and vendored code; they are data or sequential programs without the
hazards a model checker is for. That is most of the repository's lines: two copies of SQLite,
Xerces, the NCD engine with its user interface, tests and their data.

Left out of the modelled components, and why:

* SWI integrity services: the engine's older variant. The install server links it only without
  `SYMBIAN_UNIVERSAL_INSTALL_FRAMEWORK` (`installserver.mmp:117-122`), and then instead of STS; its journal is `StsJournal`'s with one
  difference, that several processes append to it (`SynchL`).
* SWIS: the restore machine (it takes both transactions at once, waits synchronously for the
  observer, and so adds to the queue's hazard), the states that only look things up, the UI server.
* SCR: the log of changes, software types and applications, which are rows like others; security checks.
* SIF: the transport server with its tasks and plug-ins, and the contents of progress data.
* SIS launcher: starting and stopping other processes, the notification of the application list.

Next, in this order: the restore machine beside `SwisMachine`; the transport server of SIF with
cancellation against completion; the SIS registry's cache and its backup; the installer daemon with
media that come and go; the installation plan as operators; IAD's background checker and the
operations of NCD.

Theorems next: `AckedOutcome` for several drives without I/O errors; which files a crash between the
commits of two drives can tear apart; what remains true of a transaction with a fault in its `.drv` file.
