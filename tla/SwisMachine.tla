----------------------------- MODULE SwisMachine -----------------------------
(***************************************************************************)
(* The state machine of the software install server (CSwisStateMachine) and     *)
(* what it composes: one transaction of the transaction server, the one          *)
(* transaction of the registry and the log of the observer, for every session      *)
(* that installs, uninstalls or asks what a package holds.                     *)
(*                                                                          *)
(* The server is one thread.  A RunL that finishes an operation makes several     *)
(* calls to other servers, one step each here: `running` is the session whose       *)
(* RunL is at it, and only the end of the process comes between.               *)
(***************************************************************************)
EXTENDS Naturals, FiniteSets, SequencesExt

CONSTANTS
    Sessions,  \* one client each, with one operation
    None,      \* no session
    Apps,      \* a package and the packages embedded in it
    MaxFaults, \* bound: calls that fail
    MaxDeaths  \* bound: ends of the process, with the phone or without

ASSUME SwisAssumption ==
    /\ None \notin Sessions
    /\ Apps \in Nat \ {0}
    /\ MaxFaults \in Nat
    /\ MaxDeaths \in Nat

VARIABLES
    stage,     \* iState, or the call that RunL or RunError has to make next
    kind,      \* which machine it is, and iIsInInfoMode
    cancelled, \* iCancelled
    refused,   \* RunL left with KErrCancel, for a no of the user or of the client
    running,   \* the session whose RunL is between two calls, or None
    left,      \* the packages the processor has not finished
    files,     \* the device's files: old, partly changed, or new and committed
    sts,       \* the transaction: open, sealed (past its commit point) or closed
    registry,  \* the committed registry
    writer,    \* the session that owns the registry's transaction, or None
    mutable,   \* iMutableOperationInProgress
    log,       \* the observer's log of this operation
    busy,      \* the observer is at work on logs
    waiters,   \* the sessions whose registration the observer has queued, in order
    told,      \* how the client's request was completed
    struck,    \* a commit was interrupted, or failed, after it began (history)
    faults,
    deaths

asked == <<kind, cancelled, refused>>
machine == <<stage, asked, running, left>>
results == <<files, registry, log>>
locks == <<sts, writer, mutable>>
observer == <<busy, waiters>>
bounds == <<faults, deaths>>
vars == <<machine, results, locks, observer, told, struck, bounds>>

Waiting == {"start", "register", "confirm", "files", "update", "stopped", "final"}
Calls == {"signal", "commitFiles", "commitRegistry", "commitLog", "post",
          "closeLog", "undoFiles", "undoRegistry", "postUndo",
          "fatal", "fatalFiles", "fatalRegistry", "fatalTell", "closing"}

TypeOK ==
    /\ stage \in [Sessions -> Waiting \cup Calls \cup {"none", "told", "closed"}]
    /\ kind \in [Sessions -> {"install", "uninstall", "info"}]
    /\ cancelled \in [Sessions -> BOOLEAN]
    /\ refused \in [Sessions -> BOOLEAN]
    /\ running \in Sessions \cup {None}
    /\ left \in [Sessions -> 0 .. Apps]
    /\ files \in [Sessions -> {"old", "part", "new"}]
    /\ sts \in [Sessions -> {"none", "open", "sealed", "closed"}]
    /\ registry \in [Sessions -> {"old", "new"}]
    /\ writer \in Sessions \cup {None}
    /\ mutable \in [Sessions -> BOOLEAN]
    /\ log \in [Sessions -> {"none", "making", "committed"}]
    /\ busy \in BOOLEAN
    /\ told \in [Sessions -> {"none", "waiting", "ok", "cancel", "error", "gone"}]
    /\ struck \in [Sessions -> BOOLEAN]
    /\ faults \in 0 .. MaxFaults
    /\ deaths \in 0 .. MaxDeaths

Init ==
    /\ stage = [s \in Sessions |-> "none"]
    /\ kind = [s \in Sessions |-> "install"]
    /\ cancelled = [s \in Sessions |-> FALSE]
    /\ refused = [s \in Sessions |-> FALSE]
    /\ running = None
    /\ left = [s \in Sessions |-> Apps]
    /\ files = [s \in Sessions |-> "old"]
    /\ sts = [s \in Sessions |-> "none"]
    /\ registry = [s \in Sessions |-> "old"]
    /\ writer = None
    /\ mutable = [s \in Sessions |-> FALSE]
    /\ log = [s \in Sessions |-> "none"]
    /\ busy \in BOOLEAN
    /\ waiters = <<>>
    /\ told = [s \in Sessions |-> "none"]
    /\ struck = [s \in Sessions |-> FALSE]
    /\ faults = 0
    /\ deaths = 0

-----------------------------------------------------------------------------
(* Where a session goes next.                                                *)

\* The handler returns to the scheduler and waits in stage w.
WaitIn(s, w) ==
    /\ stage' = [stage EXCEPT ![s] = w]
    /\ running' = None

\* The handler goes on to call c.
GoOn(s, c) ==
    /\ stage' = [stage EXCEPT ![s] = c]
    /\ running' = s

\* RunL leaves, and the scheduler calls RunError.
Leave(s) == GoOn(s, "fatal")

\* It leaves with KErrCancel, for somebody said no.
SayNo(s) ==
    /\ Leave(s)
    /\ refused' = [refused EXCEPT ![s] = TRUE]

Tell(s, code) ==
    /\ WaitIn(s, "told")
    /\ told' = [told EXCEPT ![s] = code]

Fails == faults < MaxFaults /\ faults' = faults + 1 /\ UNCHANGED deaths
Works == UNCHANGED bounds

At(s, c) == running = s /\ stage[s] = c
Scheduled(s, w) == running = None /\ stage[s] = w

\* RunL looks at iCancelled before anything else.
Runs(s, w) == Scheduled(s, w) /\ ~cancelled[s]

-----------------------------------------------------------------------------
(* The requests of a client.                                                 *)

\* EInstall, EUninstall, EGetComponentInfo: ConstructL opens the transaction.
Start(s, k) ==
    /\ Scheduled(s, "none")
    /\ kind' = [kind EXCEPT ![s] = k]
    /\ told' = [told EXCEPT ![s] = "waiting"]
    /\ sts' = [sts EXCEPT ![s] = "open"]
    /\ WaitIn(s, "start")
    /\ Works
    /\ UNCHANGED <<cancelled, refused, left, results, writer, mutable, observer, struck>>

\* ConstructL leaves, or iMachine->Start does: then the machine stays, unused.
StartFails(s) ==
    /\ Scheduled(s, "none")
    /\ Fails
    /\ Tell(s, "error")
    /\ \E t \in {"none", "open"} : sts' = [sts EXCEPT ![s] = t]
    /\ UNCHANGED <<asked, left, results, writer, mutable, observer, struck>>

\* The observer has not answered the registration of s.
Queued(s) == Contains(waiters, s)

\* A processor that its machine cancels: that of an installation, for the other goes
\* on to its end.
Stoppable(s) == kind[s] = "install" /\ stage[s] \in {"files", "update"}

\* ECancel: iCancelled is set, and the state asked to give up its wait.  The observer
\* forgets a registration that it has queued; the processor is cancelled, unless the
\* call to the launcher before that leaves.  A machine whose client has been told
\* takes the request, too.
CancelInstallation(s) ==
    /\ running = None
    /\ stage[s] \in Waiting \cup {"told"}
    /\ ~cancelled[s]
    /\ cancelled' = [cancelled EXCEPT ![s] = TRUE]
    /\ IF Queued(s)
       THEN \E i \in DOMAIN waiters :
              waiters[i] = s /\ waiters' = RemoveAt(waiters, i)
       ELSE UNCHANGED waiters
    /\ \/ Stoppable(s) /\ Works /\ WaitIn(s, "stopped")
       \/ Stoppable(s) /\ Fails /\ UNCHANGED <<stage, running>>
       \/ ~Stoppable(s) /\ Works /\ UNCHANGED <<stage, running>>
    /\ UNCHANGED <<kind, refused, left, results, locks, busy, told, struck>>

-----------------------------------------------------------------------------
(* The states.                                                               *)

\* The first RunL enters the registration state: the observer is asked, and queues
\* the request while it is at work.
Begin(s) ==
    /\ Runs(s, "start")
    /\ \/ /\ Works
          /\ WaitIn(s, "register")
          /\ waiters' = IF busy THEN Append(waiters, s) ELSE waiters
       \/ Fails /\ Leave(s) /\ UNCHANGED waiters
    /\ UNCHANGED busy
    /\ UNCHANGED <<asked, left, results, locks, told, struck>>

\* The observer has answered; its log is created and joins the transaction.
Registered(s) ==
    /\ Runs(s, "register")
    /\ ~Queued(s)
    /\ \/ Works /\ WaitIn(s, "confirm")
       \/ Fails /\ Leave(s)
    /\ log' = [log EXCEPT ![s] = "making"]
    /\ UNCHANGED <<asked, left, files, registry, locks, observer, told, struck>>

\* The user agrees; a machine in info mode has all it needs then.
Confirmed(s) ==
    /\ Runs(s, "confirm")
    /\ WaitIn(s, IF kind[s] = "info" THEN "final" ELSE "files")
    /\ Works
    /\ UNCHANGED <<asked, left, results, locks, observer, told, struck>>

\* The user says no, or a state on the way there leaves.
Refused(s) ==
    /\ Runs(s, "confirm")
    /\ \/ SayNo(s)
       \/ Leave(s) /\ UNCHANGED refused
    /\ Works
    /\ UNCHANGED <<kind, cancelled, left, results, locks, observer, told, struck>>

\* The processor is an object of its own, and goes on when its machine is cancelled but
\* it is not.  The machine is told that it failed.
ProcessorFails(s) ==
    IF cancelled[s] THEN GoOn(s, "closeLog") ELSE Leave(s)

\* It asks the user, too: whether to go on with an application in use, or with a text.
ProcessorSaysNo(s) ==
    IF cancelled[s] THEN GoOn(s, "closeLog") /\ UNCHANGED refused ELSE SayNo(s)

\* The files of one package are removed and installed.
ChangeFiles(s) ==
    /\ Scheduled(s, "files")
    /\ files' = [files EXCEPT ![s] = "part"]
    /\ \/ Works /\ WaitIn(s, "update") /\ UNCHANGED refused
       \/ Fails /\ ProcessorFails(s) /\ UNCHANGED refused
       \/ Works /\ ProcessorSaysNo(s)
    /\ UNCHANGED <<kind, cancelled, left, registry, log, locks, observer, told, struck>>

\* Another session owns the registry's transaction.
RegistryRefused(s) ==
    /\ Scheduled(s, "update")
    /\ writer \notin {s, None}
    /\ ProcessorFails(s)
    /\ Works
    /\ UNCHANGED <<asked, left, results, locks, observer, told, struck>>

\* StartMutableOperationsL, which takes the transaction once and may fail, and the
\* entry of one package; the machine goes on after the last.
UpdateRegistry(s) ==
    /\ Scheduled(s, "update")
    /\ writer \in {s, None}
    /\ \/ /\ Fails
          /\ ProcessorFails(s)
          /\ writer' \in {writer, s}
          /\ UNCHANGED left
       \/ /\ Works
          /\ writer' = s
          /\ left' = [left EXCEPT ![s] = @ - 1]
          /\ IF left[s] > 1 THEN WaitIn(s, "files")
             ELSE IF cancelled[s] THEN GoOn(s, "closeLog")
             ELSE WaitIn(s, "final")
    /\ mutable' = [mutable EXCEPT ![s] = (writer' = s)]
    /\ UNCHANGED <<asked, results, sts, observer, told, struck>>

\* No state is left: FinalizeJournalsL(KErrNone).
Finish(s) ==
    /\ Runs(s, "final")
    /\ GoOn(s, IF kind[s] = "info" THEN "closeLog" ELSE "signal")
    /\ Works
    /\ UNCHANGED <<asked, left, results, locks, observer, told, struck>>

\* The wait was given up: FinalizeJournalsL(KErrCancel).
RunCancelled(s) ==
    /\ running = None
    /\ cancelled[s]
    /\ stage[s] \in Waiting \ {"files", "update"}
    /\ GoOn(s, "closeLog")
    /\ Works
    /\ UNCHANGED <<asked, left, results, locks, observer, told, struck>>

-----------------------------------------------------------------------------
(* FinalizeJournalsL without an error.                                       *)

\* Mutant: the client is asked when the files are committed already.
SignalAfterCommit(s) ==
    /\ At(s, "signal")
    /\ files' = [files EXCEPT ![s] = "new"]
    /\ sts' = [sts EXCEPT ![s] = "closed"]
    /\ \/ GoOn(s, "commitRegistry") /\ UNCHANGED refused
       \/ SayNo(s)
    /\ Works
    /\ UNCHANGED <<kind, cancelled, left, registry, log, writer, mutable, observer, told,
                   struck>>

\* The client can still say no.
SignalCompleted(s) ==
    /\ At(s, "signal")
    /\ \/ GoOn(s, "commitFiles") /\ UNCHANGED refused
       \/ SayNo(s)
    /\ Works
    /\ UNCHANGED <<kind, cancelled, left, results, locks, observer, told, struck>>

\* The transaction is committed, and the session to it closed; a failure is one
\* before the commit point, or one after it.
CommitFiles(s) ==
    /\ At(s, "commitFiles")
    /\ \/ /\ Works
          /\ files' = [files EXCEPT ![s] = "new"]
          /\ sts' = [sts EXCEPT ![s] = "closed"]
          /\ GoOn(s, "commitRegistry")
          /\ UNCHANGED struck
       \/ /\ Fails
          /\ Leave(s)
          /\ UNCHANGED <<files, sts, struck>>
       \/ /\ Fails
          /\ files' = [files EXCEPT ![s] = "new"]
          /\ sts' = [sts EXCEPT ![s] = "sealed"]
          /\ struck' = [struck EXCEPT ![s] = TRUE]
          /\ Leave(s)
    /\ UNCHANGED <<asked, left, registry, log, writer, mutable, observer, told>>

\* The registry's transaction of s, if any, ends.
EndWrite(s) ==
    /\ writer' = IF mutable[s] THEN None ELSE writer
    /\ mutable' = [mutable EXCEPT ![s] = FALSE]

CommitRegistry(s) ==
    /\ At(s, "commitRegistry")
    /\ \/ /\ Works
          /\ registry' = [registry EXCEPT ![s] = IF mutable[s] THEN "new" ELSE @]
          /\ EndWrite(s)
          /\ GoOn(s, "commitLog")
          /\ UNCHANGED struck
       \/ /\ Fails
          /\ Leave(s)
          /\ struck' = [struck EXCEPT ![s] = TRUE]
          /\ UNCHANGED <<registry, writer, mutable>>
    /\ UNCHANGED <<asked, left, files, log, sts, observer, told>>

CommitLog(s) ==
    /\ At(s, "commitLog")
    /\ \/ /\ Works
          /\ log' = [log EXCEPT ![s] = "committed"]
          /\ busy' = TRUE
          /\ GoOn(s, "post")
       \/ /\ Fails
          /\ Leave(s)
          /\ UNCHANGED <<log, busy>>
    /\ UNCHANGED <<asked, left, files, registry, locks, waiters, told, struck>>

\* PostJournalFinalizationL, which uses the launcher, and CompleteClientL.
PostJournalFinalization(s) ==
    /\ At(s, "post")
    /\ \/ Works /\ Tell(s, "ok")
       \/ Fails /\ Leave(s) /\ UNCHANGED told
    /\ UNCHANGED <<asked, left, results, locks, observer, struck>>

-----------------------------------------------------------------------------
(* FinalizeJournalsL with an error, or in info mode.                         *)

\* An observer session that is closed deletes a log it has not committed.
Dropped(s) == [log EXCEPT ![s] = IF @ = "making" THEN "none" ELSE @]

CloseLog(s) ==
    /\ At(s, "closeLog")
    /\ log' = Dropped(s)
    /\ GoOn(s, "undoFiles")
    /\ Works
    /\ UNCHANGED <<asked, left, files, registry, locks, observer, told, struck>>

\* Mutant: a failure is ignored.
UndoFilesTrapped(s) ==
    /\ At(s, "undoFiles")
    /\ \/ /\ Works
          /\ files' = [files EXCEPT ![s] = "old"]
          /\ sts' = [sts EXCEPT ![s] = "closed"]
       \/ Fails /\ UNCHANGED <<files, sts>>
    /\ GoOn(s, "undoRegistry")
    /\ UNCHANGED <<asked, left, registry, log, writer, mutable, observer, told,
                   struck>>

UndoFiles(s) ==
    /\ At(s, "undoFiles")
    /\ \/ /\ Works
          /\ files' = [files EXCEPT ![s] = "old"]
          /\ sts' = [sts EXCEPT ![s] = "closed"]
          /\ GoOn(s, "undoRegistry")
       \/ /\ Fails
          /\ Leave(s)
          /\ UNCHANGED <<files, sts>>
    /\ UNCHANGED <<asked, left, registry, log, writer, mutable, observer, told,
                   struck>>

UndoRegistry(s) ==
    /\ At(s, "undoRegistry")
    /\ \/ /\ Works
          /\ EndWrite(s)
          /\ GoOn(s, "postUndo")
       \/ /\ Fails
          /\ Leave(s)
          /\ UNCHANGED <<writer, mutable>>
    /\ UNCHANGED <<asked, left, results, sts, observer, told, struck>>

\* PostJournalFinalizationL, which does nothing in info mode, and CompleteClientL.
CompleteUndone(s) ==
    /\ At(s, "postUndo")
    /\ \/ Works /\ Tell(s, IF cancelled[s] THEN "cancel" ELSE "ok")
       \/ kind[s] # "info" /\ Fails /\ Leave(s) /\ UNCHANGED told
    /\ UNCHANGED <<asked, left, results, locks, observer, struck>>

-----------------------------------------------------------------------------
(* The end of a session, and that of the process.                            *)

\* What the transaction server makes of a session that is gone: an open transaction
\* is rolled back, and one past its commit point is committed.
Settled(f, t) == CASE t = "open" -> "old" [] t = "sealed" -> "new" [] OTHER -> f

\* Mutant: the registry's session outlives the machine.
EndSessionsButWriter(S, sealed, landed) ==
    /\ files' = [s \in Sessions |->
                   IF s \in S
                   THEN Settled(files[s], IF s \in sealed THEN "sealed" ELSE sts[s])
                   ELSE files[s]]
    /\ registry' = [s \in Sessions |-> IF s \in landed THEN "new" ELSE registry[s]]
    /\ log' = [s \in Sessions |->
                 IF s \in S /\ log[s] = "making" THEN "none" ELSE log[s]]
    /\ sts' = [s \in Sessions |-> IF s \in S THEN "closed" ELSE sts[s]]
    /\ mutable' = [s \in Sessions |-> mutable[s] /\ s \notin S]
    /\ UNCHANGED writer
    /\ told' = [s \in Sessions |->
                  IF s \in S /\ told[s] = "waiting" THEN "gone" ELSE told[s]]
    /\ stage' = [s \in Sessions |-> IF s \in S THEN "closed" ELSE stage[s]]
    /\ running' = None

\* The machines of S are deleted, and their sessions to the other servers closed.
EndSessions(S, sealed, landed) ==
    /\ files' = [s \in Sessions |->
                   IF s \in S
                   THEN Settled(files[s], IF s \in sealed THEN "sealed" ELSE sts[s])
                   ELSE files[s]]
    /\ registry' = [s \in Sessions |-> IF s \in landed THEN "new" ELSE registry[s]]
    /\ log' = [s \in Sessions |->
                 IF s \in S /\ log[s] = "making" THEN "none" ELSE log[s]]
    /\ sts' = [s \in Sessions |-> IF s \in S THEN "closed" ELSE sts[s]]
    /\ mutable' = [s \in Sessions |-> mutable[s] /\ s \notin S]
    /\ writer' = IF writer \in S THEN None ELSE writer
    /\ told' = [s \in Sessions |->
                  IF s \in S /\ told[s] = "waiting" THEN "gone" ELSE told[s]]
    /\ stage' = [s \in Sessions |-> IF s \in S THEN "closed" ELSE stage[s]]
    /\ running' = None

Connected == {s \in Sessions : stage[s] \notin {"none", "closed"}}

\* The registration request is outstanding, and DoCancel does not cancel it: the
\* thread waits for the observer in the destructor.
HoldsClose(s) == stage[s] = "register" /\ ~cancelled[s]

\* A client closes its session, or dies, at any time.
CloseSession(s) ==
    /\ running = None
    /\ s \in Connected
    /\ ~HoldsClose(s)
    /\ EndSessions({s}, {}, {})
    /\ Works
    /\ UNCHANGED <<observer, asked, left, struck>>

CloseRegistering(s) ==
    /\ running = None
    /\ HoldsClose(s)
    /\ GoOn(s, "closing")
    /\ Works
    /\ UNCHANGED <<asked, left, results, locks, observer, told, struck>>

Closing(s) ==
    /\ At(s, "closing")
    /\ ~Queued(s)
    /\ EndSessions({s}, {}, {})
    /\ Works
    /\ UNCHANGED <<observer, asked, left, struck>>

\* The process ends: switched off, or because RunError left, or by the panic of a
\* call on a closed session.  A commit that was going on may have been made.
Death ==
    /\ deaths < MaxDeaths
    /\ deaths' = deaths + 1
    /\ Connected # {}
    /\ \E sealed \in SUBSET {s \in Sessions : At(s, "commitFiles")},
          landed \in SUBSET {s \in Sessions : At(s, "commitRegistry") /\ mutable[s]} :
         EndSessions(Connected, sealed, landed)
    /\ struck' = [s \in Sessions |->
                    \/ struck[s]
                    \/ At(s, "commitFiles")
                    \/ At(s, "commitRegistry")]
    /\ waiters' = <<>>
    /\ UNCHANGED <<asked, left, busy, faults>>

-----------------------------------------------------------------------------
(* The observer, and those who install without this server.                  *)

\* The logs are processed.  Only the first of those that wait is answered.
ObserverIdle ==
    /\ busy
    /\ busy' = FALSE
    /\ waiters' = IF waiters = <<>> THEN <<>> ELSE Tail(waiters)
    /\ Works
    /\ UNCHANGED <<machine, results, locks, told, struck>>

-----------------------------------------------------------------------------
(* RunError.                                                                 *)

\* The observer's session is closed.  A dialog that fails takes the rest of
\* InformUserOfFatalErrorL with it: both roll backs.  There is none after a no.
RunError(s) ==
    /\ At(s, "fatal")
    /\ log' = Dropped(s)
    /\ \/ Works /\ GoOn(s, "fatalFiles")
       \/ ~refused[s] /\ Fails /\ GoOn(s, "fatalTell")
    /\ UNCHANGED <<asked, left, files, registry, locks, observer, told, struck>>

\* What InformUserOfFatalErrorL leaves with replaces the error.
ReplacesError(s) == refused' = [refused EXCEPT ![s] = FALSE]

\* A transaction past its commit point is finished; a call on a closed session
\* leaves, and so the registry's transaction stays.
FatalFiles(s) ==
    /\ At(s, "fatalFiles")
    /\ \/ /\ Works
          /\ sts[s] # "closed"
          /\ files' = [files EXCEPT ![s] = Settled(@, sts[s])]
          /\ sts' = [sts EXCEPT ![s] = "closed"]
          /\ GoOn(s, "fatalRegistry")
          /\ UNCHANGED refused
       \/ /\ IF sts[s] = "closed" THEN Works ELSE Fails
          /\ GoOn(s, "fatalTell")
          /\ ReplacesError(s)
          /\ UNCHANGED <<files, sts>>
    /\ UNCHANGED <<kind, cancelled, left, registry, log, writer, mutable, observer, told,
                   struck>>

FatalRegistry(s) ==
    /\ At(s, "fatalRegistry")
    /\ \/ Works /\ EndWrite(s) /\ UNCHANGED refused
       \/ Fails /\ UNCHANGED <<writer, mutable>> /\ ReplacesError(s)
    /\ GoOn(s, "fatalTell")
    /\ UNCHANGED <<kind, cancelled, left, results, sts, observer, told, struck>>

\* Mutant: a request whose roll back failed is not completed.
FatalTellClosed(s) ==
    /\ At(s, "fatalTell")
    /\ WaitIn(s, "told")
    /\ told' = [told EXCEPT ![s] = IF sts[s] # "closed" THEN @
                                   ELSE IF refused[s] THEN "cancel" ELSE "error"]
    /\ Works
    /\ UNCHANGED <<asked, left, results, locks, observer, struck>>

FatalTell(s) ==
    /\ At(s, "fatalTell")
    /\ Tell(s, IF refused[s] THEN "cancel" ELSE "error")
    /\ Works
    /\ UNCHANGED <<asked, left, results, locks, observer, struck>>

-----------------------------------------------------------------------------
Operates(s) ==
    \/ Begin(s) \/ Registered(s) \/ Confirmed(s) \/ Refused(s)
    \/ ChangeFiles(s) \/ RegistryRefused(s) \/ UpdateRegistry(s)
    \/ Finish(s) \/ RunCancelled(s)

Finalizes(s) ==
    \/ SignalCompleted(s) \/ CommitFiles(s) \/ CommitRegistry(s) \/ CommitLog(s)
    \/ PostJournalFinalization(s)
    \/ CloseLog(s) \/ UndoFiles(s) \/ UndoRegistry(s) \/ CompleteUndone(s)
    \/ RunError(s) \/ FatalFiles(s) \/ FatalRegistry(s) \/ FatalTell(s)
    \/ Closing(s)

Serves(s) == Operates(s) \/ Finalizes(s)

Client(s) ==
    \/ \E k \in {"install", "uninstall", "info"} : Start(s, k)
    \/ StartFails(s)
    \/ CancelInstallation(s)
    \/ CloseSession(s) \/ CloseRegistering(s)

Next ==
    \/ \E s \in Sessions : Serves(s) \/ Client(s)
    \/ ObserverIdle
    \/ Death

Spec == Init /\ [][Next]_vars

\* A client whose request has been completed closes its session some time.
ClosesWhenTold(s) == told[s] \in {"ok", "cancel", "error"} /\ CloseSession(s)

FairSpec ==
    /\ Spec
    /\ \A s \in Sessions : WF_vars(Serves(s)) /\ WF_vars(ClosesWhenTold(s))
    /\ WF_vars(ObserverIdle)

-----------------------------------------------------------------------------
(* Properties.                                                               *)

\* The registry names a package as installed only when its files are committed, and
\* the observer is told of an operation only when the registry is, whatever fails and
\* whenever the process ends: the order of the calls in FinalizeJournalsL.
InCommitOrder ==
    \A s \in Sessions :
      /\ registry[s] = "new" => files[s] = "new"
      /\ log[s] = "committed" => registry[s] = "new"

\* A client that is told of success has everything.  One that is told of cancellation,
\* for it asked for it or because it or the user said no, has nothing, and so has a
\* query for what a package holds.
ToldTruth ==
    \A s \in Sessions :
      /\ told[s] = "ok" /\ kind[s] # "info" =>
           files[s] = "new" /\ registry[s] = "new" /\ log[s] = "committed"
      /\ told[s] = "cancel" \/ (told[s] = "ok" /\ kind[s] = "info") =>
           files[s] = "old" /\ registry[s] = "old" /\ log[s] = "none"

\* The two transactions come apart, files new and registry old, only by an end of the
\* process or a failure within the two commits: the window that the comment in
\* FinalizeJournalsL admits, and no other path through a refusal, a cancellation, a
\* failure elsewhere or a closed session.
TornOnlyInWindow ==
    \A s \in Sessions :
      files[s] = "new" /\ registry[s] = "old" => struck[s] \/ stage[s] = "commitRegistry"

\* iMutableOperationInProgress of one machine is true exactly while the registry's
\* transaction is its session's: a machine never rolls back or commits what another
\* writes, and none that was told of success or cancellation keeps the others out.
LockOwned ==
    \A s \in Sessions :
      /\ mutable[s] <=> writer = s
      /\ writer = s => s \in Connected /\ told[s] \notin {"ok", "cancel"}

\* An operation whose cancellation was accepted before its client was told never ends in
\* success, although the flag is looked at only when RunL is called, and a processor
\* may go on.
CancelHonoured ==
    [][\A s \in Sessions : cancelled[s] /\ told[s] = "waiting" => told'[s] # "ok"]_vars

\* The observer queues a session once, and only while its machine waits for the answer,
\* in the registration state or in its destructor: the waiter of a request that was
\* cancelled, or answered, is gone.
QueueOfWaiting ==
    /\ waiters \in Seq(Sessions)
    /\ \A i \in DOMAIN waiters :
         /\ stage[waiters[i]] \in {"register", "closing"}
         /\ ~cancelled[waiters[i]]
         /\ \A j \in DOMAIN waiters : waiters[i] = waiters[j] => i = j

\* The observer is at rest, and has not answered a registration that it queued: it
\* answers one each time it has been at work.
LeftWaiting == ~busy /\ waiters # <<>>

\* Every request is completed, unless its client or the process goes, or the observer
\* leaves a registration waiting for good: then the thread may wait for it, too, in
\* the destructor of a machine, and nobody is served.
EveryoneTold ==
    \A s \in Sessions : told[s] = "waiting" ~> told[s] # "waiting" \/ []LeftWaiting

\* The registry is free for the next writer some time, whatever failed, with the same
\* exception.
LockFreed == \A s \in Sessions : writer = s ~> writer # s \/ []LeftWaiting

\* "If the SWI Observer processor is busy, the server completes the client when the
\* processor becomes idle" (swiobserverclient.cpp, RSwiObserverSession::Register).
RegistrationAnswered == \A s \in Sessions : Queued(s) ~> ~Queued(s)

\* The journals are rolled back if there is an error (the comments of
\* FinalizeJournalsL, and of RunError on problems of the user interface): a client
\* that is told of one finds no half of the operation.
ErrorRolledBack ==
    \A s \in Sessions : told[s] = "error" => files[s] # "part" /\ writer # s
=============================================================================
