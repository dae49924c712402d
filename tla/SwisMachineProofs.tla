-------------------------- MODULE SwisMachineProofs --------------------------
(***************************************************************************)
(* The safety invariants of SwisMachine, for any number of sessions, packages,     *)
(* failures and ends of the process.                                         *)
(***************************************************************************)
EXTENDS SwisMachine, SequenceTheorems, TLAPS

\* A session is in the middle of a RunL only while it is the one that runs.
OneRuns == \A s \in Sessions : stage[s] \in Calls => running = s

\* The flag of the registry wrapper follows the owner of the transaction.
FlagIsLock == \A s \in Sessions : mutable[s] <=> writer = s

\* What the stage of a session says of its two transactions and its log.
StageOK(s) ==
    /\ stage[s] = "none" =>
         sts[s] = "none" /\ ~mutable[s] /\ ~cancelled[s] /\ ~refused[s]
    /\ stage[s] \in {"none", "start", "register", "confirm", "files", "update"} =>
         left[s] > 0
    /\ stage[s] \in Waiting \cup {"signal", "commitFiles", "closeLog", "undoFiles", "closing"}
         => sts[s] = "open"
    /\ stage[s] = "commitRegistry" =>
         sts[s] = "closed" /\ files[s] = "new" /\ registry[s] = "old"
    /\ stage[s] \in {"commitLog", "post"} =>
         sts[s] = "closed" /\ registry[s] = "new" /\ ~mutable[s]
    /\ stage[s] \in {"signal", "commitFiles", "commitRegistry"} => mutable[s]
    /\ stage[s] = "final" /\ kind[s] # "info" => mutable[s]
    /\ stage[s] = "post" => log[s] = "committed"
    /\ stage[s] \in {"undoFiles", "undoRegistry", "postUndo"} => log[s] = "none"
    /\ stage[s] \in {"undoRegistry", "postUndo"} =>
         sts[s] = "closed" /\ files[s] = "old" /\ registry[s] = "old"
    /\ stage[s] = "postUndo" => ~mutable[s]
    /\ stage[s] = "closed" => ~mutable[s] /\ sts[s] = "closed"

\* What the state of the files' transaction says of the rest.
StsOK(s) ==
    /\ sts[s] = "open" => files[s] # "new"
    /\ sts[s] = "none" => files[s] = "old" /\ log[s] = "none" /\ ~mutable[s]
    /\ sts[s] = "sealed" => files[s] = "new" /\ struck[s]
    /\ sts[s] = "closed" => files[s] # "part"
    /\ registry[s] = "new" => files[s] = "new" /\ sts[s] = "closed"
    /\ log[s] = "committed" => registry[s] = "new"
    /\ files[s] = "new" /\ registry[s] = "old" =>
         struck[s] \/ stage[s] = "commitRegistry"

\* RunL left because somebody said no: then nothing has been committed, and the client is
\* told of cancellation only when all has been rolled back.
RefusedOK(s) ==
    /\ stage[s] \in {"fatal", "fatalFiles", "fatalRegistry", "fatalTell", "told", "closed"}
    /\ registry[s] = "old" /\ log[s] # "committed"
    /\ stage[s] \in {"fatal", "fatalFiles"} => sts[s] = "open"
    /\ stage[s] \in {"fatalFiles", "fatalRegistry", "fatalTell"} => log[s] = "none"
    /\ stage[s] \in {"fatalRegistry", "fatalTell"} => sts[s] = "closed" /\ files[s] = "old"
    /\ stage[s] = "fatalTell" => ~mutable[s]

\* Which machine may be where, and what its client was told.
ToldOK(s) ==
    /\ told[s] = "none" <=> stage[s] = "none"
    /\ told[s] = "waiting" <=> stage[s] \in Waiting \cup Calls
    /\ told[s] = "ok" /\ kind[s] # "info" =>
         files[s] = "new" /\ registry[s] = "new" /\ log[s] = "committed"
    /\ told[s] = "cancel" \/ (told[s] = "ok" /\ kind[s] = "info") =>
         files[s] = "old" /\ registry[s] = "old" /\ log[s] = "none"
    /\ refused[s] => RefusedOK(s)
    /\ told[s] \in {"ok", "cancel"} => sts[s] = "closed" /\ ~mutable[s]
    /\ cancelled[s] =>
         stage[s] \notin {"signal", "commitFiles", "commitRegistry", "commitLog", "post"}
    /\ stage[s] = "stopped" => cancelled[s]
    /\ kind[s] = "info" =>
         stage[s] \notin {"files", "update", "signal", "commitFiles",
                          "commitRegistry", "commitLog", "post"}
    /\ kind[s] # "info" /\ stage[s] \in {"closeLog", "undoFiles", "undoRegistry", "postUndo"}
         => cancelled[s]

SessionsOK == \A s \in Sessions : StageOK(s) /\ StsOK(s) /\ ToldOK(s)

IInv == TypeOK /\ OneRuns /\ FlagIsLock /\ SessionsOK /\ QueueOfWaiting

-----------------------------------------------------------------------------
(* Steps that several lemmas need.                                           *)

\* Ending the write leaves the flag and the owner what they may be.
LEMMA EndWriteTyped ==
  ASSUME TypeOK, NEW s \in Sessions, EndWrite(s)
  PROVE  mutable' \in [Sessions -> BOOLEAN] /\ writer' \in Sessions \cup {None}
BY DEF TypeOK, EndWrite

\* The sessions that end give up the registry's transaction, and no other does.
LEMMA EndSessionsLock ==
  ASSUME TypeOK, FlagIsLock, NEW S \in SUBSET Sessions, NEW sealed, NEW landed,
         EndSessions(S, sealed, landed)
  PROVE  FlagIsLock'
<1>1. ASSUME NEW r \in Sessions, r \in S PROVE ~mutable'[r] /\ writer' # r
  BY <1>1, SwisAssumption DEF EndSessions, TypeOK
<1>2. ASSUME NEW r \in Sessions, r \notin S
      PROVE  (mutable'[r] <=> mutable[r]) /\ (writer' = r <=> writer = r)
  BY <1>2, SwisAssumption DEF EndSessions, TypeOK
<1> QED
  BY <1>1, <1>2 DEF FlagIsLock

\* A session that has ended satisfies what its stage says.
LEMMA EndSessionsStage ==
  ASSUME NEW S \in SUBSET Sessions, NEW sealed, NEW landed,
         EndSessions(S, sealed, landed), NEW r \in S
  PROVE  StageOK(r)'
<1>1. stage'[r] = "closed" /\ ~mutable'[r] /\ sts'[r] = "closed"
  BY DEF EndSessions
<1> QED
  BY <1>1 DEF StageOK, Waiting

-----------------------------------------------------------------------------
(* Each part of the invariant is preserved by every step, given the others.       *)

\* The types; a processor that runs has a package left.
LEMMA TypeStep ==
  IInv /\ [Next]_vars => TypeOK'
<1> SUFFICES ASSUME IInv, TypeOK, [Next]_vars PROVE TypeOK'
  BY DEF IInv
<1> USE SwisAssumption
    DEF TypeOK, WaitIn, GoOn, Leave, Tell, Fails, Works, At, Scheduled, Runs, SayNo,
           ProcessorFails, ProcessorSaysNo, ReplacesError, Stoppable, EndWrite, Dropped, Settled,
           EndSessions, Connected,
           HoldsClose, Waiting, Calls,
           machine, asked, results, locks, observer, bounds, vars
<1>1. ASSUME NEW s \in Sessions, Begin(s) PROVE TypeOK'
  <2>1. stage' \in [Sessions -> Waiting \cup Calls \cup {"none", "told", "closed"}]
        /\ running' \in Sessions \cup {None}
    BY <1>1 DEF Begin
  <2>2. faults' \in 0 .. MaxFaults /\ deaths' \in 0 .. MaxDeaths
    BY <1>1 DEF Begin
  <2>3. QED
    BY <1>1, <2>1, <2>2 DEF Begin
<1>2. ASSUME NEW s \in Sessions, Registered(s) PROVE TypeOK'
  BY <1>2 DEF Registered
<1>3. ASSUME NEW s \in Sessions, Confirmed(s) PROVE TypeOK'
  BY <1>3 DEF Confirmed
<1>4. ASSUME NEW s \in Sessions, Refused(s) PROVE TypeOK'
  <2>1. refused' \in [Sessions -> BOOLEAN]
    BY <1>4 DEF Refused
  <2>2. stage' \in [Sessions -> Waiting \cup Calls \cup {"none", "told", "closed"}]
        /\ running' \in Sessions \cup {None}
    BY <1>4 DEF Refused
  <2>3. faults' \in 0 .. MaxFaults /\ deaths' \in 0 .. MaxDeaths
    BY <1>4 DEF Refused
  <2>4. QED
    BY <1>4, <2>1, <2>2, <2>3 DEF Refused
<1>5. ASSUME NEW s \in Sessions, ChangeFiles(s) PROVE TypeOK'
  <2>1. refused' \in [Sessions -> BOOLEAN]
    BY <1>5 DEF ChangeFiles
  <2>2. stage' \in [Sessions -> Waiting \cup Calls \cup {"none", "told", "closed"}]
        /\ running' \in Sessions \cup {None}
    BY <1>5 DEF ChangeFiles
  <2>3. faults' \in 0 .. MaxFaults /\ deaths' \in 0 .. MaxDeaths
    BY <1>5 DEF ChangeFiles
  <2>4. QED
    BY <1>5, <2>1, <2>2, <2>3 DEF ChangeFiles
<1>6. ASSUME NEW s \in Sessions, RegistryRefused(s) PROVE TypeOK'
  BY <1>6 DEF RegistryRefused
<1>7. ASSUME NEW s \in Sessions, UpdateRegistry(s) PROVE TypeOK'
  <2>1. left[s] \in 1 .. Apps
    BY <1>7 DEF IInv, SessionsOK, StageOK, UpdateRegistry
  <2>2. left' \in [Sessions -> 0 .. Apps]
    BY <1>7, <2>1 DEF UpdateRegistry
  <2>3. mutable' \in [Sessions -> BOOLEAN] /\ writer' \in Sessions \cup {None}
    BY <1>7 DEF UpdateRegistry
  <2>4. CASE Fails /\ ProcessorFails(s) /\ UNCHANGED left
    BY <1>7, <2>2, <2>3, <2>4 DEF UpdateRegistry
  <2>5. CASE Works
    BY <1>7, <2>2, <2>3, <2>5 DEF UpdateRegistry
  <2>6. QED
    BY <1>7, <2>4, <2>5 DEF UpdateRegistry
<1>8. ASSUME NEW s \in Sessions, Finish(s) PROVE TypeOK'
  BY <1>8 DEF Finish
<1>9. ASSUME NEW s \in Sessions, RunCancelled(s) PROVE TypeOK'
  BY <1>9 DEF RunCancelled
<1>10. ASSUME NEW s \in Sessions, SignalCompleted(s) PROVE TypeOK'
  <2>1. refused' \in [Sessions -> BOOLEAN]
    BY <1>10 DEF SignalCompleted
  <2>2. stage' \in [Sessions -> Waiting \cup Calls \cup {"none", "told", "closed"}]
        /\ running' \in Sessions \cup {None}
    BY <1>10 DEF SignalCompleted
  <2>3. faults' \in 0 .. MaxFaults /\ deaths' \in 0 .. MaxDeaths
    BY <1>10 DEF SignalCompleted
  <2>4. QED
    BY <1>10, <2>1, <2>2, <2>3 DEF SignalCompleted
<1>11. ASSUME NEW s \in Sessions, CommitFiles(s) PROVE TypeOK'
  <2>1. files' \in [Sessions -> {"old", "part", "new"}]
    BY <1>11 DEF CommitFiles
  <2>2. sts' \in [Sessions -> {"none", "open", "sealed", "closed"}]
    BY <1>11 DEF CommitFiles
  <2>3. struck' \in [Sessions -> BOOLEAN]
    BY <1>11 DEF CommitFiles
  <2>4. QED
    BY <1>11, <2>1, <2>2, <2>3 DEF CommitFiles
<1>12. ASSUME NEW s \in Sessions, CommitRegistry(s) PROVE TypeOK'
  <2>1. mutable' \in [Sessions -> BOOLEAN] /\ writer' \in Sessions \cup {None}
    BY <1>12, EndWriteTyped DEF CommitRegistry
  <2>2. registry' \in [Sessions -> {"old", "new"}]
    BY <1>12 DEF CommitRegistry
  <2>6. struck' \in [Sessions -> BOOLEAN]
    BY <1>12 DEF CommitRegistry
  <2>3. stage' \in [Sessions -> Waiting \cup Calls \cup {"none", "told", "closed"}]
        /\ running' \in Sessions \cup {None}
    BY <1>12 DEF CommitRegistry
  <2>4. faults' \in 0 .. MaxFaults /\ deaths' \in 0 .. MaxDeaths
    BY <1>12 DEF CommitRegistry
  <2>5. QED
    BY <1>12, <2>1, <2>2, <2>3, <2>4, <2>6 DEF CommitRegistry
<1>13. ASSUME NEW s \in Sessions, CommitLog(s) PROVE TypeOK'
  <2>1. log' \in [Sessions -> {"none", "making", "committed"}] /\ busy' \in BOOLEAN
    BY <1>13 DEF CommitLog
  <2>2. stage' \in [Sessions -> Waiting \cup Calls \cup {"none", "told", "closed"}]
        /\ running' \in Sessions \cup {None}
    BY <1>13 DEF CommitLog
  <2>3. faults' \in 0 .. MaxFaults /\ deaths' \in 0 .. MaxDeaths
    BY <1>13 DEF CommitLog
  <2>4. QED
    BY <1>13, <2>1, <2>2, <2>3 DEF CommitLog
<1>14. ASSUME NEW s \in Sessions, PostJournalFinalization(s) PROVE TypeOK'
  BY <1>14 DEF PostJournalFinalization
<1>15. ASSUME NEW s \in Sessions, CloseLog(s) PROVE TypeOK'
  BY <1>15 DEF CloseLog
<1>16. ASSUME NEW s \in Sessions, UndoFiles(s) PROVE TypeOK'
  BY <1>16 DEF UndoFiles
<1>17. ASSUME NEW s \in Sessions, UndoRegistry(s) PROVE TypeOK'
  <2>1. mutable' \in [Sessions -> BOOLEAN] /\ writer' \in Sessions \cup {None}
    BY <1>17, EndWriteTyped DEF UndoRegistry
  <2>2. stage' \in [Sessions -> Waiting \cup Calls \cup {"none", "told", "closed"}]
        /\ running' \in Sessions \cup {None}
    BY <1>17 DEF UndoRegistry
  <2>3. faults' \in 0 .. MaxFaults /\ deaths' \in 0 .. MaxDeaths
    BY <1>17 DEF UndoRegistry
  <2>4. QED
    BY <1>17, <2>1, <2>2, <2>3 DEF UndoRegistry
<1>18. ASSUME NEW s \in Sessions, CompleteUndone(s) PROVE TypeOK'
  BY <1>18 DEF CompleteUndone
<1>19. ASSUME NEW s \in Sessions, RunError(s) PROVE TypeOK'
  BY <1>19 DEF RunError
<1>20. ASSUME NEW s \in Sessions, FatalFiles(s) PROVE TypeOK'
  <2>1. refused' \in [Sessions -> BOOLEAN]
    BY <1>20 DEF FatalFiles
  <2>2. stage' \in [Sessions -> Waiting \cup Calls \cup {"none", "told", "closed"}]
        /\ running' \in Sessions \cup {None}
    BY <1>20 DEF FatalFiles
  <2>3. faults' \in 0 .. MaxFaults /\ deaths' \in 0 .. MaxDeaths
    BY <1>20 DEF FatalFiles
  <2>4. QED
    BY <1>20, <2>1, <2>2, <2>3 DEF FatalFiles
<1>21. ASSUME NEW s \in Sessions, FatalRegistry(s) PROVE TypeOK'
  <2>1. mutable' \in [Sessions -> BOOLEAN] /\ writer' \in Sessions \cup {None}
    BY <1>21, EndWriteTyped DEF FatalRegistry
  <2>2. stage' \in [Sessions -> Waiting \cup Calls \cup {"none", "told", "closed"}]
        /\ running' \in Sessions \cup {None}
    BY <1>21 DEF FatalRegistry
  <2>3. faults' \in 0 .. MaxFaults /\ deaths' \in 0 .. MaxDeaths
    BY <1>21 DEF FatalRegistry
  <2>4. refused' \in [Sessions -> BOOLEAN]
    BY <1>21 DEF FatalRegistry
  <2>5. QED
    BY <1>21, <2>1, <2>2, <2>3, <2>4 DEF FatalRegistry
<1>22. ASSUME NEW s \in Sessions, FatalTell(s) PROVE TypeOK'
  BY <1>22 DEF FatalTell
<1>23. ASSUME NEW s \in Sessions, Closing(s) PROVE TypeOK'
  BY <1>23 DEF Closing
<1>24. ASSUME NEW s \in Sessions, StartFails(s) PROVE TypeOK'
  BY <1>24 DEF StartFails
<1>25. ASSUME NEW s \in Sessions, CancelInstallation(s) PROVE TypeOK'
  BY <1>25 DEF CancelInstallation
<1>26. ASSUME NEW s \in Sessions, CloseSession(s) PROVE TypeOK'
  BY <1>26 DEF CloseSession
<1>27. ASSUME NEW s \in Sessions, CloseRegistering(s) PROVE TypeOK'
  BY <1>27 DEF CloseRegistering
<1>28. ASSUME NEW s \in Sessions,
             NEW k \in {"install", "uninstall", "info"}, Start(s, k)
      PROVE  TypeOK'
  BY <1>28 DEF Start
<1>29. ASSUME Death PROVE TypeOK'
  BY <1>29 DEF Death
<1>30. ASSUME ObserverIdle PROVE TypeOK'
  BY <1>30 DEF ObserverIdle
<1>31. CASE UNCHANGED vars
  BY <1>31
<1>32. QED
  BY <1>1, <1>2, <1>3, <1>4, <1>5, <1>6, <1>7, <1>8, <1>9, <1>10, <1>11, <1>12,
     <1>13, <1>14, <1>15, <1>16, <1>17, <1>18, <1>19, <1>20, <1>21, <1>22, <1>23,
     <1>24, <1>25, <1>26, <1>27, <1>28, <1>29, <1>30, <1>31
     DEF Next, Serves, Operates, Finalizes, Client

\* RunL of one session is not interrupted by another session.
LEMMA RunsStep ==
  IInv /\ [Next]_vars => OneRuns'
<1> SUFFICES ASSUME TypeOK, OneRuns, [Next]_vars PROVE OneRuns'
  BY DEF IInv
<1> USE SwisAssumption
    DEF TypeOK, OneRuns, WaitIn, GoOn, Leave, Tell, Fails, Works, At, Scheduled, Runs, SayNo,
           ProcessorFails, ProcessorSaysNo, ReplacesError, Stoppable, EndWrite, Dropped, Settled,
           EndSessions, Connected,
           HoldsClose, Waiting, Calls,
           machine, asked, results, locks, observer, bounds, vars
<1>1. ASSUME NEW s \in Sessions, Begin(s) PROVE OneRuns'
  BY <1>1 DEF Begin
<1>2. ASSUME NEW s \in Sessions, Registered(s) PROVE OneRuns'
  BY <1>2 DEF Registered
<1>3. ASSUME NEW s \in Sessions, Confirmed(s) PROVE OneRuns'
  BY <1>3 DEF Confirmed
<1>4. ASSUME NEW s \in Sessions, Refused(s) PROVE OneRuns'
  BY <1>4 DEF Refused
<1>5. ASSUME NEW s \in Sessions, ChangeFiles(s) PROVE OneRuns'
  BY <1>5 DEF ChangeFiles
<1>6. ASSUME NEW s \in Sessions, RegistryRefused(s) PROVE OneRuns'
  BY <1>6 DEF RegistryRefused
<1>7. ASSUME NEW s \in Sessions, UpdateRegistry(s) PROVE OneRuns'
  BY <1>7 DEF UpdateRegistry
<1>8. ASSUME NEW s \in Sessions, Finish(s) PROVE OneRuns'
  BY <1>8 DEF Finish
<1>9. ASSUME NEW s \in Sessions, RunCancelled(s) PROVE OneRuns'
  BY <1>9 DEF RunCancelled
<1>10. ASSUME NEW s \in Sessions, SignalCompleted(s) PROVE OneRuns'
  BY <1>10 DEF SignalCompleted
<1>11. ASSUME NEW s \in Sessions, CommitFiles(s) PROVE OneRuns'
  BY <1>11 DEF CommitFiles
<1>12. ASSUME NEW s \in Sessions, CommitRegistry(s) PROVE OneRuns'
  BY <1>12 DEF CommitRegistry
<1>13. ASSUME NEW s \in Sessions, CommitLog(s) PROVE OneRuns'
  BY <1>13 DEF CommitLog
<1>14. ASSUME NEW s \in Sessions, PostJournalFinalization(s) PROVE OneRuns'
  BY <1>14 DEF PostJournalFinalization
<1>15. ASSUME NEW s \in Sessions, CloseLog(s) PROVE OneRuns'
  BY <1>15 DEF CloseLog
<1>16. ASSUME NEW s \in Sessions, UndoFiles(s) PROVE OneRuns'
  BY <1>16 DEF UndoFiles
<1>17. ASSUME NEW s \in Sessions, UndoRegistry(s) PROVE OneRuns'
  BY <1>17 DEF UndoRegistry
<1>18. ASSUME NEW s \in Sessions, CompleteUndone(s) PROVE OneRuns'
  BY <1>18 DEF CompleteUndone
<1>19. ASSUME NEW s \in Sessions, RunError(s) PROVE OneRuns'
  BY <1>19 DEF RunError
<1>20. ASSUME NEW s \in Sessions, FatalFiles(s) PROVE OneRuns'
  BY <1>20 DEF FatalFiles
<1>21. ASSUME NEW s \in Sessions, FatalRegistry(s) PROVE OneRuns'
  BY <1>21 DEF FatalRegistry
<1>22. ASSUME NEW s \in Sessions, FatalTell(s) PROVE OneRuns'
  BY <1>22 DEF FatalTell
<1>23. ASSUME NEW s \in Sessions, Closing(s) PROVE OneRuns'
  BY <1>23 DEF Closing
<1>24. ASSUME NEW s \in Sessions, StartFails(s) PROVE OneRuns'
  BY <1>24 DEF StartFails
<1>25. ASSUME NEW s \in Sessions, CancelInstallation(s) PROVE OneRuns'
  BY <1>25 DEF CancelInstallation
<1>26. ASSUME NEW s \in Sessions, CloseSession(s) PROVE OneRuns'
  BY <1>26 DEF CloseSession
<1>27. ASSUME NEW s \in Sessions, CloseRegistering(s) PROVE OneRuns'
  BY <1>27 DEF CloseRegistering
<1>28. ASSUME NEW s \in Sessions,
             NEW k \in {"install", "uninstall", "info"}, Start(s, k)
      PROVE  OneRuns'
  BY <1>28 DEF Start
<1>29. ASSUME Death PROVE OneRuns'
  BY <1>29 DEF Death
<1>30. ASSUME ObserverIdle PROVE OneRuns'
  BY <1>30 DEF ObserverIdle
<1>31. CASE UNCHANGED vars
  BY <1>31
<1>32. QED
  BY <1>1, <1>2, <1>3, <1>4, <1>5, <1>6, <1>7, <1>8, <1>9, <1>10, <1>11, <1>12,
     <1>13, <1>14, <1>15, <1>16, <1>17, <1>18, <1>19, <1>20, <1>21, <1>22, <1>23,
     <1>24, <1>25, <1>26, <1>27, <1>28, <1>29, <1>30, <1>31
     DEF Next, Serves, Operates, Finalizes, Client

\* The flag and the owner change together: in UpdateRegistry, at the end of a write and
\* of a session.
LEMMA LockStep ==
  IInv /\ [Next]_vars => FlagIsLock'
<1> SUFFICES ASSUME TypeOK, OneRuns, FlagIsLock, [Next]_vars PROVE FlagIsLock'
  BY DEF IInv
<1>1. ASSUME NEW s \in Sessions, CloseSession(s) PROVE FlagIsLock'
  <2>1. EndSessions({s}, {}, {})
    BY <1>1 DEF CloseSession
  <2>2. QED
    BY <2>1, EndSessionsLock
<1>2. ASSUME NEW s \in Sessions, Closing(s) PROVE FlagIsLock'
  <2>1. EndSessions({s}, {}, {})
    BY <1>2 DEF Closing
  <2>2. QED
    BY <2>1, EndSessionsLock
<1>3. ASSUME Death PROVE FlagIsLock'
  <2>1. PICK sealed, landed : EndSessions(Connected, sealed, landed)
    BY <1>3 DEF Death
  <2>2. Connected \in SUBSET Sessions
    BY DEF Connected
  <2>3. QED
    BY <2>1, <2>2, EndSessionsLock
<1> USE SwisAssumption
    DEF TypeOK, OneRuns, FlagIsLock, WaitIn, GoOn, Leave, Tell, Fails, Works, At,
           Scheduled, Runs, SayNo, ProcessorFails, ProcessorSaysNo, ReplacesError, Stoppable,
           EndWrite, Dropped, Settled, EndSessions, Connected,
           HoldsClose, Waiting, Calls,
           machine, asked, results, locks, observer, bounds, vars
<1>4. ASSUME NEW s \in Sessions, Begin(s) PROVE FlagIsLock'
  BY <1>4 DEF Begin
<1>5. ASSUME NEW s \in Sessions, Registered(s) PROVE FlagIsLock'
  BY <1>5 DEF Registered
<1>6. ASSUME NEW s \in Sessions, Confirmed(s) PROVE FlagIsLock'
  BY <1>6 DEF Confirmed
<1>7. ASSUME NEW s \in Sessions, Refused(s) PROVE FlagIsLock'
  BY <1>7 DEF Refused
<1>8. ASSUME NEW s \in Sessions, ChangeFiles(s) PROVE FlagIsLock'
  BY <1>8 DEF ChangeFiles
<1>9. ASSUME NEW s \in Sessions, RegistryRefused(s) PROVE FlagIsLock'
  BY <1>9 DEF RegistryRefused
<1>10. ASSUME NEW s \in Sessions, UpdateRegistry(s) PROVE FlagIsLock'
  <2>1. writer' \in {writer, s} /\ (mutable'[s] <=> writer' = s)
    <3>1. mutable' = [mutable EXCEPT ![s] = (writer' = s)] /\ s \in DOMAIN mutable
      BY <1>10 DEF UpdateRegistry
    <3>2. writer' \in {writer, s}
      BY <1>10 DEF UpdateRegistry
    <3>3. mutable'[s] = (writer' = s)
      BY <3>1, Zenon
    <3>4. QED
      BY <3>2, <3>3
  <2>2. ASSUME NEW r \in Sessions, r # s
        PROVE  (mutable'[r] <=> mutable[r]) /\ writer # r
    BY <1>10, <2>2 DEF UpdateRegistry
  <2>3. QED
    BY <2>1, <2>2
<1>11. ASSUME NEW s \in Sessions, Finish(s) PROVE FlagIsLock'
  BY <1>11 DEF Finish
<1>12. ASSUME NEW s \in Sessions, RunCancelled(s) PROVE FlagIsLock'
  BY <1>12 DEF RunCancelled
<1>13. ASSUME NEW s \in Sessions, SignalCompleted(s) PROVE FlagIsLock'
  BY <1>13 DEF SignalCompleted
<1>14. ASSUME NEW s \in Sessions, CommitFiles(s) PROVE FlagIsLock'
  BY <1>14 DEF CommitFiles
<1>15. ASSUME NEW s \in Sessions, CommitRegistry(s) PROVE FlagIsLock'
  BY <1>15 DEF CommitRegistry
<1>16. ASSUME NEW s \in Sessions, CommitLog(s) PROVE FlagIsLock'
  BY <1>16 DEF CommitLog
<1>17. ASSUME NEW s \in Sessions, PostJournalFinalization(s) PROVE FlagIsLock'
  BY <1>17 DEF PostJournalFinalization
<1>18. ASSUME NEW s \in Sessions, CloseLog(s) PROVE FlagIsLock'
  BY <1>18 DEF CloseLog
<1>19. ASSUME NEW s \in Sessions, UndoFiles(s) PROVE FlagIsLock'
  BY <1>19 DEF UndoFiles
<1>20. ASSUME NEW s \in Sessions, UndoRegistry(s) PROVE FlagIsLock'
  BY <1>20 DEF UndoRegistry
<1>21. ASSUME NEW s \in Sessions, CompleteUndone(s) PROVE FlagIsLock'
  BY <1>21 DEF CompleteUndone
<1>22. ASSUME NEW s \in Sessions, RunError(s) PROVE FlagIsLock'
  BY <1>22 DEF RunError
<1>23. ASSUME NEW s \in Sessions, FatalFiles(s) PROVE FlagIsLock'
  BY <1>23 DEF FatalFiles
<1>24. ASSUME NEW s \in Sessions, FatalRegistry(s) PROVE FlagIsLock'
  BY <1>24 DEF FatalRegistry
<1>25. ASSUME NEW s \in Sessions, FatalTell(s) PROVE FlagIsLock'
  BY <1>25 DEF FatalTell
<1>26. ASSUME NEW s \in Sessions, StartFails(s) PROVE FlagIsLock'
  BY <1>26 DEF StartFails
<1>27. ASSUME NEW s \in Sessions, CancelInstallation(s) PROVE FlagIsLock'
  BY <1>27 DEF CancelInstallation
<1>28. ASSUME NEW s \in Sessions, CloseRegistering(s) PROVE FlagIsLock'
  BY <1>28 DEF CloseRegistering
<1>29. ASSUME NEW s \in Sessions,
             NEW k \in {"install", "uninstall", "info"}, Start(s, k)
      PROVE  FlagIsLock'
  BY <1>29 DEF Start
<1>30. ASSUME ObserverIdle PROVE FlagIsLock'
  BY <1>30 DEF ObserverIdle
<1>31. CASE UNCHANGED vars
  BY <1>31
<1>32. QED
  BY <1>1, <1>2, <1>3, <1>4, <1>5, <1>6, <1>7, <1>8, <1>9, <1>10, <1>11, <1>12,
     <1>13, <1>14, <1>15, <1>16, <1>17, <1>18, <1>19, <1>20, <1>21, <1>22, <1>23,
     <1>24, <1>25, <1>26, <1>27, <1>28, <1>29, <1>30, <1>31
     DEF Next, Serves, Operates, Finalizes, Client

\* Where a session goes next is prepared by the step that takes it there.
LEMMA StageStep ==
  IInv /\ [Next]_vars => \A r \in Sessions : StageOK(r)'
<1> SUFFICES ASSUME TypeOK, OneRuns, FlagIsLock, SessionsOK, [Next]_vars
             PROVE  \A r \in Sessions : StageOK(r)'
  BY DEF IInv
<1>1. ASSUME NEW s \in Sessions, CloseSession(s)
      PROVE  \A r \in Sessions : StageOK(r)'
  <2>1. EndSessions({s}, {}, {}) /\ UNCHANGED <<asked, left>>
    BY <1>1 DEF CloseSession
  <2>2. StageOK(s)'
    BY <2>1, EndSessionsStage
  <2>3. ASSUME NEW r \in Sessions, r # s PROVE StageOK(r)'
    BY <2>1, <2>3 DEF asked, EndSessions, TypeOK, SessionsOK, StageOK
  <2>4. QED
    BY <2>2, <2>3
<1>2. ASSUME NEW s \in Sessions, Closing(s)
      PROVE  \A r \in Sessions : StageOK(r)'
  <2>1. EndSessions({s}, {}, {}) /\ UNCHANGED <<asked, left>>
    BY <1>2 DEF Closing
  <2>2. StageOK(s)'
    BY <2>1, EndSessionsStage
  <2>3. ASSUME NEW r \in Sessions, r # s PROVE StageOK(r)'
    BY <2>1, <2>3 DEF asked, EndSessions, TypeOK, SessionsOK, StageOK
  <2>4. QED
    BY <2>2, <2>3
<1>3. ASSUME Death PROVE \A r \in Sessions : StageOK(r)'
  <2>1. PICK sealed, landed :
          /\ landed \in SUBSET {s \in Sessions : At(s, "commitRegistry") /\ mutable[s]}
          /\ EndSessions(Connected, sealed, landed)
          /\ UNCHANGED <<asked, left>>
    BY <1>3 DEF Death
  <2>2. ASSUME NEW r \in Connected PROVE StageOK(r)'
    <3>1. Connected \in SUBSET Sessions
      BY DEF Connected
    <3>2. QED
      BY <2>1, <2>2, <3>1, EndSessionsStage
  <2>3. ASSUME NEW r \in Sessions, r \notin Connected PROVE StageOK(r)'
    BY <2>1, <2>3 DEF asked, EndSessions, Connected, At, TypeOK, SessionsOK, StageOK
  <2>4. QED
    BY <2>2, <2>3
<1> USE SwisAssumption
    DEF TypeOK, OneRuns, FlagIsLock, SessionsOK, StageOK,
           StsOK, ToldOK, RefusedOK, WaitIn, GoOn, Leave, Tell, Fails, Works, At, Scheduled, Runs, SayNo,
           ProcessorFails, ProcessorSaysNo, ReplacesError, Stoppable, EndWrite, Dropped, Settled,
           EndSessions, Connected,
           HoldsClose, Waiting, Calls,
           machine, asked, results, locks, observer, bounds, vars
<1>4. ASSUME NEW s \in Sessions, Begin(s)
      PROVE  \A r \in Sessions : StageOK(r)'
  BY <1>4 DEF Begin
<1>5. ASSUME NEW s \in Sessions, Registered(s)
      PROVE  \A r \in Sessions : StageOK(r)'
  BY <1>5 DEF Registered
<1>6. ASSUME NEW s \in Sessions, Confirmed(s)
      PROVE  \A r \in Sessions : StageOK(r)'
  BY <1>6 DEF Confirmed
<1>7. ASSUME NEW s \in Sessions, Refused(s)
      PROVE  \A r \in Sessions : StageOK(r)'
  BY <1>7 DEF Refused
<1>8. ASSUME NEW s \in Sessions, ChangeFiles(s)
      PROVE  \A r \in Sessions : StageOK(r)'
  BY <1>8 DEF ChangeFiles
<1>9. ASSUME NEW s \in Sessions, RegistryRefused(s)
      PROVE  \A r \in Sessions : StageOK(r)'
  BY <1>9 DEF RegistryRefused
<1>10. ASSUME NEW s \in Sessions, UpdateRegistry(s)
      PROVE  \A r \in Sessions : StageOK(r)'
  <2>1. ASSUME NEW r \in Sessions, r # s PROVE StageOK(r)'
    BY <1>10, <2>1 DEF UpdateRegistry
  <2>2. mutable' = [mutable EXCEPT ![s] = (writer' = s)]
    BY <1>10 DEF UpdateRegistry
  <2>3. mutable'[s] = (writer' = s)
    BY <2>2, Zenon
  <2>4. ASSUME Fails PROVE StageOK(s)'
    BY <1>10, <2>3, <2>4 DEF UpdateRegistry
  <2>5. ASSUME Works PROVE StageOK(s)'
    <3>1. writer' = s /\ UNCHANGED <<kind, cancelled, refused, sts, files, log>>
      BY <1>10, <2>5 DEF UpdateRegistry
    <3>2. /\ left'[s] = left[s] - 1
          /\ stage'[s] \in {"files", "final", "closeLog"}
          /\ stage'[s] = "files" => left[s] > 1
      BY <1>10, <2>5 DEF UpdateRegistry
    <3>3. sts[s] = "open" /\ left[s] \in Nat
      BY <1>10 DEF UpdateRegistry
    <3>4. mutable'[s]
      BY <2>3, <3>1
    <3>5. QED
      BY <3>1, <3>2, <3>3, <3>4
  <2>6. QED
    BY <1>10, <2>1, <2>4, <2>5 DEF UpdateRegistry
<1>11. ASSUME NEW s \in Sessions, Finish(s)
      PROVE  \A r \in Sessions : StageOK(r)'
  BY <1>11 DEF Finish
<1>12. ASSUME NEW s \in Sessions, RunCancelled(s)
      PROVE  \A r \in Sessions : StageOK(r)'
  BY <1>12 DEF RunCancelled
<1>13. ASSUME NEW s \in Sessions, SignalCompleted(s)
      PROVE  \A r \in Sessions : StageOK(r)'
  BY <1>13 DEF SignalCompleted
<1>14. ASSUME NEW s \in Sessions, CommitFiles(s)
      PROVE  \A r \in Sessions : StageOK(r)'
  BY <1>14 DEF CommitFiles
<1>15. ASSUME NEW s \in Sessions, CommitRegistry(s)
      PROVE  \A r \in Sessions : StageOK(r)'
  BY <1>15 DEF CommitRegistry
<1>16. ASSUME NEW s \in Sessions, CommitLog(s)
      PROVE  \A r \in Sessions : StageOK(r)'
  BY <1>16 DEF CommitLog
<1>17. ASSUME NEW s \in Sessions, PostJournalFinalization(s)
      PROVE  \A r \in Sessions : StageOK(r)'
  BY <1>17 DEF PostJournalFinalization
<1>18. ASSUME NEW s \in Sessions, CloseLog(s)
      PROVE  \A r \in Sessions : StageOK(r)'
  BY <1>18 DEF CloseLog
<1>19. ASSUME NEW s \in Sessions, UndoFiles(s)
      PROVE  \A r \in Sessions : StageOK(r)'
  BY <1>19 DEF UndoFiles
<1>20. ASSUME NEW s \in Sessions, UndoRegistry(s)
      PROVE  \A r \in Sessions : StageOK(r)'
  BY <1>20 DEF UndoRegistry
<1>21. ASSUME NEW s \in Sessions, CompleteUndone(s)
      PROVE  \A r \in Sessions : StageOK(r)'
  BY <1>21 DEF CompleteUndone
<1>22. ASSUME NEW s \in Sessions, RunError(s)
      PROVE  \A r \in Sessions : StageOK(r)'
  BY <1>22 DEF RunError
<1>23. ASSUME NEW s \in Sessions, FatalFiles(s)
      PROVE  \A r \in Sessions : StageOK(r)'
  BY <1>23 DEF FatalFiles
<1>24. ASSUME NEW s \in Sessions, FatalRegistry(s)
      PROVE  \A r \in Sessions : StageOK(r)'
  BY <1>24 DEF FatalRegistry
<1>25. ASSUME NEW s \in Sessions, FatalTell(s)
      PROVE  \A r \in Sessions : StageOK(r)'
  BY <1>25 DEF FatalTell
<1>26. ASSUME NEW s \in Sessions, StartFails(s)
      PROVE  \A r \in Sessions : StageOK(r)'
  BY <1>26 DEF StartFails
<1>27. ASSUME NEW s \in Sessions, CancelInstallation(s)
      PROVE  \A r \in Sessions : StageOK(r)'
  BY <1>27 DEF CancelInstallation
<1>28. ASSUME NEW s \in Sessions, CloseRegistering(s)
      PROVE  \A r \in Sessions : StageOK(r)'
  BY <1>28 DEF CloseRegistering
<1>29. ASSUME NEW s \in Sessions,
             NEW k \in {"install", "uninstall", "info"}, Start(s, k)
      PROVE  \A r \in Sessions : StageOK(r)'
  BY <1>29 DEF Start
<1>30. ASSUME ObserverIdle PROVE \A r \in Sessions : StageOK(r)'
  BY <1>30 DEF ObserverIdle
<1>31. CASE UNCHANGED vars
  BY <1>31
<1> HIDE DEF TypeOK, OneRuns, FlagIsLock, SessionsOK, StageOK, StsOK, ToldOK, RefusedOK
<1>32. QED
  BY <1>1, <1>2, <1>3, <1>4, <1>5, <1>6, <1>7, <1>8, <1>9, <1>10, <1>11, <1>12,
     <1>13, <1>14, <1>15, <1>16, <1>17, <1>18, <1>19, <1>20, <1>21, <1>22, <1>23,
     <1>24, <1>25, <1>26, <1>27, <1>28, <1>29, <1>30, <1>31
     DEF Next, Serves, Operates, Finalizes, Client

\* The commits are in order, and apart only where struck says so.
LEMMA StsStep ==
  IInv /\ [Next]_vars => \A r \in Sessions : StsOK(r)'
<1> SUFFICES ASSUME TypeOK, OneRuns, FlagIsLock, SessionsOK, [Next]_vars
             PROVE  \A r \in Sessions : StsOK(r)'
  BY DEF IInv
<1> USE SwisAssumption
    DEF TypeOK, OneRuns, FlagIsLock, SessionsOK, StageOK,
           StsOK, ToldOK, RefusedOK, WaitIn, GoOn, Leave, Tell, Fails, Works, At, Scheduled, Runs, SayNo,
           ProcessorFails, ProcessorSaysNo, ReplacesError, Stoppable, EndWrite, Dropped, Settled,
           EndSessions, Connected,
           HoldsClose, Waiting, Calls,
           machine, asked, results, locks, observer, bounds, vars
<1>1. ASSUME NEW s \in Sessions, Begin(s) PROVE \A r \in Sessions : StsOK(r)'
  BY <1>1 DEF Begin
<1>2. ASSUME NEW s \in Sessions, Registered(s)
      PROVE  \A r \in Sessions : StsOK(r)'
  BY <1>2 DEF Registered
<1>3. ASSUME NEW s \in Sessions, Confirmed(s)
      PROVE  \A r \in Sessions : StsOK(r)'
  BY <1>3 DEF Confirmed
<1>4. ASSUME NEW s \in Sessions, Refused(s)
      PROVE  \A r \in Sessions : StsOK(r)'
  BY <1>4 DEF Refused
<1>5. ASSUME NEW s \in Sessions, ChangeFiles(s)
      PROVE  \A r \in Sessions : StsOK(r)'
  BY <1>5 DEF ChangeFiles
<1>6. ASSUME NEW s \in Sessions, RegistryRefused(s)
      PROVE  \A r \in Sessions : StsOK(r)'
  BY <1>6 DEF RegistryRefused
<1>7. ASSUME NEW s \in Sessions, UpdateRegistry(s)
      PROVE  \A r \in Sessions : StsOK(r)'
  BY <1>7 DEF UpdateRegistry
<1>8. ASSUME NEW s \in Sessions, Finish(s) PROVE \A r \in Sessions : StsOK(r)'
  BY <1>8 DEF Finish
<1>9. ASSUME NEW s \in Sessions, RunCancelled(s)
      PROVE  \A r \in Sessions : StsOK(r)'
  BY <1>9 DEF RunCancelled
<1>10. ASSUME NEW s \in Sessions, SignalCompleted(s)
      PROVE  \A r \in Sessions : StsOK(r)'
  BY <1>10 DEF SignalCompleted
<1>11. ASSUME NEW s \in Sessions, CommitFiles(s)
      PROVE  \A r \in Sessions : StsOK(r)'
  BY <1>11 DEF CommitFiles
<1>12. ASSUME NEW s \in Sessions, CommitRegistry(s)
      PROVE  \A r \in Sessions : StsOK(r)'
  BY <1>12 DEF CommitRegistry
<1>13. ASSUME NEW s \in Sessions, CommitLog(s)
      PROVE  \A r \in Sessions : StsOK(r)'
  BY <1>13 DEF CommitLog
<1>14. ASSUME NEW s \in Sessions, PostJournalFinalization(s)
      PROVE  \A r \in Sessions : StsOK(r)'
  BY <1>14 DEF PostJournalFinalization
<1>15. ASSUME NEW s \in Sessions, CloseLog(s)
      PROVE  \A r \in Sessions : StsOK(r)'
  BY <1>15 DEF CloseLog
<1>16. ASSUME NEW s \in Sessions, UndoFiles(s)
      PROVE  \A r \in Sessions : StsOK(r)'
  BY <1>16 DEF UndoFiles
<1>17. ASSUME NEW s \in Sessions, UndoRegistry(s)
      PROVE  \A r \in Sessions : StsOK(r)'
  BY <1>17 DEF UndoRegistry
<1>18. ASSUME NEW s \in Sessions, CompleteUndone(s)
      PROVE  \A r \in Sessions : StsOK(r)'
  BY <1>18 DEF CompleteUndone
<1>19. ASSUME NEW s \in Sessions, RunError(s)
      PROVE  \A r \in Sessions : StsOK(r)'
  BY <1>19 DEF RunError
<1>20. ASSUME NEW s \in Sessions, FatalFiles(s)
      PROVE  \A r \in Sessions : StsOK(r)'
  BY <1>20 DEF FatalFiles
<1>21. ASSUME NEW s \in Sessions, FatalRegistry(s)
      PROVE  \A r \in Sessions : StsOK(r)'
  BY <1>21 DEF FatalRegistry
<1>22. ASSUME NEW s \in Sessions, FatalTell(s)
      PROVE  \A r \in Sessions : StsOK(r)'
  BY <1>22 DEF FatalTell
<1>23. ASSUME NEW s \in Sessions, Closing(s)
      PROVE  \A r \in Sessions : StsOK(r)'
  BY <1>23 DEF Closing
<1>24. ASSUME NEW s \in Sessions, StartFails(s)
      PROVE  \A r \in Sessions : StsOK(r)'
  BY <1>24 DEF StartFails
<1>25. ASSUME NEW s \in Sessions, CancelInstallation(s)
      PROVE  \A r \in Sessions : StsOK(r)'
  BY <1>25 DEF CancelInstallation
<1>26. ASSUME NEW s \in Sessions, CloseSession(s)
      PROVE  \A r \in Sessions : StsOK(r)'
  BY <1>26 DEF CloseSession
<1>27. ASSUME NEW s \in Sessions, CloseRegistering(s)
      PROVE  \A r \in Sessions : StsOK(r)'
  BY <1>27 DEF CloseRegistering
<1>28. ASSUME NEW s \in Sessions,
             NEW k \in {"install", "uninstall", "info"}, Start(s, k)
      PROVE  \A r \in Sessions : StsOK(r)'
  BY <1>28 DEF Start
<1>29. ASSUME Death PROVE \A r \in Sessions : StsOK(r)'
  BY <1>29 DEF Death
<1>30. ASSUME ObserverIdle PROVE \A r \in Sessions : StsOK(r)'
  BY <1>30 DEF ObserverIdle
<1>31. CASE UNCHANGED vars
  BY <1>31
<1> HIDE DEF TypeOK, OneRuns, FlagIsLock, SessionsOK, StageOK, StsOK, ToldOK, RefusedOK
<1>32. QED
  BY <1>1, <1>2, <1>3, <1>4, <1>5, <1>6, <1>7, <1>8, <1>9, <1>10, <1>11, <1>12,
     <1>13, <1>14, <1>15, <1>16, <1>17, <1>18, <1>19, <1>20, <1>21, <1>22, <1>23,
     <1>24, <1>25, <1>26, <1>27, <1>28, <1>29, <1>30, <1>31
     DEF Next, Serves, Operates, Finalizes, Client

\* A client is told of success after the commits, of cancellation after the roll backs.
LEMMA ToldStep ==
  IInv /\ [Next]_vars => \A r \in Sessions : ToldOK(r)'
<1> SUFFICES ASSUME TypeOK, OneRuns, FlagIsLock, SessionsOK, [Next]_vars
             PROVE  \A r \in Sessions : ToldOK(r)'
  BY DEF IInv
<1> USE SwisAssumption
    DEF TypeOK, OneRuns, FlagIsLock, SessionsOK, StageOK,
           StsOK, ToldOK, RefusedOK, WaitIn, GoOn, Leave, Tell, Fails, Works, At, Scheduled, Runs, SayNo,
           ProcessorFails, ProcessorSaysNo, ReplacesError, Stoppable, EndWrite, Dropped, Settled,
           EndSessions, Connected,
           HoldsClose, Waiting, Calls,
           machine, asked, results, locks, observer, bounds, vars
<1>1. ASSUME NEW s \in Sessions, Begin(s) PROVE \A r \in Sessions : ToldOK(r)'
  BY <1>1 DEF Begin
<1>2. ASSUME NEW s \in Sessions, Registered(s)
      PROVE  \A r \in Sessions : ToldOK(r)'
  BY <1>2 DEF Registered
<1>3. ASSUME NEW s \in Sessions, Confirmed(s)
      PROVE  \A r \in Sessions : ToldOK(r)'
  BY <1>3 DEF Confirmed
<1>4. ASSUME NEW s \in Sessions, Refused(s)
      PROVE  \A r \in Sessions : ToldOK(r)'
  BY <1>4 DEF Refused
<1>5. ASSUME NEW s \in Sessions, ChangeFiles(s)
      PROVE  \A r \in Sessions : ToldOK(r)'
  BY <1>5 DEF ChangeFiles
<1>6. ASSUME NEW s \in Sessions, RegistryRefused(s)
      PROVE  \A r \in Sessions : ToldOK(r)'
  BY <1>6 DEF RegistryRefused
<1>7. ASSUME NEW s \in Sessions, UpdateRegistry(s)
      PROVE  \A r \in Sessions : ToldOK(r)'
  BY <1>7 DEF UpdateRegistry
<1>8. ASSUME NEW s \in Sessions, Finish(s)
      PROVE  \A r \in Sessions : ToldOK(r)'
  BY <1>8 DEF Finish
<1>9. ASSUME NEW s \in Sessions, RunCancelled(s)
      PROVE  \A r \in Sessions : ToldOK(r)'
  BY <1>9 DEF RunCancelled
<1>10. ASSUME NEW s \in Sessions, SignalCompleted(s)
      PROVE  \A r \in Sessions : ToldOK(r)'
  BY <1>10 DEF SignalCompleted
<1>11. ASSUME NEW s \in Sessions, CommitFiles(s)
      PROVE  \A r \in Sessions : ToldOK(r)'
  BY <1>11 DEF CommitFiles
<1>12. ASSUME NEW s \in Sessions, CommitRegistry(s)
      PROVE  \A r \in Sessions : ToldOK(r)'
  BY <1>12 DEF CommitRegistry
<1>13. ASSUME NEW s \in Sessions, CommitLog(s)
      PROVE  \A r \in Sessions : ToldOK(r)'
  BY <1>13 DEF CommitLog
<1>14. ASSUME NEW s \in Sessions, PostJournalFinalization(s)
      PROVE  \A r \in Sessions : ToldOK(r)'
  BY <1>14 DEF PostJournalFinalization
<1>15. ASSUME NEW s \in Sessions, CloseLog(s)
      PROVE  \A r \in Sessions : ToldOK(r)'
  BY <1>15 DEF CloseLog
<1>16. ASSUME NEW s \in Sessions, UndoFiles(s)
      PROVE  \A r \in Sessions : ToldOK(r)'
  BY <1>16 DEF UndoFiles
<1>17. ASSUME NEW s \in Sessions, UndoRegistry(s)
      PROVE  \A r \in Sessions : ToldOK(r)'
  BY <1>17 DEF UndoRegistry
<1>18. ASSUME NEW s \in Sessions, CompleteUndone(s)
      PROVE  \A r \in Sessions : ToldOK(r)'
  BY <1>18 DEF CompleteUndone
<1>19. ASSUME NEW s \in Sessions, RunError(s)
      PROVE  \A r \in Sessions : ToldOK(r)'
  BY <1>19 DEF RunError
<1>20. ASSUME NEW s \in Sessions, FatalFiles(s)
      PROVE  \A r \in Sessions : ToldOK(r)'
  BY <1>20 DEF FatalFiles
<1>21. ASSUME NEW s \in Sessions, FatalRegistry(s)
      PROVE  \A r \in Sessions : ToldOK(r)'
  BY <1>21 DEF FatalRegistry
<1>22. ASSUME NEW s \in Sessions, FatalTell(s)
      PROVE  \A r \in Sessions : ToldOK(r)'
  BY <1>22 DEF FatalTell
<1>23. ASSUME NEW s \in Sessions, Closing(s)
      PROVE  \A r \in Sessions : ToldOK(r)'
  BY <1>23 DEF Closing
<1>24. ASSUME NEW s \in Sessions, StartFails(s)
      PROVE  \A r \in Sessions : ToldOK(r)'
  BY <1>24 DEF StartFails
<1>25. ASSUME NEW s \in Sessions, CancelInstallation(s)
      PROVE  \A r \in Sessions : ToldOK(r)'
  BY <1>25 DEF CancelInstallation
<1>26. ASSUME NEW s \in Sessions, CloseSession(s)
      PROVE  \A r \in Sessions : ToldOK(r)'
  BY <1>26 DEF CloseSession
<1>27. ASSUME NEW s \in Sessions, CloseRegistering(s)
      PROVE  \A r \in Sessions : ToldOK(r)'
  BY <1>27 DEF CloseRegistering
<1>28. ASSUME NEW s \in Sessions,
             NEW k \in {"install", "uninstall", "info"}, Start(s, k)
      PROVE  \A r \in Sessions : ToldOK(r)'
  BY <1>28 DEF Start
<1>29. ASSUME Death PROVE \A r \in Sessions : ToldOK(r)'
  BY <1>29 DEF Death
<1>30. ASSUME ObserverIdle PROVE \A r \in Sessions : ToldOK(r)'
  BY <1>30 DEF ObserverIdle
<1>31. CASE UNCHANGED vars
  BY <1>31
<1> HIDE DEF TypeOK, OneRuns, FlagIsLock, SessionsOK, StageOK, StsOK, ToldOK, RefusedOK
<1>32. QED
  BY <1>1, <1>2, <1>3, <1>4, <1>5, <1>6, <1>7, <1>8, <1>9, <1>10, <1>11, <1>12,
     <1>13, <1>14, <1>15, <1>16, <1>17, <1>18, <1>19, <1>20, <1>21, <1>22, <1>23,
     <1>24, <1>25, <1>26, <1>27, <1>28, <1>29, <1>30, <1>31
     DEF Next, Serves, Operates, Finalizes, Client

\* What is left of a sequence when the element at i is removed.
LEMMA RemovedAt ==
  ASSUME NEW S, NEW q \in Seq(S), NEW i \in 1 .. Len(q)
  PROVE  /\ RemoveAt(q, i) \in Seq(S)
         /\ Len(RemoveAt(q, i)) = Len(q) - 1
         /\ \A j \in 1 .. Len(q) - 1 :
              RemoveAt(q, i)[j] = IF j < i THEN q[j] ELSE q[j + 1]
<1> DEFINE A == SubSeq(q, 1, i - 1)
           B == SubSeq(q, i + 1, Len(q))
<1>1. A \in Seq(S) /\ Len(A) = i - 1 /\ \A j \in 1 .. i - 1 : A[j] = q[j]
  OBVIOUS
<1>2. /\ B \in Seq(S)
      /\ Len(B) = Len(q) - i
      /\ \A j \in 1 .. Len(q) - i : B[j] = q[i + j]
  OBVIOUS
<1>3. RemoveAt(q, i) = A \o B
  BY DEF RemoveAt
<1> HIDE DEF A, B
<1>4. /\ A \o B \in Seq(S)
      /\ Len(A \o B) = Len(A) + Len(B)
      /\ \A j \in 1 .. Len(A) + Len(B) :
           (A \o B)[j] = IF j <= Len(A) THEN A[j] ELSE B[j - Len(A)]
  BY <1>1, <1>2, ConcatProperties
<1>5. Len(A) + Len(B) = Len(q) - 1
  BY <1>1, <1>2
<1>6. ASSUME NEW j \in 1 .. Len(q) - 1
      PROVE  (A \o B)[j] = IF j < i THEN q[j] ELSE q[j + 1]
  <2>1. CASE j < i
    BY <1>1, <1>4, <1>5, <2>1
  <2>2. CASE ~(j < i)
    <3>1. (A \o B)[j] = B[j - (i - 1)]
      BY <1>1, <1>4, <1>5, <2>2
    <3>2. j - (i - 1) \in 1 .. Len(q) - i /\ i + (j - (i - 1)) = j + 1
      BY <2>2
    <3>3. QED
      BY <1>2, <2>2, <3>1, <3>2
  <2>3. QED
    BY <2>1, <2>2
<1> QED
  BY <1>3, <1>4, <1>5, <1>6

\* A step that leaves the queue, and takes no session in it elsewhere.
QueueStays ==
    /\ UNCHANGED <<waiters, cancelled>>
    /\ \A r \in Sessions : Queued(r) => stage'[r] \in {"register", "closing"}

\* A session joins the queue when it asks, leaves it when it is answered or cancels, and
\* no step takes it elsewhere meanwhile.
LEMMA QueueStep ==
  IInv /\ [Next]_vars => QueueOfWaiting'
<1> SUFFICES ASSUME TypeOK, OneRuns, QueueOfWaiting, [Next]_vars PROVE QueueOfWaiting'
  BY DEF IInv
<1>q. ASSUME NEW r \in Sessions, Queued(r)
      PROVE  stage[r] \in {"register", "closing"} /\ ~cancelled[r]
  BY <1>q DEF QueueOfWaiting, Queued, Contains
<1>s. ASSUME QueueStays PROVE QueueOfWaiting'
  <2>1. ASSUME NEW i \in DOMAIN waiters
        PROVE  stage'[waiters[i]] \in {"register", "closing"}
    BY <1>s DEF QueueStays, QueueOfWaiting, Queued, Contains
  <2>2. QED
    BY <1>s, <2>1 DEF QueueStays, QueueOfWaiting
<1> USE SwisAssumption
    DEF OneRuns, WaitIn, GoOn, Leave, Tell, Fails, Works, At, Scheduled, Runs, SayNo,
        ProcessorFails, ProcessorSaysNo, ReplacesError, Stoppable, EndSessions, Connected,
        HoldsClose, Waiting, Calls,
        machine, asked, results, locks, observer, bounds, vars
<1>1. ASSUME NEW s \in Sessions, Registered(s) PROVE QueueStays
  BY <1>1, <1>q DEF Registered, QueueStays, TypeOK
<1>2. ASSUME NEW s \in Sessions, Confirmed(s) PROVE QueueStays
  BY <1>2, <1>q DEF Confirmed, QueueStays, TypeOK
<1>3. ASSUME NEW s \in Sessions, Refused(s) PROVE QueueStays
  BY <1>3, <1>q DEF Refused, QueueStays, TypeOK
<1>4. ASSUME NEW s \in Sessions, ChangeFiles(s) PROVE QueueStays
  BY <1>4, <1>q DEF ChangeFiles, QueueStays, TypeOK
<1>5. ASSUME NEW s \in Sessions, RegistryRefused(s) PROVE QueueStays
  BY <1>5, <1>q DEF RegistryRefused, QueueStays, TypeOK
<1>6. ASSUME NEW s \in Sessions, UpdateRegistry(s) PROVE QueueStays
  BY <1>6, <1>q DEF UpdateRegistry, QueueStays, TypeOK
<1>7. ASSUME NEW s \in Sessions, Finish(s) PROVE QueueStays
  BY <1>7, <1>q DEF Finish, QueueStays, TypeOK
<1>8. ASSUME NEW s \in Sessions, RunCancelled(s) PROVE QueueStays
  BY <1>8, <1>q DEF RunCancelled, QueueStays, TypeOK
<1>9. ASSUME NEW s \in Sessions, SignalCompleted(s) PROVE QueueStays
  BY <1>9, <1>q DEF SignalCompleted, QueueStays, TypeOK
<1>10. ASSUME NEW s \in Sessions, CommitFiles(s) PROVE QueueStays
  BY <1>10, <1>q DEF CommitFiles, QueueStays, TypeOK
<1>11. ASSUME NEW s \in Sessions, CommitRegistry(s) PROVE QueueStays
  BY <1>11, <1>q DEF CommitRegistry, QueueStays, TypeOK
<1>12. ASSUME NEW s \in Sessions, CommitLog(s) PROVE QueueStays
  BY <1>12, <1>q DEF CommitLog, QueueStays, TypeOK
<1>13. ASSUME NEW s \in Sessions, PostJournalFinalization(s) PROVE QueueStays
  BY <1>13, <1>q DEF PostJournalFinalization, QueueStays, TypeOK
<1>14. ASSUME NEW s \in Sessions, CloseLog(s) PROVE QueueStays
  BY <1>14, <1>q DEF CloseLog, QueueStays, TypeOK
<1>15. ASSUME NEW s \in Sessions, UndoFiles(s) PROVE QueueStays
  BY <1>15, <1>q DEF UndoFiles, QueueStays, TypeOK
<1>16. ASSUME NEW s \in Sessions, UndoRegistry(s) PROVE QueueStays
  BY <1>16, <1>q DEF UndoRegistry, QueueStays, TypeOK
<1>17. ASSUME NEW s \in Sessions, CompleteUndone(s) PROVE QueueStays
  BY <1>17, <1>q DEF CompleteUndone, QueueStays, TypeOK
<1>18. ASSUME NEW s \in Sessions, RunError(s) PROVE QueueStays
  BY <1>18, <1>q DEF RunError, QueueStays, TypeOK
<1>19. ASSUME NEW s \in Sessions, FatalFiles(s) PROVE QueueStays
  BY <1>19, <1>q DEF FatalFiles, QueueStays, TypeOK
<1>20. ASSUME NEW s \in Sessions, FatalRegistry(s) PROVE QueueStays
  BY <1>20, <1>q DEF FatalRegistry, QueueStays, TypeOK
<1>21. ASSUME NEW s \in Sessions, FatalTell(s) PROVE QueueStays
  BY <1>21, <1>q DEF FatalTell, QueueStays, TypeOK
<1>22. ASSUME NEW s \in Sessions, Closing(s) PROVE QueueStays
  BY <1>22, <1>q DEF Closing, QueueStays, TypeOK
<1>23. ASSUME NEW s \in Sessions, StartFails(s) PROVE QueueStays
  BY <1>23, <1>q DEF StartFails, QueueStays, TypeOK
<1>24. ASSUME NEW s \in Sessions, CloseSession(s) PROVE QueueStays
  BY <1>24, <1>q DEF CloseSession, QueueStays, TypeOK
<1>25. ASSUME NEW s \in Sessions, CloseRegistering(s) PROVE QueueStays
  BY <1>25, <1>q DEF CloseRegistering, QueueStays, TypeOK
<1>26. ASSUME NEW s \in Sessions,
             NEW k \in {"install", "uninstall", "info"}, Start(s, k)
      PROVE  QueueStays
  BY <1>26, <1>q DEF Start, QueueStays, TypeOK
<1>27. ASSUME NEW s \in Sessions, Begin(s) PROVE QueueOfWaiting'
  <2>1. ~Queued(s) /\ UNCHANGED cancelled /\ ~cancelled[s]
    BY <1>27, <1>q DEF Begin
  <2>2. CASE UNCHANGED waiters
    <3>1. QueueStays
      BY <1>27, <1>q, <2>1, <2>2 DEF Begin, QueueStays, TypeOK
    <3>2. QED
      BY <3>1, <1>s
  <2>3. CASE waiters' = Append(waiters, s) /\ stage' = [stage EXCEPT ![s] = "register"]
    <3>1. /\ waiters' \in Seq(Sessions)
          /\ DOMAIN waiters' = 1 .. Len(waiters) + 1
          /\ waiters'[Len(waiters) + 1] = s
          /\ \A i \in 1 .. Len(waiters) : waiters'[i] = waiters[i] /\ waiters[i] # s
      BY <2>1, <2>3 DEF QueueOfWaiting, Queued, Contains
    <3>2. /\ stage'[s] = "register"
          /\ \A r \in Sessions \ {s} : stage'[r] = stage[r]
      BY <2>3 DEF TypeOK
    <3>3. DOMAIN waiters = 1 .. Len(waiters) /\ Len(waiters) \in Nat
      BY DEF QueueOfWaiting
    <3>4. QED
      BY <2>1, <3>1, <3>2, <3>3 DEF QueueOfWaiting
  <2>4. QED
    BY <1>27, <2>2, <2>3 DEF Begin
<1>28. ASSUME NEW s \in Sessions, CancelInstallation(s) PROVE QueueOfWaiting'
  <2>1. \A r \in Sessions \ {s} : cancelled'[r] = cancelled[r] /\ stage'[r] = stage[r]
    BY <1>28 DEF CancelInstallation, TypeOK
  <2>2. CASE ~Queued(s)
    <3>1. UNCHANGED waiters
      BY <1>28, <2>2 DEF CancelInstallation
    <3>2. \A i \in DOMAIN waiters : waiters[i] # s
      BY <2>2 DEF QueueOfWaiting, Queued, Contains
    <3>3. QED
      BY <2>1, <3>1, <3>2 DEF QueueOfWaiting
  <2>3. CASE Queued(s)
    <3>1. PICK i \in DOMAIN waiters : waiters[i] = s /\ waiters' = RemoveAt(waiters, i)
      BY <1>28, <2>3 DEF CancelInstallation
    <3>2. i \in 1 .. Len(waiters) /\ Len(waiters) \in Nat /\ waiters \in Seq(Sessions)
      BY DEF QueueOfWaiting
    <3>3. /\ waiters' \in Seq(Sessions)
          /\ DOMAIN waiters' = 1 .. Len(waiters) - 1
          /\ \A j \in 1 .. Len(waiters) - 1 :
               waiters'[j] = IF j < i THEN waiters[j] ELSE waiters[j + 1]
      BY <3>1, <3>2, RemovedAt
    <3>4. ASSUME NEW j \in DOMAIN waiters'
          PROVE  /\ stage'[waiters'[j]] \in {"register", "closing"}
                 /\ ~cancelled'[waiters'[j]]
      <4>1. PICK k \in 1 .. Len(waiters) : k # i /\ waiters'[j] = waiters[k]
        BY <3>2, <3>3
      <4>2. waiters[k] \in Sessions \ {s}
        BY <3>1, <3>2, <4>1 DEF QueueOfWaiting
      <4>3. QED
        BY <2>1, <3>2, <4>1, <4>2 DEF QueueOfWaiting
    <3>5. ASSUME NEW j \in DOMAIN waiters', NEW k \in DOMAIN waiters',
                 waiters'[j] = waiters'[k]
          PROVE  j = k
      BY <3>2, <3>3, <3>5 DEF QueueOfWaiting
    <3>6. QED
      BY <3>3, <3>4, <3>5 DEF QueueOfWaiting
  <2>4. QED
    BY <2>2, <2>3
<1>29. ASSUME Death PROVE QueueOfWaiting'
  BY <1>29, EmptySeq DEF Death, QueueOfWaiting
<1>30. ASSUME ObserverIdle PROVE QueueOfWaiting'
  <2>1. CASE waiters = <<>>
    BY <1>30, <2>1, EmptySeq DEF ObserverIdle, QueueOfWaiting
  <2>2. CASE waiters # <<>>
    <3>1. /\ waiters' = Tail(waiters)
          /\ Tail(waiters) \in Seq(Sessions)
          /\ \A i \in DOMAIN Tail(waiters) :
               i + 1 \in DOMAIN waiters /\ Tail(waiters)[i] = waiters[i + 1]
      BY <1>30, <2>2 DEF ObserverIdle, QueueOfWaiting
    <3>2. UNCHANGED <<stage, cancelled>>
      BY <1>30 DEF ObserverIdle
    <3>3. ASSUME NEW i \in DOMAIN Tail(waiters), NEW j \in DOMAIN Tail(waiters)
          PROVE  i \in Int /\ j \in Int
      BY <3>1
    <3>4. QED
      BY <3>1, <3>2, <3>3 DEF QueueOfWaiting
  <2>3. QED
    BY <2>1, <2>2
<1>31. CASE UNCHANGED vars
  BY <1>31, <1>q, <1>s DEF QueueStays
<1>32. QED
  BY <1>s, <1>1, <1>2, <1>3, <1>4, <1>5, <1>6, <1>7, <1>8, <1>9, <1>10, <1>11, <1>12,
     <1>13, <1>14, <1>15, <1>16, <1>17, <1>18, <1>19, <1>20, <1>21, <1>22, <1>23,
     <1>24, <1>25, <1>26, <1>27, <1>28, <1>29, <1>30, <1>31
     DEF Next, Serves, Operates, Finalizes, Client

\* A request that is completed with success was at its end, and not cancelled unless it was
\* past the commits.
LEMMA OnlyTellsOK ==
  ASSUME TypeOK, [Next]_vars, NEW r \in Sessions, told[r] = "waiting", told'[r] = "ok"
  PROVE  stage[r] = "post" \/ ~cancelled[r]
<1> DEFINE Goal == stage[r] = "post" \/ ~cancelled[r]
<1> USE SwisAssumption
    DEF TypeOK, Tell, WaitIn, At, EndSessions, vars, observer, results, locks, bounds, machine
<1>1. ASSUME NEW s \in Sessions, Begin(s) PROVE Goal
  BY <1>1 DEF Begin
<1>2. ASSUME NEW s \in Sessions, Registered(s) PROVE Goal
  BY <1>2 DEF Registered
<1>3. ASSUME NEW s \in Sessions, Confirmed(s) PROVE Goal
  BY <1>3 DEF Confirmed
<1>4. ASSUME NEW s \in Sessions, Refused(s) PROVE Goal
  BY <1>4 DEF Refused
<1>5. ASSUME NEW s \in Sessions, ChangeFiles(s) PROVE Goal
  BY <1>5 DEF ChangeFiles
<1>6. ASSUME NEW s \in Sessions, RegistryRefused(s) PROVE Goal
  BY <1>6 DEF RegistryRefused
<1>7. ASSUME NEW s \in Sessions, UpdateRegistry(s) PROVE Goal
  BY <1>7 DEF UpdateRegistry
<1>8. ASSUME NEW s \in Sessions, Finish(s) PROVE Goal
  BY <1>8 DEF Finish
<1>9. ASSUME NEW s \in Sessions, RunCancelled(s) PROVE Goal
  BY <1>9 DEF RunCancelled
<1>10. ASSUME NEW s \in Sessions, SignalCompleted(s) PROVE Goal
  BY <1>10 DEF SignalCompleted
<1>11. ASSUME NEW s \in Sessions, CommitFiles(s) PROVE Goal
  BY <1>11 DEF CommitFiles
<1>12. ASSUME NEW s \in Sessions, CommitRegistry(s) PROVE Goal
  BY <1>12 DEF CommitRegistry
<1>13. ASSUME NEW s \in Sessions, CommitLog(s) PROVE Goal
  BY <1>13 DEF CommitLog
<1>14. ASSUME NEW s \in Sessions, PostJournalFinalization(s) PROVE Goal
  BY <1>14 DEF PostJournalFinalization
<1>15. ASSUME NEW s \in Sessions, CloseLog(s) PROVE Goal
  BY <1>15 DEF CloseLog
<1>16. ASSUME NEW s \in Sessions, UndoFiles(s) PROVE Goal
  BY <1>16 DEF UndoFiles
<1>17. ASSUME NEW s \in Sessions, UndoRegistry(s) PROVE Goal
  BY <1>17 DEF UndoRegistry
<1>18. ASSUME NEW s \in Sessions, CompleteUndone(s) PROVE Goal
  BY <1>18 DEF CompleteUndone
<1>19. ASSUME NEW s \in Sessions, RunError(s) PROVE Goal
  BY <1>19 DEF RunError
<1>20. ASSUME NEW s \in Sessions, FatalFiles(s) PROVE Goal
  BY <1>20 DEF FatalFiles
<1>21. ASSUME NEW s \in Sessions, FatalRegistry(s) PROVE Goal
  BY <1>21 DEF FatalRegistry
<1>22. ASSUME NEW s \in Sessions, FatalTell(s) PROVE Goal
  BY <1>22 DEF FatalTell
<1>23. ASSUME NEW s \in Sessions, Closing(s) PROVE Goal
  BY <1>23 DEF Closing
<1>24. ASSUME NEW s \in Sessions, StartFails(s) PROVE Goal
  BY <1>24 DEF StartFails
<1>25. ASSUME NEW s \in Sessions, CancelInstallation(s) PROVE Goal
  BY <1>25 DEF CancelInstallation
<1>26. ASSUME NEW s \in Sessions, CloseSession(s) PROVE Goal
  BY <1>26 DEF CloseSession
<1>27. ASSUME NEW s \in Sessions, CloseRegistering(s) PROVE Goal
  BY <1>27 DEF CloseRegistering
<1>28. ASSUME NEW s \in Sessions,
             NEW k \in {"install", "uninstall", "info"}, Start(s, k)
      PROVE  Goal
  BY <1>28 DEF Start
<1>29. ASSUME Death PROVE Goal
  BY <1>29 DEF Death
<1>30. ASSUME ObserverIdle PROVE Goal
  BY <1>30 DEF ObserverIdle
<1>31. CASE UNCHANGED vars
  BY <1>31
<1> HIDE DEF Goal
<1>32. Goal
  BY <1>1, <1>2, <1>3, <1>4, <1>5, <1>6, <1>7, <1>8, <1>9, <1>10, <1>11, <1>12,
     <1>13, <1>14, <1>15, <1>16, <1>17, <1>18, <1>19, <1>20, <1>21, <1>22, <1>23,
     <1>24, <1>25, <1>26, <1>27, <1>28, <1>29, <1>30, <1>31
     DEF Next, Serves, Operates, Finalizes, Client
<1> QED
  BY <1>32 DEF Goal

-----------------------------------------------------------------------------
(* The invariant, and what follows from it.                                  *)

\* No session has asked for anything, so the invariant holds.
LEMMA InvInit ==
  Init => IInv
<1> SUFFICES ASSUME Init PROVE IInv
  OBVIOUS
<1>1. TypeOK /\ OneRuns /\ FlagIsLock
  BY SwisAssumption DEF Init, TypeOK, OneRuns, FlagIsLock, Waiting, Calls
<1>2. SessionsOK
  BY SwisAssumption DEF Init, SessionsOK, StageOK, StsOK, ToldOK, Waiting, Calls
<1>3. QueueOfWaiting
  BY EmptySeq DEF Init, QueueOfWaiting
<1> QED
  BY <1>1, <1>2, <1>3 DEF IInv

\* Every step preserves the invariant.
LEMMA InvStep ==
  IInv /\ [Next]_vars => IInv'
<1> SUFFICES ASSUME IInv, [Next]_vars PROVE IInv'
  OBVIOUS
<1>1. TypeOK' /\ OneRuns' /\ FlagIsLock'
  BY TypeStep, RunsStep, LockStep
<1>2. SessionsOK'
  BY StageStep, StsStep, ToldStep DEF SessionsOK
<1>3. QueueOfWaiting'
  BY QueueStep
<1> QED
  BY <1>1, <1>2, <1>3 DEF IInv

\* The invariant holds always.
LEMMA InvHolds ==
  Spec => []IInv
BY InvInit, InvStep, PTL DEF Spec

\* The types, whatever the number of sessions and packages.
THEOREM TypeCorrect ==
  Spec => []TypeOK
<1>1. IInv => TypeOK
  BY DEF IInv
<1> QED
  BY <1>1, InvHolds, PTL

\* The registry names only committed files, and the observer only committed packages.
THEOREM CommitsInOrder ==
  Spec => []InCommitOrder
<1>1. IInv => InCommitOrder
  BY DEF IInv, SessionsOK, StsOK, InCommitOrder
<1> QED
  BY <1>1, InvHolds, PTL

\* Success means everything and cancellation nothing.
THEOREM ClientsToldTruth ==
  Spec => []ToldTruth
<1>1. IInv => ToldTruth
  BY DEF IInv, SessionsOK, ToldOK, ToldTruth
<1> QED
  BY <1>1, InvHolds, PTL

\* Files without their registry entry come only of the window between the commits.
THEOREM TornInWindow ==
  Spec => []TornOnlyInWindow
<1>1. IInv => TornOnlyInWindow
  BY DEF IInv, SessionsOK, StsOK, TornOnlyInWindow
<1> QED
  BY <1>1, InvHolds, PTL

\* No machine touches, or leaves behind after success, the registry's transaction of
\* another.
THEOREM LockIsOwned ==
  Spec => []LockOwned
<1>1. IInv => LockOwned
  BY DEF IInv, FlagIsLock, SessionsOK, StageOK, ToldOK, LockOwned, Connected
<1> QED
  BY <1>1, InvHolds, PTL

\* An accepted cancellation is never followed by success.
THEOREM CancelIsHonoured ==
  Spec => CancelHonoured
<1>1. ASSUME IInv, [Next]_vars, NEW s \in Sessions, cancelled[s], told[s] = "waiting"
      PROVE  told'[s] # "ok"
  <2> SUFFICES ASSUME told'[s] = "ok" PROVE FALSE
    OBVIOUS
  <2>1. stage[s] # "post"
    BY <1>1 DEF IInv, SessionsOK, ToldOK
  <2> QED
    BY <1>1, <2>1, OnlyTellsOK DEF IInv
<1>2. IInv /\ [Next]_vars =>
        \A s \in Sessions : cancelled[s] /\ told[s] = "waiting" => told'[s] # "ok"
  BY <1>1
<1> QED
  BY <1>2, InvHolds, PTL DEF Spec, CancelHonoured

\* The observer's queue holds the sessions that wait for it, each once.
THEOREM QueueIsOfWaiting ==
  Spec => []QueueOfWaiting
<1>1. IInv => QueueOfWaiting
  BY DEF IInv
<1> QED
  BY <1>1, InvHolds, PTL
=============================================================================
