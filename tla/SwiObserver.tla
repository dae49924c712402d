------------------------------ MODULE SwiObserver ------------------------------
(***************************************************************************)
(* The SWI observer: installations write a log of what they change, and      *)
(* after they are committed a background processor reads the logs to the     *)
(* plugins that want to know.                                                *)
(*                                                                          *)
(* The server is one thread.  A request of a client is one step, and so is   *)
(* one RunL of the processor, an active object of low priority: requests    *)
(* come between any two of its RunLs.  Clients, the transaction server that  *)
(* keeps or deletes a client's log, the plugins and the backup property      *)
(* belong to other processes.                                                *)
(*                                                                          *)
(* What is abstracted: a record of a log is one of "header", "data" (in the  *)
(* plugin's filter), "other" (data that is not) and "bad" (unreadable); a    *)
(* client writes its log in one step, in which it also adds the file to its  *)
(* transaction; the order in which the directory lists the logs is left      *)
(* open; all plugins have one filter; a plugin completes the notification it *)
(* was given; a start of the server that leaves is no step.                  *)
(***************************************************************************)
EXTENDS Naturals, Sequences, FiniteSets, FiniteSetsExt, SequencesExt

CONSTANTS
    Clients,        \* the client processes, one session each at a time
    Plugins,        \* number of plugins, iImplList.Count()
    Contents,       \* the logs clients write, sequences of records
    MaxLogs,        \* bound: log names
    MaxMishaps      \* bound: crashes, failures, backups, and overlaps (a log is
                    \* created, or the server started, beside another client's
                    \* log or a running processor)

Records == {"header", "data", "other", "bad"}

\* A package's header is logged before anything of it is processed
\* (DoStateShutdownAllAppsL), so that no log begins with data.
ASSUME ContentsAssumption ==
    \A s \in Contents : s \in Seq(Records) /\ (s # <<>> => s[1] \in {"header", "bad"})
ASSUME BoundsAssumption == {Plugins, MaxLogs, MaxMishaps} \subseteq Nat

VARIABLES
    \* durable
    swi,        \* logs in log_swi
    obs,        \* logs in log_obs
    content,    \* what each log holds
    flag,       \* does the flag file exist?
    \* the server process
    up,         \* does it run?
    high,       \* iHighestFileNum
    timer,      \* is the shutdown timer enabled?
    waiters,    \* iAsyncRequests
    proc,       \* the processor's members
    \* the clients
    cl,         \* how far each is
    file,       \* the log each has been given
    \* the rest of the device
    on,         \* has it booted?
    bur,        \* the backup and restore property: its value, and whether the
                \* processor's subscription has completed
    \* history
    fate,       \* what became of the transaction that holds each log
    told,       \* what each plugin was told of each log
    cut,        \* has a log been given up half way?
    \* bounds
    mishaps     \* how many of each kind

durable == <<swi, obs, content, flag>>
server  == <<up, high, timer, waiters, proc>>
client  == <<cl, file>>
history == <<fate, told, cut>>
vars    == <<durable, server, client, on, bur, history, mishaps>>

Logs  == 1 .. MaxLogs
NoLog == 0

\* Has a client a log open?  Then the file cannot be moved or deleted.
Open(f) == \E c \in Clients :
    file[c] = f /\ cl[c] \in {"holding", "refused", "recording", "decided"}

Kinds == {"crash", "fault", "backup", "overlap"}

Happened == FoldFunction(+, 0, mishaps)

Mishap(kind) ==
    /\ Happened < MaxMishaps
    /\ mishaps' = [mishaps EXCEPT ![kind] = @ + 1]

Fault == Mishap("fault")

Overlap(now) == IF now THEN Mishap("overlap") ELSE UNCHANGED mishaps

\* Reset, in the state given.
Reset(state) ==
    [progress |-> "idle", state |-> state, impl |-> 0, pos |-> 0,
     header |-> FALSE, current |-> NoLog]

Init ==
    /\ swi = {} /\ obs = {} /\ flag = FALSE
    /\ content = [f \in Logs |-> <<>>]
    /\ up = FALSE /\ high = 0 /\ timer = FALSE /\ waiters = <<>>
    /\ proc = Reset("idle")
    /\ cl = [c \in Clients |-> "out"] /\ file = [c \in Clients |-> NoLog]
    /\ on = TRUE /\ bur = [mode |-> FALSE, changed |-> FALSE]
    /\ fate = [f \in Logs |-> "none"]
    /\ told = [f \in Logs |-> [p \in 1 .. Plugins |-> <<>>]] /\ cut = FALSE
    /\ mishaps = [k \in Kinds |-> 0]

-------------------------------------------------------------------------------
(***************************************************************************)
(* The server object                                                        *)
(***************************************************************************)

\* StartProcessingL.  The property is read before it is subscribed to, and a
\* change in between completes no subscription.
StartProcessing ==
    IF bur.mode
    THEN /\ \E still \in BOOLEAN : bur' = [mode |-> still, changed |-> FALSE]
         /\ proc' = [proc EXCEPT !.progress = "subscribed", !.state = "restore"]
    ELSE /\ proc' = [proc EXCEPT !.progress = "busy", !.state = "nextlog"]
         /\ UNCHANGED bur

\* ProcessL: a processor that runs is left alone.
Process ==
    IF proc.progress = "idle"
    THEN StartProcessing /\ timer' = FALSE
    ELSE UNCHANGED <<timer, proc, bur>>

\* Mutant: nobody is woken.
CompletedWakesNobody ==
    /\ flag' = FALSE /\ timer' = TRUE /\ UNCHANGED <<waiters, cl>>

\* ProcessorCompleted deletes the flag file and wakes the first waiting client,
\* or lets the server exit.
ProcessorCompleted ==
    /\ flag' = FALSE
    /\ IF waiters # <<>>
       THEN /\ cl' = [cl EXCEPT ![Head(waiters)] = "registered"]
            /\ waiters' = Tail(waiters)
            /\ UNCHANGED timer
       ELSE timer' = TRUE /\ UNCHANGED <<waiters, cl>>

\* Mutant: half-processed logs are kept and processed again.
StartServerKeepsHalf(logs) ==
    /\ up' = TRUE
    /\ swi' = logs \cup obs /\ obs' = {}
    /\ high' = IF swi' = {} THEN 0 ELSE Max(swi')
    /\ IF swi' = {}
       THEN flag' = FALSE /\ timer' = TRUE /\ UNCHANGED <<proc, bur>>
       ELSE StartProcessing /\ UNCHANGED <<flag, timer>>

\* ConstructL with InitializeLogDirsL, where log_swi holds the logs given.
StartServer(logs) ==
    /\ up' = TRUE
    /\ swi' = logs /\ obs' = {}
    /\ high' = IF logs = {} THEN 0 ELSE Max(logs)
    /\ IF logs = {}
       THEN flag' = FALSE /\ timer' = TRUE /\ UNCHANGED <<proc, bur>>
       ELSE StartProcessing /\ UNCHANGED <<flag, timer>>

\* A client that connects starts the server.
Launch ==
    /\ on /\ ~up
    /\ StartServer(swi)
    /\ Overlap(\E c \in Clients : file[c] # NoLog)
    /\ UNCHANGED <<content, waiters, client, on, history>>

ServerGone ==
    /\ up' = FALSE /\ timer' = FALSE /\ waiters' = <<>> /\ proc' = Reset("idle")

\* KSwiObserverShutdownPeriod after the last session was closed.
Exit ==
    /\ up /\ timer /\ \A c \in Clients : cl[c] \in {"out", "leaving"}
    /\ ServerGone
    /\ UNCHANGED <<durable, high, client, on, bur, history, mishaps>>

-------------------------------------------------------------------------------
(***************************************************************************)
(* Clients: the installation, uninstallation and restore machines            *)
(***************************************************************************)

\* ERegisterToObserver: is the client kept waiting?
MustWait == proc.progress = "busy"

Register(c) ==
    /\ up /\ cl[c] = "out"
    /\ IF MustWait
       THEN /\ cl' = [cl EXCEPT ![c] = "waiting"]
            /\ waiters' = Append(waiters, c)
       ELSE cl' = [cl EXCEPT ![c] = "registered"] /\ UNCHANGED waiters
    /\ UNCHANGED <<durable, up, high, timer, proc, file, on, bur, history,
                   mishaps>>

\* AppendFileNameL and the creation of the file.
CreateLog(c) ==
    /\ cl[c] = "registered" /\ up
    /\ high < MaxLogs /\ high' = high + 1
    /\ swi' = swi \cup {high'}
    /\ content' = [content EXCEPT ![high'] = <<>>]
    /\ file' = [file EXCEPT ![c] = high']
    /\ fate' = [fate EXCEPT ![high'] = "loose"]
    /\ told' = [told EXCEPT ![high'] = [p \in 1 .. Plugins |-> <<>>]]

Beside(c) == \/ proc.progress # "idle"
             \/ \E d \in Clients \ {c} : file[d] # NoLog

\* ETransferFileHandle.
Transfer(c) ==
    /\ CreateLog(c) /\ Overlap(Beside(c))
    /\ flag' = TRUE
    /\ cl' = [cl EXCEPT ![c] = "holding"]
    /\ UNCHANGED <<obs, up, timer, waiters, proc, on, bur, cut>>

\* ... leaves before the flag file is there.
TransferFails(c) ==
    /\ CreateLog(c)
    /\ Fault
    /\ cl' = [cl EXCEPT ![c] = "refused"]
    /\ UNCHANGED <<obs, flag, up, timer, waiters, proc, on, bur, cut>>

\* The client adds the log to its transaction and writes into it.
Record(c) ==
    /\ cl[c] = "holding" /\ cl' = [cl EXCEPT ![c] = "recording"]
    /\ \E s \in Contents : content' = [content EXCEPT ![file[c]] = s]
    /\ fate' = [fate EXCEPT ![file[c]] = "open"]
    /\ UNCHANGED <<swi, obs, flag, server, file, on, bur, told, cut, mishaps>>

\* Its transaction is committed.
Decide(c) ==
    /\ cl[c] = "recording" /\ cl' = [cl EXCEPT ![c] = "decided"]
    /\ fate' = [fate EXCEPT ![file[c]] = "committed"]
    /\ UNCHANGED <<durable, server, file, on, bur, told, cut, mishaps>>

\* Mutant: the processor is not started.
CommitOnly(c) ==
    /\ up /\ cl[c] = "decided" /\ cl' = [cl EXCEPT ![c] = "done"]
    /\ file' = [file EXCEPT ![c] = NoLog]
    /\ fate' = [fate EXCEPT ![file[c]] = "handed"]
    /\ UNCHANGED <<durable, up, high, timer, waiters, proc, on, bur, told, cut, mishaps>>

\* CommitL releases the client's handle; ESwiCommit starts the processor.
Commit(c) ==
    /\ up /\ cl[c] = "decided" /\ cl' = [cl EXCEPT ![c] = "done"]
    /\ file' = [file EXCEPT ![c] = NoLog]
    /\ fate' = [fate EXCEPT ![file[c]] = "handed"]
    /\ Process
    /\ UNCHANGED <<durable, up, high, waiters, on, told, cut, mishaps>>

\* ... StartProcessingL leaves, after the timer was disabled.
CommitFails(c) ==
    /\ up /\ cl[c] = "decided" /\ cl' = [cl EXCEPT ![c] = "done"]
    /\ file' = [file EXCEPT ![c] = NoLog]
    /\ proc.progress = "idle" /\ Fault
    /\ timer' = FALSE
    /\ UNCHANGED <<durable, up, high, waiters, proc, on, bur, history>>

\* The session is closed, and with it the client's handle of the log: the client
\* has finished, has failed, is cancelled or dies.
Leave(c) ==
    /\ cl[c] \notin {"out", "leaving"}
    /\ IF cl[c] = "recording"
       THEN cl' = [cl EXCEPT ![c] = "leaving"] /\ UNCHANGED file
       ELSE cl' = [cl EXCEPT ![c] = "out"] /\ file' = [file EXCEPT ![c] = NoLog]
    /\ waiters' = SelectSeq(waiters, LAMBDA d : d # c)
    /\ UNCHANGED <<durable, up, high, timer, proc, on, bur, history, mishaps>>

\* Its transaction is rolled back afterwards, which deletes the log by its name.
RollBack(c) ==
    LET f == file[c] IN
    /\ cl[c] = "leaving" /\ cl' = [cl EXCEPT ![c] = "out"]
    /\ file' = [file EXCEPT ![c] = NoLog]
    /\ IF Open(f) THEN UNCHANGED <<swi, fate>>
       ELSE /\ swi' = swi \ {f}
            /\ fate' = [fate EXCEPT ![f] = IF @ = "open" THEN "undone" ELSE @]
    /\ UNCHANGED <<obs, content, flag, server, on, bur, told, cut, mishaps>>

-------------------------------------------------------------------------------
(***************************************************************************)
(* The processor                                                            *)
(***************************************************************************)

InState(state) == up /\ proc.progress # "idle" /\ proc.state = state

\* RestoreCompletedL, when the property has changed.
RestoreCompleted ==
    /\ InState("restore") /\ bur.changed
    /\ StartProcessing
    /\ UNCHANGED <<durable, up, high, timer, waiters, client, on, history, mishaps>>

\* Logs that can be moved to log_obs, and those of them that are not empty.
Ready == {f \in swi : ~Open(f)}
Full  == {f \in Ready : content[f] # <<>>}

\* The log that has been processed is deleted.
Processed == obs \ {proc.current}

\* NextLogFileL moves the first log it can open to log_obs.  Logs listed before
\* it that a client has open are passed over, and empty ones are deleted.
NextLogFile ==
    /\ InState("nextlog")
    /\ \/ \E f \in Full, empty \in SUBSET (Ready \ Full) :
            /\ swi' = swi \ (empty \cup {f})
            /\ obs' = Processed \cup {f}
            /\ proc' = [proc EXCEPT !.state = "nextplugin", !.current = f, !.pos = 0]
       \/ /\ Full = {}
          /\ swi' = swi \ Ready
          /\ obs' = Processed
          /\ proc' = [proc EXCEPT !.state = "complete", !.current = NoLog]
    /\ UNCHANGED <<content, flag, up, high, timer, waiters, client, on, bur, history,
                   mishaps>>

\* ... a log was moved but cannot be opened: it is deleted, and the next is tried.
LogFileFails ==
    /\ InState("nextlog") /\ Fault
    /\ \E f \in Full : swi' = swi \ {f}
    /\ obs' = Processed
    /\ proc' = [proc EXCEPT !.current = NoLog]
    /\ UNCHANGED <<content, flag, up, high, timer, waiters, client, on, bur, history>>

\* Mutant: the last plugin is left out.
NextPluginMissesLast ==
    /\ InState("nextplugin")
    /\ IF proc.impl + 1 < Plugins
       THEN proc' = [proc EXCEPT !.impl = @ + 1, !.state = "process"]
       ELSE proc' = [proc EXCEPT !.impl = 0, !.state = "nextlog"]
    /\ UNCHANGED <<durable, up, high, timer, waiters, client, on, bur, history, mishaps>>

\* NextPluginL: a plugin that cannot be loaded is passed over.
NextPlugin ==
    /\ InState("nextplugin")
    /\ IF proc.impl < Plugins
       THEN \/ /\ proc' = [proc EXCEPT !.impl = @ + 1, !.state = "process"]
               /\ UNCHANGED mishaps
            \/ proc' = [proc EXCEPT !.impl = @ + 1] /\ Fault
       ELSE proc' = [proc EXCEPT !.impl = 0, !.state = "nextlog"] /\ UNCHANGED mishaps
    /\ UNCHANGED <<durable, up, high, timer, waiters, client, on, bur, history>>

Log == content[proc.current]

\* Where the next record that concerns the plugin is, or the end of file.
NextNote == Min({i \in proc.pos + 1 .. Len(Log) : Log[i] # "other"} \cup {Len(Log) + 1})

Tell(notes) ==
    told' = [told EXCEPT ![proc.current][proc.impl] = @ \o notes]

\* ProcessNextLineL: the first header starts the plugin.
HeaderNotes == IF proc.header THEN <<"header">> ELSE <<"start", "header">>

\* The record is a header or data the plugin wants.
Notify ==
    /\ InState("process") /\ NextNote <= Len(Log) /\ Log[NextNote] # "bad"
    /\ IF Log[NextNote] = "header"
       THEN Tell(HeaderNotes) /\ proc' = [proc EXCEPT !.pos = NextNote, !.header = TRUE]
       ELSE Tell(<<"data">>) /\ proc' = [proc EXCEPT !.pos = NextNote]
    /\ UNCHANGED <<durable, up, high, timer, waiters, client, on, bur, fate, cut, mishaps>>

\* Mutant: iHeader is not zeroed.
FinalizeKeepsHeader ==
    /\ InState("process") /\ NextNote > Len(Log)
    /\ Tell(<<"final">>)
    /\ proc' = [proc EXCEPT !.pos = 0, !.state = "nextplugin"]
    /\ UNCHANGED <<durable, up, high, timer, waiters, client, on, bur, fate, cut, mishaps>>

\* End of file.
Finalize ==
    /\ InState("process") /\ NextNote > Len(Log)
    /\ Tell(<<"final">>)
    /\ proc' = [proc EXCEPT !.pos = 0, !.header = FALSE, !.state = "nextplugin"]
    /\ UNCHANGED <<durable, up, high, timer, waiters, client, on, bur, fate, cut, mishaps>>

\* What a header that is not read leaves the plugin with: the start, if it is the
\* first of the log.
StartNotes == IF proc.header THEN <<>> ELSE <<"start">>

\* The record is unreadable or the plugin does not start: the log is given up,
\* for this plugin and the ones after it, and iHeader stays, unless it is
\* ReadHeaderL that leaves, with iHeader gone and after StartL.
GiveUp ==
    /\ InState("process") /\ NextNote <= Len(Log)
    /\ IF Log[NextNote] = "bad" THEN UNCHANGED mishaps ELSE Fault
    /\ \E kept \in IF Log[NextNote] = "data" THEN {TRUE} ELSE BOOLEAN :
          /\ IF kept THEN UNCHANGED told ELSE Tell(StartNotes)
          /\ proc' = [proc EXCEPT !.impl = 0, !.pos = 0, !.state = "nextlog",
                                  !.header = kept /\ @]
    /\ cut' = TRUE
    /\ UNCHANGED <<durable, up, high, timer, waiters, client, on, bur, fate>>

CompleteProcess ==
    /\ InState("complete")
    /\ ProcessorCompleted
    /\ proc' = Reset("complete")
    /\ UNCHANGED <<swi, obs, content, up, high, file, on, bur, history, mishaps>>

\* RunError, after RunL left; NextLogFileL may have deleted a log and moved another
\* before that, and ProcessNextLineL may have started the plugin.
RunError ==
    /\ \E state \in {"restore", "nextlog", "nextplugin", "process"} : InState(state)
    /\ proc.state = "restore" => bur.changed
    /\ Fault
    /\ \/ UNCHANGED <<swi, obs>>
       \/ proc.state = "nextlog" /\ obs' = Processed /\ UNCHANGED swi
       \/ /\ proc.state = "nextlog"
          /\ \E f \in Full : swi' = swi \ {f} /\ obs' = Processed \cup {f}
    /\ \/ UNCHANGED told
       \/ /\ proc.state = "process" /\ NextNote <= Len(Log) /\ Log[NextNote] # "data"
          /\ Tell(StartNotes)
    /\ proc' = Reset("idle")
    /\ ProcessorCompleted
    /\ UNCHANGED <<content, up, high, file, on, bur, fate, cut>>

-------------------------------------------------------------------------------
(***************************************************************************)
(* The rest of the device                                                   *)
(***************************************************************************)
BackupStarts ==
    /\ on /\ ~bur.mode /\ Mishap("backup")
    /\ bur' = [mode |-> TRUE, changed |-> bur.changed \/ InState("restore")]
    /\ UNCHANGED <<durable, server, client, on, history>>

BackupEnds ==
    /\ bur.mode
    /\ bur' = [mode |-> FALSE, changed |-> bur.changed \/ InState("restore")]
    /\ UNCHANGED <<durable, server, client, on, history, mishaps>>

\* The device goes down.
Crash ==
    /\ on /\ on' = FALSE /\ Mishap("crash")
    /\ ServerGone
    /\ cl' = [c \in Clients |-> "out"] /\ file' = [c \in Clients |-> NoLog]
    /\ bur' = [mode |-> FALSE, changed |-> FALSE]
    /\ UNCHANGED <<durable, high, history>>

\* Mutant: the observer is started before transactions are rolled back.
BootObserverFirst ==
    /\ ~on /\ on' = TRUE
    /\ IF flag THEN StartServer(swi)
               ELSE UNCHANGED <<swi, obs, flag, up, high, timer, proc, bur>>
    /\ fate' = [f \in Logs |-> IF fate[f] = "open" THEN "undone" ELSE fate[f]]
    /\ UNCHANGED <<content, waiters, client, told, cut, mishaps>>

\* RecoverL of the registry: open transactions are rolled back, then ProcessLogsL
\* starts the server if the flag file is there.
Boot ==
    /\ ~on /\ on' = TRUE
    /\ LET kept == {f \in swi : fate[f] # "open"} IN
       IF flag THEN StartServer(kept)
               ELSE swi' = kept /\ UNCHANGED <<obs, flag, up, high, timer, proc, bur>>
    /\ fate' = [f \in Logs |-> IF fate[f] = "open" THEN "undone" ELSE fate[f]]
    /\ UNCHANGED <<content, waiters, client, told, cut, mishaps>>

-------------------------------------------------------------------------------
Request(c) ==
    \/ Register(c)
    \/ Transfer(c) \/ TransferFails(c)
    \/ Record(c) \/ Decide(c)
    \/ Commit(c) \/ CommitFails(c)
    \/ Leave(c) \/ RollBack(c)

\* What RunL does when nothing fails.
Run ==
    \/ RestoreCompleted \/ NextLogFile
    \/ InState("nextplugin") /\ NextPlugin /\ UNCHANGED mishaps
    \/ Notify \/ Finalize
    \/ GiveUp /\ UNCHANGED mishaps
    \/ CompleteProcess

Next ==
    \/ \E c \in Clients : Request(c)
    \/ Launch \/ Exit
    \/ RestoreCompleted \/ NextLogFile \/ LogFileFails \/ NextPlugin
    \/ Notify \/ Finalize \/ GiveUp \/ CompleteProcess \/ RunError
    \/ BackupStarts \/ BackupEnds \/ Crash \/ Boot

Spec == Init /\ [][Next]_vars

(***************************************************************************)
(* Fairness.  The server's scheduler runs the processor when it has nothing  *)
(* else to do, and plugins complete; a device that is down is booted.        *)
(* Nothing obliges a client, or a backup to end.                             *)
(***************************************************************************)
Fairness == WF_vars(Run) /\ WF_vars(Boot)

FairSpec == Spec /\ Fairness

-------------------------------------------------------------------------------
States == {"idle", "restore", "nextlog", "nextplugin", "process", "complete"}

TypeOK ==
    /\ swi \subseteq Logs /\ obs \subseteq Logs /\ flag \in BOOLEAN
    /\ content \in [Logs -> Contents \cup {<<>>}]
    /\ up \in BOOLEAN /\ high \in 0 .. MaxLogs /\ timer \in BOOLEAN
    /\ waiters \in Seq(Clients)
    /\ proc \in [progress : {"idle", "subscribed", "busy"}, state : States,
                 impl : 0 .. Plugins, pos : Nat, header : BOOLEAN,
                 current : Logs \cup {NoLog}]
    /\ cl \in [Clients -> {"out", "waiting", "registered", "holding", "refused",
                           "recording", "decided", "done", "leaving"}]
    /\ file \in [Clients -> Logs \cup {NoLog}]
    /\ cut \in BOOLEAN /\ on \in BOOLEAN /\ bur \in [mode : BOOLEAN, changed : BOOLEAN]
    /\ fate \in [Logs -> {"none", "loose", "open", "committed", "handed", "undone"}]
    /\ mishaps \in [Kinds -> 0 .. MaxMishaps]
    /\ \A f \in Logs : told[f] \in [1 .. Plugins -> Seq({"start", "header", "data", "final"})]

-------------------------------------------------------------------------------
NoFault   == mishaps["fault"] = 0
NoOverlap == mishaps["overlap"] = 0

\* The records that concern the plugins, among the first i of a log.
Wanted(s) ==
    LET W[i \in 0 .. Len(s)] ==
        IF i = 0 THEN <<>>
        ELSE IF s[i] = "other" THEN W[i - 1] ELSE Append(W[i - 1], s[i])
    IN  W

\* What a plugin should hear of a log, after the start.
Script(f) == Wanted(content[f])[Len(content[f])] \o <<"final">>

Cut(f) == "bad" \in {content[f][i] : i \in DOMAIN content[f]}

\* A plugin hears of a log what is written there, in order and once, whatever
\* restarts and failures come between (InitializeLogDirsL, SetStartPosL); the
\* start is looked at in StartedFirst.
ToldInOrder ==
    \A f \in Logs, p \in 1 .. Plugins :
        \/ IsPrefix(told[f][p], Script(f))
        \/ IsPrefix(told[f][p], <<"start">> \o Script(f))

\* swiobprocessor.cpp:517: the header is forgotten "to be able to send Start
\* notification for the next plugin": no plugin hears a header before its StartL,
\* as long as no log was given up half way.
StartedFirst ==
    ~cut => \A f \in Logs, p \in 1 .. Plugins :
                IsPrefix(told[f][p], <<"start">> \o Script(f))

\* The server may exit only when the processor has nothing left to do: nothing is
\* half processed then (ProcessL, ProcessorCompleted).
TimerOnlyWhenIdle ==
    up /\ timer => proc.progress = "idle" /\ (NoFault => obs = {})

\* Only logs of committed transactions are read to plugins (the comment of
\* InitializeLogDirsL), as long as no log is created beside another or beside a
\* running processor.
AloneOnlyCommitted ==
    NoOverlap => \A f \in Logs, p \in 1 .. Plugins :
        told[f][p] # <<>> => fate[f] \in {"committed", "handed"}

FlagFor(fates) == ~up /\ NoFault => \A f \in swi : fate[f] \in fates => flag

\* swiobcommon.h: the presence of the flag file "indicates to the client that
\* there are logfiles left in the observer's private dir": without it the server
\* is not started at boot to process a log that was handed over to it.
FlagShowsLogs == FlagFor({"handed"})

\* ... which holds of installations that do not overlap, also of one that was
\* committed but not handed over.
AloneFlagged == NoOverlap => FlagFor({"committed", "handed"})

\* A committed log that holds something leaves log_swi only for log_obs.
TakenOnlyToProcess ==
    [][\A f \in swi \ swi' :
          fate[f] \in {"committed", "handed"} /\ content[f] # <<>> /\ NoFault' => f \in obs']_vars

\* A log leaves a running server's log_obs only when every plugin has heard it to
\* its end, unless it cannot be read (NextPluginL, NextLogFileL).
DeletedWhenHeard ==
    [][\A f \in obs \ obs' :
          up /\ NoFault' /\ ~Cut(f) => \A p \in 1 .. Plugins :
              told[f][p] # <<>> /\ Last(told[f][p]) = "final"]_vars

\* swiobserverclient.cpp:104: "the server completes the client when the processor
\* becomes idle", for the client that is first in the queue of a busy processor.
FirstWaiterServed ==
    \A c \in Clients :
        proc.progress = "busy" /\ waiters # <<>> /\ Head(waiters) = c ~> cl[c] # "waiting"

\* A log that was handed over is processed, or is lost in the crash that met its
\* processing.
AloneProcessed ==
    [](\A k \in Kinds \ {"crash"} : mishaps[k] = 0) =>
        \A f \in Logs : fate[f] = "handed" /\ f \in swi ~> f \notin swi \cup obs
===============================================================================
