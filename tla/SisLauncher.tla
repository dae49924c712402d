----------------------------- MODULE SisLauncher -----------------------------
(***************************************************************************)
(* The SIS launcher server: the queue of files that an installation wants to   *)
(* have run once ECOM has noticed the installed plug-ins, and the two timers      *)
(* that end the server.                                                       *)
(*                                                                          *)
(* The server is one thread, so each call of a client is a step; the requests      *)
(* that only act on other processes (run, start, shut down, notify) change         *)
(* nothing here.                                                             *)
(***************************************************************************)
EXTENDS Naturals, Sequences, FiniteSets

CONSTANTS
    Clients,   \* installations, and other users of a session
    FileCount  \* the files to run, in the order they are queued

ASSUME LauncherAssumption == FileCount \in Nat

VARIABLES
    alive,    \* the server process
    sessions, \* iSessionCount, as the clients it counts
    timer,    \* the request of CSisLauncherServerShutdown
    long,     \* iLongTimerActive
    queue,    \* iQueue, 0 for an entry whose item was deleted
    ecom,     \* the request of CQueueProcessor, active unless "off"
    pc,       \* where each client is
    plan,     \* the files it still has to queue
    next,     \* the first file that no client has taken
    executed, \* the files of a queue that ExecuteQueue has accepted (history)
    runs      \* how often a file was run, up to 2 (history)

server == <<alive, sessions, timer, long, queue, ecom>>
client == <<pc, plan, next>>
history == <<executed, runs>>
vars == <<server, client, history>>

Files == 1 .. FileCount
Elements(s) == {s[i] : i \in DOMAIN s}

TypeOK ==
    /\ alive \in BOOLEAN
    /\ sessions \subseteq Clients
    /\ timer \in {"none", "short", "long"}
    /\ long \in BOOLEAN
    /\ queue \in Seq(0 .. FileCount) /\ Len(queue) <= FileCount
    /\ ecom \in {"off", "waiting", "changed", "failed"}
    /\ pc \in [Clients -> {"out", "starting", "in", "queueing"}]
    /\ plan \in [Clients -> Seq(Files)]
    /\ next \in 1 .. FileCount + 1
    /\ executed \subseteq Files
    /\ runs \in [Files -> 0 .. 2]

Init ==
    /\ alive = FALSE
    /\ sessions = {}
    /\ timer = "none"
    /\ long = FALSE
    /\ queue = <<>>
    /\ ecom = "off"
    /\ pc = [c \in Clients |-> "out"]
    /\ plan = [c \in Clients |-> <<>>]
    /\ next = 1
    /\ executed = {}
    /\ runs = [f \in Files |-> 0]

-----------------------------------------------------------------------------
(* CSisLauncherServerShutdown, a timer of low priority.                         *)

\* Mutant: the long timer does not keep the short one from being started.
StartShortAlways(cancelLong) == timer' = "short" /\ long' = FALSE

StartShort(cancelLong) ==
    IF long /\ ~cancelLong
    THEN UNCHANGED <<timer, long>>
    ELSE timer' = "short" /\ long' = FALSE

\* Mutant: the flag is not set.
StartLongUnflagged == timer' = "long" /\ UNCHANGED long

StartLong == timer' = "long" /\ long' = TRUE

\* Cancel of the timer; iLongTimerActive keeps its value.
CancelShutdown == timer' = "none" /\ UNCHANGED long

\* The process ends, and with it whatever is queued.
ServerGone ==
    /\ alive' = FALSE
    /\ sessions' = {}
    /\ timer' = "none"
    /\ long' = FALSE
    /\ queue' = <<>>
    /\ ecom' = "off"
    /\ executed' = {f \in executed : runs[f] > 0}

\* RunL: the scheduler is stopped, unless the queue processor can run first.  (The
\* destructor of a session that is still open then uses the timer, which the
\* server has deleted; nothing of it outlives the process.)
TimerExpires ==
    /\ timer # "none"
    /\ ecom \notin {"changed", "failed"}
    /\ ServerGone
    /\ UNCHANGED <<client, runs>>

-----------------------------------------------------------------------------
(* Sessions.                                                                 *)

\* Connect starts the server if there is none; its timer runs at once.
StartServer(c) ==
    /\ ~alive
    /\ pc[c] = "out"
    /\ alive' = TRUE
    /\ StartShort(TRUE)
    /\ pc' = [pc EXCEPT ![c] = "starting"]
    /\ UNCHANGED <<sessions, queue, ecom, plan, next, history>>

AddSession(c) ==
    /\ sessions' = sessions \cup {c}
    /\ CancelShutdown

Connect(c) ==
    /\ alive
    /\ pc[c] \in {"out", "starting"}
    /\ AddSession(c)
    /\ pc' = [pc EXCEPT ![c] = "in"]
    /\ UNCHANGED <<alive, queue, ecom, plan, next, history>>

\* The second attempt of Connect fails if the server is gone again.
ConnectFails(c) ==
    /\ ~alive
    /\ pc[c] = "starting"
    /\ pc' = [pc EXCEPT ![c] = "out"]
    /\ UNCHANGED <<server, plan, next, history>>

\* The session goes away on Close or with its client; StartShort(EFalse).
DropSession(c) ==
    /\ sessions' = sessions \ {c}
    /\ IF sessions = {c} THEN StartShort(FALSE) ELSE UNCHANGED <<timer, long>>

Close(c) ==
    /\ c \in sessions
    /\ DropSession(c)
    /\ pc' = [pc EXCEPT ![c] = "out"]
    /\ plan' = [plan EXCEPT ![c] = <<>>]
    /\ UNCHANGED <<alive, queue, ecom, next, history>>

\* A call gets KErrServerTerminated, and the client leaves.
Terminated(c) ==
    /\ pc[c] \in {"in", "queueing"}
    /\ c \notin sessions
    /\ pc' = [pc EXCEPT ![c] = "out"]
    /\ plan' = [plan EXCEPT ![c] = <<>>]
    /\ UNCHANGED <<server, next, history>>

-----------------------------------------------------------------------------
(* RunAfterEcomNotificationL and the queue.                                     *)

\* It has a list of files, which is not empty.
RunAfterEcomNotification(c) ==
    /\ c \in sessions
    /\ pc[c] = "in"
    /\ \E n \in next .. FileCount :
          /\ plan' = [plan EXCEPT ![c] = [i \in 1 .. n - next + 1 |-> next + i - 1]]
          /\ next' = n + 1
    /\ pc' = [pc EXCEPT ![c] = "queueing"]
    /\ UNCHANGED <<server, history>>

\* AddToQueueL; the session also queues what an earlier client has left there.
AddToQueue(c) ==
    /\ c \in sessions
    /\ plan[c] # <<>>
    /\ queue' = Append(queue, Head(plan[c]))
    /\ plan' = [plan EXCEPT ![c] = Tail(@)]
    /\ UNCHANGED <<alive, sessions, timer, long, ecom, pc, next, history>>

\* A file that is not there, or an error of the call, is passed over.
SkipFile(c) ==
    /\ plan[c] # <<>>
    /\ plan' = [plan EXCEPT ![c] = Tail(@)]
    /\ UNCHANGED <<server, pc, next, history>>

Queued == Elements(queue) \ {0}

\* The timer is a long one from here on, also if ECOM cannot be reached.  (An empty
\* queue, all its files having been passed over, is one that a debug build asserts
\* not to see; a release build waits for ECOM all the same.)
ExecuteQueue(c) ==
    /\ c \in sessions
    /\ pc[c] = "queueing"
    /\ plan[c] = <<>>
    /\ ecom = "off"
    /\ StartLong
    /\ \/ ecom' = "waiting" /\ executed' = executed \cup Queued
       \/ UNCHANGED <<ecom, executed>>
    /\ pc' = [pc EXCEPT ![c] = "in"]
    /\ UNCHANGED <<alive, sessions, queue, plan, next, runs>>

\* SetActive panics while the processor still waits for the queue before.
ExecuteQueuePanics(c) ==
    /\ c \in sessions
    /\ pc[c] = "queueing"
    /\ plan[c] = <<>>
    /\ ecom # "off"
    /\ ServerGone
    /\ UNCHANGED <<client, runs>>

\* The ECOM server has scanned the drives again, or the request failed.
EcomNotifies ==
    /\ ecom = "waiting"
    /\ ecom' \in {"changed", "failed"}
    /\ UNCHANGED <<alive, sessions, timer, long, queue, client, history>>

Ran(files) == runs' = [f \in Files |-> IF f \in files /\ runs[f] < 2
                                       THEN runs[f] + 1 ELSE runs[f]]

\* Mutant: the entries of the queue are not set to 0.
DoExecuteQueueKeeps ==
    /\ Ran(Queued)
    /\ UNCHANGED queue
    /\ IF sessions = {} THEN StartShort(TRUE) ELSE CancelShutdown

\* Mutant: the loop ends with the first item.
DoExecuteFirst ==
    /\ Ran(IF Queued = {} THEN {} ELSE {CHOOSE f \in Queued : \A g \in Queued : f <= g})
    /\ queue' = [i \in DOMAIN queue |->
                  IF queue[i] # 0 /\ runs'[queue[i]] > 0 THEN 0 ELSE queue[i]]
    /\ IF sessions = {} THEN StartShort(TRUE) ELSE CancelShutdown

\* Each item is run and deleted, whatever comes of it, and the entries stay.
\* CancelShutdown comes before, ShortServerShutdown after.
DoExecuteQueue ==
    /\ Ran(Queued)
    /\ queue' = [i \in DOMAIN queue |-> 0]
    /\ IF sessions = {} THEN StartShort(TRUE) ELSE CancelShutdown

\* RunL
RunQueue ==
    /\ ecom = "changed"
    /\ ecom' = "off"
    /\ DoExecuteQueue
    /\ UNCHANGED <<alive, sessions, client, executed>>

RunFailed ==
    /\ ecom = "failed"
    /\ ecom' = "off"
    /\ UNCHANGED <<alive, sessions, timer, long, queue, client, history>>

-----------------------------------------------------------------------------

Call(c) ==
    \/ StartServer(c) \/ Connect(c) \/ ConnectFails(c) \/ Close(c) \/ Terminated(c)
    \/ RunAfterEcomNotification(c) \/ AddToQueue(c) \/ SkipFile(c)
    \/ ExecuteQueue(c) \/ ExecuteQueuePanics(c)

Next ==
    \/ \E c \in Clients : Call(c)
    \/ EcomNotifies \/ RunQueue \/ RunFailed \/ TimerExpires

\* The kernel completes the timer and the server thread runs.  Nothing is assumed of
\* the clients, nor of ECOM, which may have nothing to notice.
Fairness == WF_vars(TimerExpires) /\ WF_vars(RunQueue) /\ WF_vars(RunFailed)

Spec == Init /\ [][Next]_vars /\ Fairness

-----------------------------------------------------------------------------
(* What the component promises.                                                *)

\* The short timer runs only while nobody is connected and no queue waits for ECOM:
\* iLongTimerActive keeps the clients that come and go from ending the server
\* before it has run what an installation left there.
ShortTimerHarmless == timer = "short" => sessions = {} /\ ecom = "off"

\* A file is run once, although the queue keeps its entries and is executed again,
\* and only if it is taken out of the queue.
RunOnce ==
    \A f \in Files : runs[f] <= 1 /\ (runs[f] = 1 => f \notin Queued)

\* Files are run after ECOM has noticed a change, never on an error or on a timer.
RunAfterEcom == [][runs' # runs => ecom = "changed"]_vars

\* A second installation is about to execute the queue while the processor waits.
Restarting == \E c \in Clients : pc[c] = "queueing" /\ plan[c] = <<>> /\ ecom # "off"

\* A file that ExecuteQueue has taken is run, or still waits in the queue: it is
\* dropped only if the long timer expires or the processor is started twice.
ExecutedIsKept ==
    [][\A f \in executed \ executed' : timer = "long" \/ Restarting]_vars

\* Once ECOM has noticed a change the whole queue is run, unless another client
\* starts the processor again before it gets there.
ExecutedIsRun ==
    \A f \in Files : ecom = "changed" /\ f \in Queued ~> runs[f] > 0 \/ Restarting

\* A server that nobody uses ends, as long as no long timer was started.
EndsUnlessLong == alive /\ sessions = {} ~> ~alive \/ sessions # {} \/ long

\* sislauncherserver.cpp: a queue that waits for an event that never comes does not
\* keep the server for ever.
EndsWhenUnused == alive /\ sessions = {} ~> ~alive \/ sessions # {}
=============================================================================
