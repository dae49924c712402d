-------------------------- MODULE SisLauncherProofs --------------------------
(***************************************************************************)
(* The safety of SisLauncher, for any number of clients and files.                *)
(***************************************************************************)
EXTENDS SisLauncher, FiniteSetTheorems, SequenceTheorems, TLAPS

\* The types, without the bound on the length of the queue.
Typed ==
    /\ alive \in BOOLEAN
    /\ sessions \subseteq Clients
    /\ timer \in {"none", "short", "long"}
    /\ long \in BOOLEAN
    /\ queue \in Seq(0 .. FileCount)
    /\ ecom \in {"off", "waiting", "changed", "failed"}
    /\ pc \in [Clients -> {"out", "starting", "in", "queueing"}]
    /\ plan \in [Clients -> Seq(Files)]
    /\ next \in 1 .. FileCount + 1
    /\ executed \subseteq Files
    /\ runs \in [Files -> 0 .. 2]

\* A process that has ended holds nothing.
DeadIsEmpty ==
    ~alive => /\ sessions = {}
              /\ timer = "none"
              /\ ~long
              /\ queue = <<>>
              /\ ecom = "off"

\* iLongTimerActive is set while the processor waits, and never beside the short timer.
TimersOK ==
    /\ timer = "short" => sessions = {} /\ ecom = "off" /\ ~long
    /\ ecom # "off" => long

\* A file is run once at most, and not before a client has taken it.
RunsOK == \A f \in Files : runs[f] <= 1 /\ (f >= next => runs[f] = 0)

\* What a client still has to queue is its own and has not been run.
PlansApart ==
    /\ \A c \in Clients : \A i \in DOMAIN plan[c] :
         plan[c][i] < next /\ runs[plan[c][i]] = 0
    /\ \A c, d \in Clients : \A i \in DOMAIN plan[c], j \in DOMAIN plan[d] :
         plan[c][i] = plan[d][j] => c = d /\ i = j

\* g is the file that each entry of the queue was made for.
Origin(g) ==
    /\ \A i, j \in DOMAIN queue : g[i] = g[j] => i = j
    /\ \A i \in DOMAIN queue :
         /\ g[i] < next
         /\ queue[i] \in {0, g[i]}
         /\ queue[i] # 0 => runs[queue[i]] = 0
         /\ \A c \in Clients : \A j \in DOMAIN plan[c] : plan[c][j] # g[i]

QueueOK == \E g \in [DOMAIN queue -> Files] : Origin(g)

\* A file that was executed and has not been run is in the queue, under the long timer.
ExecutedOK == \A f \in executed : runs[f] = 0 => long /\ f \in Queued

IInv == /\ Typed /\ DeadIsEmpty /\ TimersOK /\ RunsOK
        /\ PlansApart /\ QueueOK /\ ExecutedOK

-----------------------------------------------------------------------------
(* Sequences.                                                                *)

\* Taking the first file off a plan.
LEMMA TailFacts ==
  ASSUME NEW S, NEW s \in Seq(S), s # <<>>
  PROVE  /\ Head(s) \in S /\ Head(s) = s[1] /\ 1 \in DOMAIN s
         /\ Tail(s) \in Seq(S)
         /\ \A i \in DOMAIN Tail(s) :
              i \in Nat \ {0} /\ i + 1 \in DOMAIN s /\ Tail(s)[i] = s[i + 1]
BY HeadTailProperties, LenProperties

\* Putting it at the end of the queue.
LEMMA AppendFacts ==
  ASSUME NEW S, NEW s \in Seq(S), NEW e \in S
  PROVE  /\ Append(s, e) \in Seq(S)
         /\ Len(s) + 1 \in DOMAIN Append(s, e)
         /\ Append(s, e)[Len(s) + 1] = e
         /\ \A i \in DOMAIN Append(s, e) : i \in DOMAIN s \/ i = Len(s) + 1
         /\ \A i \in DOMAIN s :
              i \in DOMAIN Append(s, e) /\ Append(s, e)[i] = s[i] /\ i # Len(s) + 1
BY AppendProperties, LenProperties

\* The queue with all its entries deleted.
LEMMA ZeroQueue ==
  ASSUME NEW q \in Seq(0 .. FileCount)
  PROVE  [i \in DOMAIN q |-> 0] \in Seq(0 .. FileCount)
<1>1. Len(q) \in Nat /\ DOMAIN q = 1 .. Len(q)
  BY LenProperties
<1>2. 0 \in 0 .. FileCount
  BY LauncherAssumption
<1>3. QED
  BY <1>1, <1>2

\* The files of a list.
LEMMA ListFacts ==
  ASSUME NEW m \in 1 .. FileCount + 1, NEW n \in m .. FileCount
  PROVE  /\ [i \in 1 .. n - m + 1 |-> m + i - 1] \in Seq(Files)
         /\ n + 1 \in 1 .. FileCount + 1
<1>1. \A i \in 1 .. n - m + 1 : m + i - 1 \in Files
  BY LauncherAssumption DEF Files
<1>2. n - m + 1 \in Nat
  BY LauncherAssumption
<1>3. QED
  BY <1>1, <1>2, LauncherAssumption

\* The empty queue and the empty plan.
LEMMA EmptyFacts ==
  /\ <<>> \in Seq(0 .. FileCount) /\ <<>> \in Seq(Files)
  /\ DOMAIN <<>> = {}
BY EmptySeq

\* There is a function from the entries of an empty queue.
LEMMA NoEntries ==
  ASSUME NEW q, DOMAIN q = {} PROVE \E g \in [DOMAIN q -> Files] : TRUE
<1> DEFINE g == [i \in {} |-> 1]
<1>1. g \in [{} -> Files]
  OBVIOUS
<1>2. QED
  BY <1>1

\* Files cannot be told apart by more entries than there are files.
LEMMA InjectionBound ==
  ASSUME NEW n \in Nat, NEW g \in [1 .. n -> Files],
         \A i, j \in 1 .. n : g[i] = g[j] => i = j
  PROVE  n <= FileCount
<1>1. /\ IsFiniteSet(1 .. n) /\ Cardinality(1 .. n) = n
      /\ IsFiniteSet(Files) /\ Cardinality(Files) = FileCount
  BY FS_Interval, LauncherAssumption DEF Files
<1>2. SUFFICES ASSUME FileCount < n PROVE FALSE
  BY LauncherAssumption
<1>3. \E i, j \in 1 .. n : i # j /\ g[i] = g[j]
  BY <1>1, <1>2, FS_PigeonHole
<1>4. QED
  BY <1>3

-----------------------------------------------------------------------------
(* Each part of the invariant is preserved by every step, given the others.       *)

\* The types.
LEMMA TypedStep ==
  IInv /\ [Next]_vars => Typed'
<1> SUFFICES ASSUME Typed, [Next]_vars PROVE Typed'
  BY DEF IInv
<1>0. /\ <<>> \in Seq(0 .. FileCount) /\ <<>> \in Seq(Files)
  BY EmptyFacts
<1> USE LauncherAssumption
    DEF Typed, StartShort, StartLong, CancelShutdown, ServerGone,
        AddSession, DropSession,
        DoExecuteQueue, Ran, server, client, history, vars
<1>1. ASSUME NEW c \in Clients, StartServer(c) PROVE Typed'
  BY <1>1 DEF StartServer
<1>2. ASSUME NEW c \in Clients, Connect(c) PROVE Typed'
  BY <1>2 DEF Connect
<1>3. ASSUME NEW c \in Clients, ConnectFails(c) PROVE Typed'
  BY <1>3 DEF ConnectFails
<1>4. ASSUME NEW c \in Clients, Close(c) PROVE Typed'
  BY <1>0, <1>4 DEF Close
<1>5. ASSUME NEW c \in Clients, Terminated(c) PROVE Typed'
  BY <1>0, <1>5 DEF Terminated
<1>6. ASSUME NEW c \in Clients, RunAfterEcomNotification(c) PROVE Typed'
  <2>1. PICK n \in next .. FileCount :
          /\ plan' = [plan EXCEPT ![c] = [i \in 1 .. n - next + 1 |-> next + i - 1]]
          /\ next' = n + 1
    BY <1>6 DEF RunAfterEcomNotification
  <2>2. plan' \in [Clients -> Seq(Files)] /\ next' \in 1 .. FileCount + 1
    BY <2>1, ListFacts
  <2>3. QED
    BY <1>6, <2>2 DEF RunAfterEcomNotification
<1>7. ASSUME NEW c \in Clients, AddToQueue(c) PROVE Typed'
  <2>1. plan[c] \in Seq(Files) /\ plan[c] # <<>>
    BY <1>7 DEF AddToQueue
  <2>2. Head(plan[c]) \in Files /\ Tail(plan[c]) \in Seq(Files)
    BY <2>1, TailFacts
  <2>3. queue' \in Seq(0 .. FileCount)
    BY <1>7, <2>2, AppendFacts DEF AddToQueue, Files
  <2>4. QED
    BY <1>7, <2>2, <2>3 DEF AddToQueue
<1>8. ASSUME NEW c \in Clients, SkipFile(c) PROVE Typed'
  <2>1. plan[c] \in Seq(Files) /\ plan[c] # <<>>
    BY <1>8 DEF SkipFile
  <2>2. Tail(plan[c]) \in Seq(Files)
    BY <2>1, TailFacts
  <2>3. QED
    BY <1>8, <2>2 DEF SkipFile
<1>9. ASSUME NEW c \in Clients, ExecuteQueue(c) PROVE Typed'
  <2>1. Queued \subseteq Files
    BY DEF Queued, Elements, Files
  <2>2. QED
    BY <1>9, <2>1 DEF ExecuteQueue
<1>10. ASSUME NEW c \in Clients, ExecuteQueuePanics(c) PROVE Typed'
  BY <1>0, <1>10 DEF ExecuteQueuePanics
<1>11. ASSUME EcomNotifies PROVE Typed'
  BY <1>11 DEF EcomNotifies
<1>12. ASSUME RunQueue PROVE Typed'
  <2>1. queue' \in Seq(0 .. FileCount)
    BY <1>12, ZeroQueue DEF RunQueue
  <2>2. runs' \in [Files -> 0 .. 2]
    BY <1>12 DEF RunQueue
  <2>3. QED
    BY <1>12, <2>1, <2>2 DEF RunQueue
<1>13. ASSUME RunFailed PROVE Typed'
  BY <1>13 DEF RunFailed
<1>14. ASSUME TimerExpires PROVE Typed'
  BY <1>0, <1>14 DEF TimerExpires
<1>15. CASE UNCHANGED vars
  BY <1>15
<1>16. QED
  BY <1>1, <1>2, <1>3, <1>4, <1>5, <1>6, <1>7, <1>8, <1>9, <1>10,
     <1>11, <1>12, <1>13, <1>14, <1>15 DEF Next, Call

\* What a dead process holds.
LEMMA DeadStep ==
  IInv /\ [Next]_vars => DeadIsEmpty'
<1> SUFFICES ASSUME Typed, DeadIsEmpty, TimersOK, [Next]_vars PROVE DeadIsEmpty'
  BY DEF IInv
<1> USE LauncherAssumption
    DEF Typed, DeadIsEmpty, TimersOK, StartShort, StartLong, CancelShutdown, ServerGone,
        AddSession, DropSession,
        DoExecuteQueue, Ran, server, client, history, vars
<1>1. ASSUME NEW c \in Clients, StartServer(c) PROVE DeadIsEmpty'
  BY <1>1 DEF StartServer
<1>2. ASSUME NEW c \in Clients, Connect(c) PROVE DeadIsEmpty'
  BY <1>2 DEF Connect
<1>3. ASSUME NEW c \in Clients, ConnectFails(c) PROVE DeadIsEmpty'
  BY <1>3 DEF ConnectFails
<1>4. ASSUME NEW c \in Clients, Close(c) PROVE DeadIsEmpty'
  BY <1>4 DEF Close
<1>5. ASSUME NEW c \in Clients, Terminated(c) PROVE DeadIsEmpty'
  BY <1>5 DEF Terminated
<1>6. ASSUME NEW c \in Clients, RunAfterEcomNotification(c) PROVE DeadIsEmpty'
  BY <1>6 DEF RunAfterEcomNotification
<1>7. ASSUME NEW c \in Clients, AddToQueue(c) PROVE DeadIsEmpty'
  BY <1>7 DEF AddToQueue
<1>8. ASSUME NEW c \in Clients, SkipFile(c) PROVE DeadIsEmpty'
  BY <1>8 DEF SkipFile
<1>9. ASSUME NEW c \in Clients, ExecuteQueue(c) PROVE DeadIsEmpty'
  BY <1>9 DEF ExecuteQueue
<1>10. ASSUME NEW c \in Clients, ExecuteQueuePanics(c) PROVE DeadIsEmpty'
  BY <1>10 DEF ExecuteQueuePanics
<1>11. ASSUME EcomNotifies PROVE DeadIsEmpty'
  BY <1>11 DEF EcomNotifies
<1>12. ASSUME RunQueue PROVE DeadIsEmpty'
  BY <1>12 DEF RunQueue
<1>13. ASSUME RunFailed PROVE DeadIsEmpty'
  BY <1>13 DEF RunFailed
<1>14. ASSUME TimerExpires PROVE DeadIsEmpty'
  BY <1>14 DEF TimerExpires
<1>15. CASE UNCHANGED vars
  BY <1>15
<1>16. QED
  BY <1>1, <1>2, <1>3, <1>4, <1>5, <1>6, <1>7, <1>8, <1>9, <1>10,
     <1>11, <1>12, <1>13, <1>14, <1>15 DEF Next, Call

\* The timers.
LEMMA TimersStep ==
  IInv /\ [Next]_vars => TimersOK'
<1> SUFFICES ASSUME Typed, DeadIsEmpty, TimersOK, [Next]_vars PROVE TimersOK'
  BY DEF IInv
<1> USE LauncherAssumption
    DEF Typed, DeadIsEmpty, TimersOK, StartShort, StartLong, CancelShutdown, ServerGone,
        AddSession, DropSession,
        DoExecuteQueue, Ran, server, client, history, vars
<1>1. ASSUME NEW c \in Clients, StartServer(c) PROVE TimersOK'
  BY <1>1 DEF StartServer
<1>2. ASSUME NEW c \in Clients, Connect(c) PROVE TimersOK'
  BY <1>2 DEF Connect
<1>3. ASSUME NEW c \in Clients, ConnectFails(c) PROVE TimersOK'
  BY <1>3 DEF ConnectFails
<1>4. ASSUME NEW c \in Clients, Close(c) PROVE TimersOK'
  BY <1>4 DEF Close
<1>5. ASSUME NEW c \in Clients, Terminated(c) PROVE TimersOK'
  BY <1>5 DEF Terminated
<1>6. ASSUME NEW c \in Clients, RunAfterEcomNotification(c) PROVE TimersOK'
  BY <1>6 DEF RunAfterEcomNotification
<1>7. ASSUME NEW c \in Clients, AddToQueue(c) PROVE TimersOK'
  BY <1>7 DEF AddToQueue
<1>8. ASSUME NEW c \in Clients, SkipFile(c) PROVE TimersOK'
  BY <1>8 DEF SkipFile
<1>9. ASSUME NEW c \in Clients, ExecuteQueue(c) PROVE TimersOK'
  BY <1>9 DEF ExecuteQueue
<1>10. ASSUME NEW c \in Clients, ExecuteQueuePanics(c) PROVE TimersOK'
  BY <1>10 DEF ExecuteQueuePanics
<1>11. ASSUME EcomNotifies PROVE TimersOK'
  BY <1>11 DEF EcomNotifies
<1>12. ASSUME RunQueue PROVE TimersOK'
  BY <1>12 DEF RunQueue
<1>13. ASSUME RunFailed PROVE TimersOK'
  BY <1>13 DEF RunFailed
<1>14. ASSUME TimerExpires PROVE TimersOK'
  BY <1>14 DEF TimerExpires
<1>15. CASE UNCHANGED vars
  BY <1>15
<1>16. QED
  BY <1>1, <1>2, <1>3, <1>4, <1>5, <1>6, <1>7, <1>8, <1>9, <1>10,
     <1>11, <1>12, <1>13, <1>14, <1>15 DEF Next, Call

\* A file in the queue has been taken, and not run.
LEMMA QueuedUnrun ==
  ASSUME Typed, QueueOK
  PROVE  \A f \in Queued : f \in Files /\ runs[f] = 0 /\ f < next
<1>1. PICK g \in [DOMAIN queue -> Files] : Origin(g)
  BY DEF QueueOK
<1>2. QED
  BY <1>1, LauncherAssumption DEF Origin, Typed, Queued, Elements, Files

\* How often files are run.
LEMMA RunsStep ==
  IInv /\ [Next]_vars => RunsOK'
<1> SUFFICES ASSUME Typed, QueueOK, RunsOK, [Next]_vars PROVE RunsOK'
  BY DEF IInv
<1> USE LauncherAssumption
    DEF Typed, RunsOK, Files, StartShort, StartLong, CancelShutdown, ServerGone,
        AddSession, DropSession,
        DoExecuteQueue, Ran, server, client, history, vars
<1>1. ASSUME NEW c \in Clients, StartServer(c) PROVE RunsOK'
  BY <1>1 DEF StartServer
<1>2. ASSUME NEW c \in Clients, Connect(c) PROVE RunsOK'
  BY <1>2 DEF Connect
<1>3. ASSUME NEW c \in Clients, ConnectFails(c) PROVE RunsOK'
  BY <1>3 DEF ConnectFails
<1>4. ASSUME NEW c \in Clients, Close(c) PROVE RunsOK'
  BY <1>4 DEF Close
<1>5. ASSUME NEW c \in Clients, Terminated(c) PROVE RunsOK'
  BY <1>5 DEF Terminated
<1>6. ASSUME NEW c \in Clients, RunAfterEcomNotification(c) PROVE RunsOK'
  BY <1>6 DEF RunAfterEcomNotification
<1>7. ASSUME NEW c \in Clients, AddToQueue(c) PROVE RunsOK'
  BY <1>7 DEF AddToQueue
<1>8. ASSUME NEW c \in Clients, SkipFile(c) PROVE RunsOK'
  BY <1>8 DEF SkipFile
<1>9. ASSUME NEW c \in Clients, ExecuteQueue(c) PROVE RunsOK'
  BY <1>9 DEF ExecuteQueue
<1>10. ASSUME NEW c \in Clients, ExecuteQueuePanics(c) PROVE RunsOK'
  BY <1>10 DEF ExecuteQueuePanics
<1>11. ASSUME EcomNotifies PROVE RunsOK'
  BY <1>11 DEF EcomNotifies
<1>12. ASSUME RunQueue PROVE RunsOK'
  <2>1. \A f \in Queued : f \in Files /\ runs[f] = 0 /\ f < next
    BY QueuedUnrun
  <2>2. QED
    BY <1>12, <2>1 DEF RunQueue
<1>13. ASSUME RunFailed PROVE RunsOK'
  BY <1>13 DEF RunFailed
<1>14. ASSUME TimerExpires PROVE RunsOK'
  BY <1>14 DEF TimerExpires
<1>15. CASE UNCHANGED vars
  BY <1>15
<1>16. QED
  BY <1>1, <1>2, <1>3, <1>4, <1>5, <1>6, <1>7, <1>8, <1>9, <1>10,
     <1>11, <1>12, <1>13, <1>14, <1>15 DEF Next, Call

\* A client that takes the first file off its plan.
LEMMA TailStep ==
  ASSUME Typed, PlansApart, NEW c \in Clients, plan[c] # <<>>,
         plan' = [plan EXCEPT ![c] = Tail(@)], next' = next, runs' = runs
  PROVE  PlansApart'
<1> DEFINE before(d, i) == IF d = c THEN i + 1 ELSE i
<1>1. \A d \in Clients : \A i \in DOMAIN plan'[d] :
        before(d, i) \in DOMAIN plan[d] /\ plan'[d][i] = plan[d][before(d, i)]
  <2>1. plan[c] \in Seq(Files)
    BY DEF Typed
  <2>2. \A i \in DOMAIN Tail(plan[c]) :
          i + 1 \in DOMAIN plan[c] /\ Tail(plan[c])[i] = plan[c][i + 1]
    BY <2>1, TailFacts
  <2>3. plan'[c] = Tail(plan[c]) /\ \A d \in Clients \ {c} : plan'[d] = plan[d]
    BY DEF Typed
  <2>4. QED
    BY <2>2, <2>3
<1>2. \A d \in Clients : \A i \in DOMAIN plan'[d] : i \in Nat
  <2>1. \A d \in Clients : plan'[d] \in Seq(Files)
    BY TailFacts DEF Typed
  <2>2. QED
    BY <2>1, LenProperties
<1>3. \A d \in Clients : \A i \in DOMAIN plan'[d] :
        plan'[d][i] < next' /\ runs'[plan'[d][i]] = 0
  BY <1>1 DEF PlansApart
<1>4. ASSUME NEW a \in Clients, NEW b \in Clients,
             NEW i \in DOMAIN plan'[a], NEW j \in DOMAIN plan'[b], plan'[a][i] = plan'[b][j]
      PROVE  a = b /\ i = j
  <2>1. before(a, i) \in DOMAIN plan[a] /\ before(b, j) \in DOMAIN plan[b]
    BY <1>1
  <2>2. plan[a][before(a, i)] = plan[b][before(b, j)]
    BY <1>1, <1>4
  <2>3. a = b /\ before(a, i) = before(b, j)
    BY <2>1, <2>2 DEF PlansApart
  <2>4. QED
    BY <1>2, <2>3
<1>5. QED
  BY <1>3, <1>4 DEF PlansApart

\* What clients still have to queue.
LEMMA PlansStep ==
  IInv /\ [Next]_vars => PlansApart'
<1> SUFFICES ASSUME Typed, RunsOK, QueueOK, PlansApart, [Next]_vars PROVE PlansApart'
  BY DEF IInv
<1> USE LauncherAssumption
    DEF Typed, RunsOK, PlansApart, Files, StartShort, StartLong, CancelShutdown, ServerGone,
        AddSession, DropSession,
        DoExecuteQueue, Ran, server, client, history, vars
<1>1. ASSUME NEW c \in Clients, StartServer(c) PROVE PlansApart'
  BY <1>1 DEF StartServer
<1>2. ASSUME NEW c \in Clients, Connect(c) PROVE PlansApart'
  BY <1>2 DEF Connect
<1>3. ASSUME NEW c \in Clients, ConnectFails(c) PROVE PlansApart'
  BY <1>3 DEF ConnectFails
<1>4. ASSUME NEW c \in Clients, Close(c) PROVE PlansApart'
  BY <1>4 DEF Close
<1>5. ASSUME NEW c \in Clients, Terminated(c) PROVE PlansApart'
  BY <1>5 DEF Terminated
<1>6. ASSUME NEW c \in Clients, RunAfterEcomNotification(c) PROVE PlansApart'
  <2>1. PICK n \in next .. FileCount :
          /\ plan' = [plan EXCEPT ![c] = [i \in 1 .. n - next + 1 |-> next + i - 1]]
          /\ next' = n + 1
    BY <1>6 DEF RunAfterEcomNotification
  <2>2. \A i \in DOMAIN plan'[c] :
          plan'[c][i] = next + i - 1 /\ i \in 1 .. n - next + 1
    BY <2>1
  <2>3. \A d \in Clients \ {c} : plan'[d] = plan[d]
    BY <2>1
  <2>4. runs' = runs /\ next < next' /\ next \in Nat /\ next \in Files /\ n \in Files
    BY <1>6, <2>1 DEF RunAfterEcomNotification
  <2>5. ASSUME NEW d \in Clients, NEW i \in DOMAIN plan'[d]
        PROVE  plan'[d][i] < next' /\ runs'[plan'[d][i]] = 0
    <3>1. CASE d = c
      BY <2>1, <2>2, <2>4, <3>1
    <3>2. CASE d # c
      <4>1. plan'[d] = plan[d] /\ plan[d][i] < next /\ runs[plan[d][i]] = 0
        BY <2>3, <3>2
      <4>2. plan[d][i] \in Files
        BY <2>3, <3>2
      <4>3. QED
        BY <2>1, <2>4, <4>1, <4>2
    <3>3. QED
      BY <3>1, <3>2
  <2>6. ASSUME NEW d \in Clients, NEW e \in Clients,
               NEW i \in DOMAIN plan'[d], NEW j \in DOMAIN plan'[e], plan'[d][i] = plan'[e][j]
        PROVE  d = e /\ i = j
    <3>1. \A x \in Clients \ {c} : \A k \in DOMAIN plan'[x] :
            plan'[x][k] < next /\ plan'[x][k] \in Int
      BY <2>3
    <3>2. \A k \in DOMAIN plan'[c] : plan'[c][k] >= next /\ plan'[c][k] \in Int
      BY <2>2, <2>4
    <3>3. CASE d = c /\ e = c
      BY <2>2, <2>4, <2>6, <3>3
    <3>4. CASE d # c /\ e # c
      BY <2>3, <2>6, <3>4
    <3>5. CASE (d = c) # (e = c)
      BY <2>4, <2>6, <3>1, <3>2, <3>5
    <3>6. QED
      BY <3>3, <3>4, <3>5
  <2>7. QED
    BY <2>5, <2>6
<1>7. ASSUME NEW c \in Clients, AddToQueue(c) PROVE PlansApart'
  <2>1. /\ plan[c] # <<>> /\ plan' = [plan EXCEPT ![c] = Tail(@)]
        /\ next' = next /\ runs' = runs
    BY <1>7 DEF AddToQueue
  <2> HIDE DEF PlansApart, Typed
  <2>2. QED
    BY <2>1, TailStep
<1>8. ASSUME NEW c \in Clients, SkipFile(c) PROVE PlansApart'
  <2>1. /\ plan[c] # <<>> /\ plan' = [plan EXCEPT ![c] = Tail(@)]
        /\ next' = next /\ runs' = runs
    BY <1>8 DEF SkipFile
  <2> HIDE DEF PlansApart, Typed
  <2>2. QED
    BY <2>1, TailStep
<1>9. ASSUME NEW c \in Clients, ExecuteQueue(c) PROVE PlansApart'
  BY <1>9 DEF ExecuteQueue
<1>10. ASSUME NEW c \in Clients, ExecuteQueuePanics(c) PROVE PlansApart'
  BY <1>10 DEF ExecuteQueuePanics
<1>11. ASSUME EcomNotifies PROVE PlansApart'
  BY <1>11 DEF EcomNotifies
<1>12. ASSUME RunQueue PROVE PlansApart'
  <2>1. \A d \in Clients : \A i \in DOMAIN plan[d] : plan[d][i] \in Files
    OBVIOUS
  <2>2. PICK g \in [DOMAIN queue -> Files] : Origin(g)
    BY DEF QueueOK
  <2>3. \A d \in Clients : \A i \in DOMAIN plan[d] : plan[d][i] \notin Queued
    BY <2>1, <2>2 DEF Origin, Queued, Elements
  <2>4. QED
    BY <1>12, <2>1, <2>3 DEF RunQueue
<1>13. ASSUME RunFailed PROVE PlansApart'
  BY <1>13 DEF RunFailed
<1>14. ASSUME TimerExpires PROVE PlansApart'
  BY <1>14 DEF TimerExpires
<1>15. CASE UNCHANGED vars
  BY <1>15
<1>16. QED
  BY <1>1, <1>2, <1>3, <1>4, <1>5, <1>6, <1>7, <1>8, <1>9, <1>10,
     <1>11, <1>12, <1>13, <1>14, <1>15 DEF Next, Call

\* The entries of the queue.
LEMMA QueueStep ==
  IInv /\ [Next]_vars => QueueOK'
<1> SUFFICES ASSUME Typed, RunsOK, PlansApart, QueueOK, [Next]_vars PROVE QueueOK'
  BY DEF IInv
<1> USE LauncherAssumption
    DEF Typed, QueueOK, Files, StartShort, StartLong, CancelShutdown, ServerGone,
        AddSession, DropSession,
        DoExecuteQueue, Ran, server, client, history, vars
<1>1. ASSUME NEW c \in Clients, StartServer(c) PROVE QueueOK'
  <2>1. PICK g \in [DOMAIN queue -> Files] : Origin(g)
    BY DEF QueueOK
  <2>2. Origin(g)'
    BY <1>1, <2>1 DEF Origin, StartServer
  <2>3. QED
    BY <1>1, <2>1, <2>2 DEF StartServer
<1>2. ASSUME NEW c \in Clients, Connect(c) PROVE QueueOK'
  <2>1. PICK g \in [DOMAIN queue -> Files] : Origin(g)
    BY DEF QueueOK
  <2>2. Origin(g)'
    BY <1>2, <2>1 DEF Origin, Connect
  <2>3. QED
    BY <1>2, <2>1, <2>2 DEF Connect
<1>3. ASSUME NEW c \in Clients, ConnectFails(c) PROVE QueueOK'
  <2>1. PICK g \in [DOMAIN queue -> Files] : Origin(g)
    BY DEF QueueOK
  <2>2. Origin(g)'
    BY <1>3, <2>1 DEF Origin, ConnectFails
  <2>3. QED
    BY <1>3, <2>1, <2>2 DEF ConnectFails
<1>4. ASSUME NEW c \in Clients, Close(c) PROVE QueueOK'
  <2>1. PICK g \in [DOMAIN queue -> Files] : Origin(g)
    BY DEF QueueOK
  <2>2. Origin(g)'
    BY <1>4, <2>1 DEF Origin, Close
  <2>3. QED
    BY <1>4, <2>1, <2>2 DEF Close
<1>5. ASSUME NEW c \in Clients, Terminated(c) PROVE QueueOK'
  <2>1. PICK g \in [DOMAIN queue -> Files] : Origin(g)
    BY DEF QueueOK
  <2>2. Origin(g)'
    BY <1>5, <2>1 DEF Origin, Terminated
  <2>3. QED
    BY <1>5, <2>1, <2>2 DEF Terminated
<1>6. ASSUME NEW c \in Clients, RunAfterEcomNotification(c) PROVE QueueOK'
  <2>1. PICK g \in [DOMAIN queue -> Files] : Origin(g)
    BY DEF QueueOK
  <2>2. PICK n \in next .. FileCount :
          /\ plan' = [plan EXCEPT ![c] = [i \in 1 .. n - next + 1 |-> next + i - 1]]
          /\ next' = n + 1
    BY <1>6 DEF RunAfterEcomNotification
  <2>3. \A i \in DOMAIN plan'[c] : plan'[c][i] >= next
    BY <2>2
  <2>4. \A d \in Clients \ {c} : plan'[d] = plan[d]
    BY <2>2
  <2>5. Origin(g)'
    BY <1>6, <2>1, <2>2, <2>3, <2>4 DEF Origin, RunAfterEcomNotification
  <2>6. QED
    BY <1>6, <2>5 DEF RunAfterEcomNotification
<1>7. ASSUME NEW c \in Clients, AddToQueue(c) PROVE QueueOK'
  <2>1. PICK g \in [DOMAIN queue -> Files] : Origin(g)
    BY DEF QueueOK
  <2>2. plan[c] \in Seq(Files) /\ plan[c] # <<>>
    BY <1>7 DEF AddToQueue
  <2>3. /\ Head(plan[c]) = plan[c][1] /\ 1 \in DOMAIN plan[c] /\ Head(plan[c]) \in Files
        /\ \A i \in DOMAIN Tail(plan[c]) :
              i \in Nat \ {0} /\ i + 1 \in DOMAIN plan[c] /\ Tail(plan[c])[i] = plan[c][i + 1]
    BY <2>2, TailFacts
  <2> DEFINE f == Head(plan[c])
             k == Len(queue) + 1
  <2>4. queue' = Append(queue, f) /\ f \in 0 .. FileCount
    BY <1>7, <2>3 DEF AddToQueue
  <2>5. /\ k \in DOMAIN queue' /\ queue'[k] = f
        /\ \A i \in DOMAIN queue' : i \in DOMAIN queue \/ i = k
        /\ \A i \in DOMAIN queue : i \in DOMAIN queue' /\ queue'[i] = queue[i] /\ i # k
    BY <2>4, AppendFacts
  <2>6. PICK h \in [DOMAIN queue' -> Files] :
          h[k] = f /\ \A i \in DOMAIN queue : h[i] = g[i]
    <3> DEFINE e == [i \in DOMAIN queue' |-> IF i = k THEN f ELSE g[i]]
    <3>1. e \in [DOMAIN queue' -> Files]
      BY <2>1, <2>3, <2>5
    <3>2. e[k] = f /\ \A i \in DOMAIN queue : e[i] = g[i]
      BY <2>5
    <3>3. QED
      BY <3>1, <3>2
  <2>7. f < next /\ runs[f] = 0 /\ \A i \in DOMAIN queue : g[i] # f
    BY <2>1, <2>3 DEF Origin, PlansApart
  <2>8. \A d \in Clients : \A j \in DOMAIN plan'[d] :
          plan'[d][j] # f /\ \E i \in DOMAIN plan[d] : plan'[d][j] = plan[d][i]
    BY <1>7, <2>2, <2>3 DEF AddToQueue, PlansApart
  <2>9. next' = next /\ runs' = runs
    BY <1>7 DEF AddToQueue
  <2> HIDE DEF f, k
  <2>10. ASSUME NEW i \in DOMAIN queue', NEW j \in DOMAIN queue', h[i] = h[j]
         PROVE  i = j
    <3>1. CASE i = k /\ j = k
      BY <3>1
    <3>2. CASE i \in DOMAIN queue /\ j \in DOMAIN queue
      BY <2>1, <2>6, <2>10, <3>2 DEF Origin
    <3>3. CASE i \in DOMAIN queue /\ j = k
      BY <2>6, <2>7, <2>10, <3>3
    <3>4. CASE i = k /\ j \in DOMAIN queue
      BY <2>6, <2>7, <2>10, <3>4
    <3>5. QED
      BY <2>5, <3>1, <3>2, <3>3, <3>4
  <2>11. ASSUME NEW i \in DOMAIN queue'
         PROVE  /\ h[i] < next' /\ queue'[i] \in {0, h[i]}
                /\ queue'[i] # 0 => runs'[queue'[i]] = 0
                /\ \A d \in Clients : \A j \in DOMAIN plan'[d] : plan'[d][j] # h[i]
    <3>1. CASE i = k
      BY <2>5, <2>6, <2>7, <2>8, <2>9, <3>1
    <3>2. CASE i \in DOMAIN queue
      <4>1. /\ g[i] < next /\ queue[i] \in {0, g[i]} /\ (queue[i] # 0 => runs[queue[i]] = 0)
            /\ \A d \in Clients : \A j \in DOMAIN plan[d] : plan[d][j] # g[i]
        BY <2>1, <3>2 DEF Origin
      <4>2. h[i] = g[i] /\ queue'[i] = queue[i]
        BY <2>5, <2>6, <3>2
      <4>3. QED
        BY <2>8, <2>9, <4>1, <4>2
    <3>3. QED
      BY <2>5, <3>1, <3>2
  <2>12. Origin(h)'
    BY <2>10, <2>11 DEF Origin
  <2>13. QED
    BY <2>12
<1>8. ASSUME NEW c \in Clients, SkipFile(c) PROVE QueueOK'
  <2>1. PICK g \in [DOMAIN queue -> Files] : Origin(g)
    BY DEF QueueOK
  <2>2. plan[c] \in Seq(Files) /\ plan[c] # <<>>
    BY <1>8 DEF SkipFile
  <2>3. \A i \in DOMAIN Tail(plan[c]) :
          i + 1 \in DOMAIN plan[c] /\ Tail(plan[c])[i] = plan[c][i + 1]
    BY <2>2, TailFacts
  <2>4. Origin(g)'
    BY <1>8, <2>1, <2>3 DEF Origin, SkipFile
  <2>5. QED
    BY <1>8, <2>4 DEF SkipFile
<1>9. ASSUME NEW c \in Clients, ExecuteQueue(c) PROVE QueueOK'
  <2>1. PICK g \in [DOMAIN queue -> Files] : Origin(g)
    BY DEF QueueOK
  <2>2. Origin(g)'
    BY <1>9, <2>1 DEF Origin, ExecuteQueue
  <2>3. QED
    BY <1>9, <2>1, <2>2 DEF ExecuteQueue
<1>10. ASSUME NEW c \in Clients, ExecuteQueuePanics(c) PROVE QueueOK'
  <2>1. DOMAIN queue' = {}
    BY <1>10, EmptyFacts DEF ExecuteQueuePanics
  <2>2. PICK g \in [DOMAIN queue' -> Files] : TRUE
    BY <2>1, NoEntries
  <2>3. Origin(g)'
    BY <2>1 DEF Origin
  <2>4. QED
    BY <2>2, <2>3
<1>11. ASSUME EcomNotifies PROVE QueueOK'
  <2>1. PICK g \in [DOMAIN queue -> Files] : Origin(g)
    BY DEF QueueOK
  <2>2. Origin(g)'
    BY <1>11, <2>1 DEF Origin, EcomNotifies
  <2>3. QED
    BY <1>11, <2>1, <2>2 DEF EcomNotifies
<1>12. ASSUME RunQueue PROVE QueueOK'
  <2>1. PICK g \in [DOMAIN queue -> Files] : Origin(g)
    BY DEF QueueOK
  <2>2. DOMAIN queue' = DOMAIN queue /\ \A i \in DOMAIN queue : queue'[i] = 0
    BY <1>12 DEF RunQueue
  <2>3. Origin(g)'
    BY <1>12, <2>1, <2>2 DEF Origin, RunQueue
  <2>4. QED
    BY <2>1, <2>2, <2>3
<1>13. ASSUME RunFailed PROVE QueueOK'
  <2>1. PICK g \in [DOMAIN queue -> Files] : Origin(g)
    BY DEF QueueOK
  <2>2. Origin(g)'
    BY <1>13, <2>1 DEF Origin, RunFailed
  <2>3. QED
    BY <1>13, <2>1, <2>2 DEF RunFailed
<1>14. ASSUME TimerExpires PROVE QueueOK'
  <2>1. DOMAIN queue' = {}
    BY <1>14, EmptyFacts DEF TimerExpires
  <2>2. PICK g \in [DOMAIN queue' -> Files] : TRUE
    BY <2>1, NoEntries
  <2>3. Origin(g)'
    BY <2>1 DEF Origin
  <2>4. QED
    BY <2>2, <2>3
<1>15. CASE UNCHANGED vars
  <2>1. PICK g \in [DOMAIN queue -> Files] : Origin(g)
    BY DEF QueueOK
  <2>2. Origin(g)'
    BY <1>15, <2>1 DEF Origin
  <2>3. QED
    BY <1>15, <2>1, <2>2
<1>16. QED
  BY <1>1, <1>2, <1>3, <1>4, <1>5, <1>6, <1>7, <1>8, <1>9, <1>10,
     <1>11, <1>12, <1>13, <1>14, <1>15 DEF Next, Call

\* What was executed and not run.
LEMMA ExecutedStep ==
  IInv /\ [Next]_vars => ExecutedOK'
<1> SUFFICES ASSUME Typed, DeadIsEmpty, QueueOK, TimersOK, RunsOK, ExecutedOK, [Next]_vars
             PROVE  ExecutedOK'
  BY DEF IInv
<1> USE LauncherAssumption
    DEF Typed, ExecutedOK, TimersOK, Files, Queued, Elements,
        StartShort, StartLong, CancelShutdown, ServerGone,
        AddSession, DropSession,
        DoExecuteQueue, Ran, server, client, history, vars
<1>1. ASSUME NEW c \in Clients, StartServer(c) PROVE ExecutedOK'
  <2>1. executed' = executed /\ runs' = runs /\ queue' = queue /\ ~alive
    BY <1>1 DEF StartServer
  <2>2. \A f \in executed : runs[f] # 0
    BY <2>1 DEF DeadIsEmpty
  <2>3. QED
    BY <2>1, <2>2
<1>2. ASSUME NEW c \in Clients, Connect(c) PROVE ExecutedOK'
  BY <1>2 DEF Connect
<1>3. ASSUME NEW c \in Clients, ConnectFails(c) PROVE ExecutedOK'
  BY <1>3 DEF ConnectFails
<1>4. ASSUME NEW c \in Clients, Close(c) PROVE ExecutedOK'
  BY <1>4 DEF Close
<1>5. ASSUME NEW c \in Clients, Terminated(c) PROVE ExecutedOK'
  BY <1>5 DEF Terminated
<1>6. ASSUME NEW c \in Clients, RunAfterEcomNotification(c) PROVE ExecutedOK'
  BY <1>6 DEF RunAfterEcomNotification
<1>7. ASSUME NEW c \in Clients, AddToQueue(c) PROVE ExecutedOK'
  <2>1. plan[c] \in Seq(Files) /\ plan[c] # <<>>
    BY <1>7 DEF AddToQueue
  <2>2. Head(plan[c]) \in 0 .. FileCount
    BY <2>1, TailFacts
  <2>3. \A i \in DOMAIN queue : i \in DOMAIN queue' /\ queue'[i] = queue[i]
    BY <1>7, <2>2, AppendFacts DEF AddToQueue
  <2>4. QED
    BY <1>7, <2>3 DEF AddToQueue
<1>8. ASSUME NEW c \in Clients, SkipFile(c) PROVE ExecutedOK'
  BY <1>8 DEF SkipFile
<1>9. ASSUME NEW c \in Clients, ExecuteQueue(c) PROVE ExecutedOK'
  BY <1>9 DEF ExecuteQueue
<1>10. ASSUME NEW c \in Clients, ExecuteQueuePanics(c) PROVE ExecutedOK'
  BY <1>10 DEF ExecuteQueuePanics
<1>11. ASSUME EcomNotifies PROVE ExecutedOK'
  BY <1>11 DEF EcomNotifies
<1>12. ASSUME RunQueue PROVE ExecutedOK'
  <2>1. \A f \in executed : runs[f] = 0 => runs'[f] = 1
    BY <1>12 DEF RunQueue
  <2>2. \A f \in executed : runs'[f] # 0
    BY <1>12, <2>1 DEF RunQueue
  <2>3. QED
    BY <1>12, <2>2 DEF RunQueue
<1>13. ASSUME RunFailed PROVE ExecutedOK'
  BY <1>13 DEF RunFailed
<1>14. ASSUME TimerExpires PROVE ExecutedOK'
  BY <1>14 DEF TimerExpires
<1>15. CASE UNCHANGED vars
  BY <1>15
<1>16. QED
  BY <1>1, <1>2, <1>3, <1>4, <1>5, <1>6, <1>7, <1>8, <1>9, <1>10,
     <1>11, <1>12, <1>13, <1>14, <1>15 DEF Next, Call

-----------------------------------------------------------------------------
(* The theorems.                                                             *)

\* The invariant holds of the first state.
LEMMA Initially == Init => IInv
<1> SUFFICES ASSUME Init PROVE IInv
  OBVIOUS
<1> USE LauncherAssumption DEF Init
<1>1. Typed
  <2>1. queue \in Seq(0 .. FileCount)
    BY EmptyFacts
  <2>2. plan \in [Clients -> Seq(Files)]
    BY EmptyFacts
  <2>3. next \in 1 .. FileCount + 1 /\ runs \in [Files -> 0 .. 2] /\ executed \subseteq Files
    OBVIOUS
  <2>4. QED
    BY <2>1, <2>2, <2>3 DEF Typed
<1>2. DeadIsEmpty /\ TimersOK /\ RunsOK /\ ExecutedOK
  BY DEF DeadIsEmpty, TimersOK, RunsOK, ExecutedOK
<1>3. PlansApart
  BY DEF PlansApart
<1>4. DOMAIN queue = {}
  BY EmptyFacts
<1>5. QueueOK
  <2>1. PICK g \in [DOMAIN queue -> Files] : TRUE
    BY <1>4, NoEntries
  <2>2. Origin(g)
    BY <1>4 DEF Origin
  <2>3. QED
    BY <2>2 DEF QueueOK
<1>6. QED
  BY <1>1, <1>2, <1>3, <1>5 DEF IInv

\* The invariant is inductive.
THEOREM Invariance == Spec => []IInv
<1>1. IInv /\ [Next]_vars => IInv'
  BY TypedStep, DeadStep, TimersStep, RunsStep, PlansStep, QueueStep, ExecutedStep DEF IInv
<1>2. QED
  BY Initially, <1>1, PTL DEF Spec

\* Every variable keeps its type, and the queue, which never shrinks while the server
\* lives, has no more entries than there are files: a client queues a file once.
THEOREM TypeCorrect == Spec => []TypeOK
<1>1. IInv => TypeOK
  <2> SUFFICES ASSUME IInv PROVE TypeOK
    OBVIOUS
  <2>1. PICK g \in [DOMAIN queue -> Files] : Origin(g)
    BY DEF IInv, QueueOK
  <2>2. Len(queue) \in Nat /\ DOMAIN queue = 1 .. Len(queue)
    BY LenProperties DEF IInv, Typed
  <2>3. Len(queue) <= FileCount
    BY <2>1, <2>2, InjectionBound DEF Origin
  <2>4. QED
    BY <2>3 DEF IInv, Typed, TypeOK
<1>2. QED
  BY <1>1, Invariance, PTL

\* The short timer runs only while nobody is connected and no queue waits for ECOM,
\* whatever clients come and go in between (StartShort, CancelShutdown).
THEOREM ShortTimerIsHarmless == Spec => []ShortTimerHarmless
<1>1. IInv => ShortTimerHarmless
  BY DEF IInv, TimersOK, ShortTimerHarmless
<1>2. QED
  BY <1>1, Invariance, PTL

\* No file is run twice, although DoExecuteQueue leaves the entries in the queue and
\* any number of clients add to it and execute it.
THEOREM FilesRunOnce == Spec => []RunOnce
<1>1. IInv => RunOnce
  <2> SUFFICES ASSUME IInv PROVE RunOnce
    OBVIOUS
  <2>1. \A f \in Queued : runs[f] = 0
    BY QueuedUnrun DEF IInv
  <2>2. QED
    BY <2>1 DEF IInv, RunsOK, RunOnce
<1>2. QED
  BY <1>1, Invariance, PTL

\* Files are run by RunL after a notification without an error, and by nothing else.
THEOREM RunOnlyAfterEcom == Spec => RunAfterEcom
<1>1. [Next]_vars => [runs' # runs => ecom = "changed"]_vars
  BY DEF Next, Call, StartServer, Connect, ConnectFails, Close, Terminated,
         RunAfterEcomNotification, AddToQueue, SkipFile, ExecuteQueue,
         ExecuteQueuePanics, EcomNotifies, RunQueue, RunFailed, TimerExpires,
         client, history, vars
<1>2. QED
  BY <1>1, PTL DEF Spec, RunAfterEcom

\* A file that ExecuteQueue has taken is not dropped but by the long timer, or by a
\* second client that starts the processor while it waits.
THEOREM ExecutedFilesKept == Spec => ExecutedIsKept
<1>1. IInv /\ [Next]_vars =>
        [\A f \in executed \ executed' : timer = "long" \/ Restarting]_vars
  <2> SUFFICES ASSUME IInv, Next, NEW f \in executed \ executed'
               PROVE  timer = "long" \/ Restarting
    BY DEF vars
  <2>1. runs[f] = 0 => long
    BY DEF IInv, ExecutedOK
  <2>2. ASSUME TimerExpires PROVE timer = "long"
    <3>1. runs[f] = 0
      BY <2>2 DEF TimerExpires, ServerGone, IInv, Typed
    <3>2. timer \in {"short", "long"}
      BY <2>2 DEF TimerExpires, IInv, Typed
    <3>3. QED
      BY <2>1, <3>1, <3>2 DEF IInv, TimersOK
  <2>3. ASSUME NEW c \in Clients, ExecuteQueuePanics(c) PROVE Restarting
    BY <2>3 DEF ExecuteQueuePanics, Restarting
  <2>4. QED
    BY <2>2, <2>3 DEF Next, Call, StartServer, Connect, ConnectFails, Close, Terminated,
         RunAfterEcomNotification, AddToQueue, SkipFile, ExecuteQueue,
         EcomNotifies, RunQueue, RunFailed, client, history, server
<1>2. QED
  BY <1>1, Invariance, PTL DEF ExecutedIsKept, Spec
=============================================================================
