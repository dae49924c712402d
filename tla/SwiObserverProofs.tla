-------------------------- MODULE SwiObserverProofs --------------------------
(***************************************************************************)
(* Theorems about SwiObserver for any clients, plugins, logs and mishaps:     *)
(* only committed installations are told of, each log once, in order and      *)
(* with its start first, and none is deleted before every plugin heard it.    *)
(***************************************************************************)
EXTENDS SwiObserver, SequenceTheorems, FiniteSetTheorems, WellFoundedInduction, TLAPS

\* A non-empty set of natural numbers has a least element.
LEMMA LeastNatural ==
    ASSUME NEW T, T \subseteq Nat, T # {}
    PROVE  \E n \in T : \A m \in T : n <= m
<1>1. PICK n \in T : \A m \in T : <<m, n>> \notin OpToRel(<, Nat)
  BY WFMin, NatLessThanWellFounded, Zenon
<1>2. ASSUME NEW m \in T PROVE ~ (m < n)
  BY <1>1, Zenon DEF OpToRel
<1> QED BY <1>2

\* A non-empty set of numbers with an upper bound has a greatest element.
LEMMA GreatestNatural ==
    ASSUME NEW b \in Nat, NEW T, T \subseteq 0 .. b, T # {}
    PROVE  \E n \in T : \A m \in T : n >= m
<1> DEFINE Below == {b - n : n \in T}
<1>1. Below \subseteq Nat /\ Below # {}
  <2>1. \A n \in T : b - n \in Nat
    OBVIOUS
  <2> QED BY <2>1
<1>2. PICK x \in Below : \A y \in Below : x <= y
  <2> HIDE DEF Below
  <2> QED BY <1>1, LeastNatural
<1>3. PICK n \in T : x = b - n
  BY <1>2
<1>4. ASSUME NEW m \in T PROVE n >= m
  <2>1. x <= b - m
    BY <1>2
  <2> QED BY <1>3, <2>1
<1> QED BY <1>4

NoteKinds == {"start", "header", "data", "final"}
ClientStates == {"out", "waiting", "registered", "holding", "refused", "recording",
                 "decided", "done", "leaving"}
ProcType == [progress : {"idle", "subscribed", "busy"}, state : States,
             impl : 0 .. Plugins, pos : Nat, header : BOOLEAN, current : Logs \cup {NoLog}]
ToldType == [Logs -> [1 .. Plugins -> Seq(NoteKinds)]]
FateType == [Logs -> {"none", "loose", "open", "committed", "handed", "undone"}]

\* What TypeOK says of the logs, the processor and the clients.
LogTypes ==
    /\ swi \subseteq Logs /\ obs \subseteq Logs
    /\ content \in [Logs -> Contents \cup {<<>>}]
    /\ high \in 0 .. MaxLogs
    /\ proc \in ProcType
    /\ cl \in [Clients -> ClientStates]
    /\ file \in [Clients -> Logs \cup {NoLog}]
    /\ fate \in FateType
    /\ told \in ToldType
    /\ mishaps \in [Kinds -> Nat]
    /\ {up, timer, on} \subseteq BOOLEAN

Opens(c)  == cl[c] \in {"holding", "refused", "recording", "decided"}
Active(c) == cl[c] \in {"holding", "recording", "decided", "leaving"}

\* A device that is down runs nothing, and a server that does not run processes nothing.
Downs ==
    /\ ~on => ~up /\ \A c \in Clients : cl[c] = "out" /\ file[c] = NoLog
    /\ ~up => proc.progress = "idle" /\ ~timer
    /\ proc.progress = "idle" => proc.current = NoLog /\ proc.impl = 0
    /\ proc.state = "restore" => proc.current = NoLog
    /\ proc.state \in {"restore", "nextlog"} => proc.impl = 0
    /\ proc.state = "process" => proc.impl # 0
    /\ proc.state \in {"nextplugin", "process"} => proc.current # NoLog
    /\ up /\ timer => proc.progress = "idle"

\* A log that a client has open is in log_swi, the one that is processed is not, and
\* the name of the next log is new.
Places ==
    /\ \A c \in Clients : Opens(c) => file[c] \in swi
    /\ \A c \in Clients : cl[c] = "leaving" => file[c] # NoLog
    /\ proc.current \notin swi
    /\ up => /\ \A f \in swi : f <= high
             /\ proc.current <= high

Heard(f, p) == told[f][p] # <<>> /\ Last(told[f][p]) = "final"

\* The plugins that have been dealt with have heard the log to its end.
HeardSoFar ==
    NoFault /\ proc.progress # "idle" /\ proc.current # NoLog =>
        /\ proc.state = "nextplugin" => \A p \in 1 .. proc.impl : Heard(proc.current, p)
        /\ proc.state = "process" => \A p \in 1 .. proc.impl - 1 : Heard(proc.current, p)
        /\ proc.state = "nextlog" =>
              Cut(proc.current) \/ \A p \in 1 .. Plugins : Heard(proc.current, p)

\* Nothing is half processed but the current log.
HalfDone ==
    NoFault /\ up =>
        /\ obs \subseteq {proc.current}
        /\ proc.progress = "idle" \/ proc.state \in {"restore", "complete"} => obs = {}

Kept == {"committed", "handed"}

\* Without overlaps: one client at a time has a log to write, and none while the
\* processor is at work; every log that holds something is kept or its client's.
OneWrites ==
    NoOverlap =>
        /\ \A c \in Clients : Active(c) =>
              /\ proc.progress = "idle"
              /\ \A d \in Clients \ {c} : ~Active(d)
        /\ \A c, d \in Clients : c # d /\ file[c] # NoLog => file[c] # file[d]
        /\ up => \A c \in Clients : file[c] <= high

Writes(c, f) == cl[c] \in {"recording", "leaving"} /\ file[c] = f
Quiet(f) == \A p \in 1 .. Plugins : told[f][p] = <<>>
Safe(f) ==
    \/ fate[f] \in Kept
    \/ fate[f] = "open" /\ (on => \E c \in Clients : Writes(c, f))

OnlyKept ==
    NoOverlap =>
        /\ \A f \in swi : content[f] # <<>> => Safe(f)
        /\ proc.current # NoLog => fate[proc.current] \in Kept
        /\ \A c \in Clients : cl[c] = "holding" => Quiet(file[c])
        /\ \A f \in Logs : Quiet(f) \/ fate[f] \in Kept

IInv ==
    /\ LogTypes /\ Downs /\ Places /\ HeardSoFar /\ HalfDone /\ OneWrites /\ OnlyKept

LEMMA Bounds == Plugins \in Nat /\ MaxLogs \in Nat
BY BoundsAssumption

-----------------------------------------------------------------------------
(* The operators.                                                             *)

\* The highest of some logs is one of them.
LEMMA HighestLog ==
    ASSUME NEW logs, logs \subseteq Logs, logs # {}
    PROVE  Max(logs) \in logs /\ \A f \in logs : f <= Max(logs)
<1>1. \E n \in logs : \A m \in logs : n >= m
  <2>1. MaxLogs \in Nat /\ logs \subseteq 0 .. MaxLogs  BY Bounds DEF Logs
  <2>. QED  BY <2>1, GreatestNatural
<1>2. Max(logs) \in logs /\ \A m \in logs : Max(logs) >= m
  BY <1>1 DEF Max
<1>3. \A m \in logs : m \in Nat  BY Bounds DEF Logs
<1>. QED  BY <1>2, <1>3

\* A record that concerns the plugin is in the log.
LEMMA NoteInLog ==
    ASSUME LogTypes, proc.current \in Logs
    PROVE  /\ Len(Log) \in Nat /\ DOMAIN Log = 1 .. Len(Log)
           /\ NextNote \in Nat
           /\ NextNote <= Len(Log) => NextNote \in DOMAIN Log
<1>. DEFINE T == {i \in proc.pos + 1 .. Len(Log) : Log[i] # "other"} \cup {Len(Log) + 1}
<1>1. Log \in Seq(Records)
  <2>1. content[proc.current] \in Contents \cup {<<>>}  BY DEF LogTypes
  <2>2. <<>> \in Seq(Records)  OBVIOUS
  <2>. QED  BY <2>1, <2>2, ContentsAssumption DEF Log
<1>2. Len(Log) \in Nat /\ DOMAIN Log = 1 .. Len(Log)  BY <1>1
<1>3. proc.pos \in Nat  BY DEF LogTypes, ProcType
<1>4. T \subseteq Nat /\ T # {}  BY <1>2, <1>3
<1>5. \E n \in T : \A m \in T : n <= m
  <2>. HIDE DEF T
  <2>. QED  BY <1>4, LeastNatural
<1>6. NextNote \in T
  <2>1. NextNote = Min(T)  BY DEF NextNote
  <2>. HIDE DEF T
  <2>. QED  BY <1>5, <2>1 DEF Min
<1>7. NextNote \in proc.pos + 1 .. Len(Log) \/ NextNote = Len(Log) + 1  BY <1>6
<1>. HIDE DEF T
<1>8. NextNote <= Len(Log) => NextNote \in 1 .. Len(Log)
  <2>. SUFFICES ASSUME NextNote <= Len(Log) PROVE NextNote \in 1 .. Len(Log)
    OBVIOUS
  <2>. QED  BY <1>2, <1>3, <1>7
<1>9. NextNote \in Nat  BY <1>4, <1>6
<1>. QED  BY <1>2, <1>8, <1>9

LEMMA MishapFacts ==
    ASSUME LogTypes, NEW kind \in Kinds, Mishap(kind)
    PROVE  /\ mishaps' \in [Kinds -> Nat]
           /\ mishaps'[kind] # 0
           /\ \A k \in Kinds : mishaps'[k] = 0 => mishaps[k] = 0
           /\ \A k \in Kinds \ {kind} : mishaps'[k] = mishaps[k]
BY DEF LogTypes, Mishap

\* What was without a fault, or an overlap, is so since the start.
LEMMA NoMishapBefore ==
    ASSUME LogTypes, Next
    PROVE  /\ mishaps' \in [Kinds -> Nat]
           /\ NoFault' => NoFault
           /\ NoOverlap' => NoOverlap
<1>1. mishaps' = mishaps \/ \E kind \in Kinds : Mishap(kind)
  <2>. USE DEF Kinds
  <2>1. CASE \E c \in Clients : Request(c)
    BY <2>1 DEF Request, Register, Transfer, TransferFails, Record, Decide, Commit, CommitFails,
                Leave, RollBack, Fault, Overlap
  <2>2. CASE Launch \/ Exit \/ RestoreCompleted \/ NextLogFile \/ LogFileFails \/ NextPlugin
    BY <2>2 DEF Launch, Exit, RestoreCompleted, NextLogFile, LogFileFails, NextPlugin, Fault,
                Overlap
  <2>3. CASE Notify \/ Finalize \/ GiveUp \/ CompleteProcess \/ RunError
    BY <2>3 DEF Notify, Finalize, GiveUp, CompleteProcess, RunError, Fault
  <2>4. CASE BackupStarts \/ BackupEnds \/ Crash \/ Boot
    BY <2>4 DEF BackupStarts, BackupEnds, Crash, Boot
  <2>. QED  BY <2>1, <2>2, <2>3, <2>4 DEF Next
<1>2. /\ mishaps' \in [Kinds -> Nat]
      /\ \A k \in Kinds : mishaps'[k] = 0 => mishaps[k] = 0
  BY <1>1, MishapFacts DEF LogTypes
<1>. QED  BY <1>2 DEF NoFault, NoOverlap, Kinds

LEMMA FaultShows == ASSUME LogTypes, Fault PROVE ~NoFault'
BY MishapFacts DEF Fault, NoFault, Kinds

LEMMA OverlapShows ==
    ASSUME LogTypes, NEW now \in BOOLEAN, Overlap(now), now PROVE ~NoOverlap'
BY MishapFacts DEF Overlap, NoOverlap, Kinds

LEMMA StartProcessingSets ==
    ASSUME StartProcessing
    PROVE  \/ proc' = [proc EXCEPT !.progress = "subscribed", !.state = "restore"]
           \/ proc' = [proc EXCEPT !.progress = "busy", !.state = "nextlog"]
BY DEF StartProcessing

LEMMA StartServerSets ==
    ASSUME NEW logs, logs \subseteq Logs, StartServer(logs)
    PROVE  /\ up' = TRUE /\ swi' = logs /\ obs' = {}
           /\ high' \in 0 .. MaxLogs
           /\ \A f \in logs : f <= high'
           /\ \/ timer' = TRUE /\ proc' = proc
              \/ timer' = timer /\ StartProcessing
<1>1. CASE logs = {}
  BY <1>1, Bounds DEF StartServer
<1>2. CASE logs # {}
  <2>1. Max(logs) \in Logs /\ \A f \in logs : f <= Max(logs)  BY <1>2, HighestLog
  <2>2. Logs \subseteq 0 .. MaxLogs  BY Bounds DEF Logs
  <2>3. high' = Max(logs) /\ UNCHANGED timer /\ StartProcessing
    BY <1>2 DEF StartServer
  <2>. QED  BY <2>1, <2>2, <2>3 DEF StartServer
<1>. QED  BY <1>1, <1>2

-----------------------------------------------------------------------------
(* The types.                                                                 *)

LEMMA ProcTypes ==
    ASSUME LogTypes, StartProcessing \/ Process \/ ServerGone
    PROVE  proc' \in ProcType
<1>1. proc \in ProcType  BY DEF LogTypes
<1>2. CASE StartProcessing
  BY <1>1, <1>2, StartProcessingSets DEF ProcType, States
<1>3. CASE Process
  BY <1>1, <1>2, <1>3 DEF Process
<1>4. CASE ServerGone
  BY <1>4, Bounds DEF ServerGone, Reset, ProcType, States
<1>. QED  BY <1>2, <1>3, <1>4

\* What is told stays notes.
LEMMA TellTypes ==
    ASSUME LogTypes, NEW notes \in Seq(NoteKinds), Tell(notes)
    PROVE  told' \in ToldType
<1>1. told \in ToldType  BY DEF LogTypes
<1>2. CASE proc.current \in Logs
  <2>. DEFINE heard == [told[proc.current] EXCEPT
                           ![proc.impl] = told[proc.current][proc.impl] \o notes]
  <2>1. told[proc.current] \in [1 .. Plugins -> Seq(NoteKinds)]
    BY <1>1, <1>2 DEF ToldType
  <2>2. heard \in [1 .. Plugins -> Seq(NoteKinds)]
    <3>1. \A s, t \in Seq(NoteKinds) : s \o t \in Seq(NoteKinds)  OBVIOUS
    <3>2. proc.impl \in 1 .. Plugins =>
             told[proc.current][proc.impl] \o notes \in Seq(NoteKinds)
      BY <2>1, <3>1
    <3>. QED  BY <2>1, <3>2
  <2>3. told' = [told EXCEPT ![proc.current] = heard]
    BY <1>1, <1>2 DEF Tell, ToldType
  <2>. HIDE DEF heard
  <2>. QED  BY <1>1, <2>2, <2>3 DEF ToldType
<1>3. CASE proc.current \notin Logs
  BY <1>1, <1>3 DEF Tell, ToldType
<1>. QED  BY <1>2, <1>3

LEMMA HalfToldTypes ==
    ASSUME LogTypes, told' = told \/ Tell(StartNotes)
    PROVE  told' \in ToldType
<1>1. StartNotes \in Seq(NoteKinds)
  <2>1. <<>> \in Seq(NoteKinds)  OBVIOUS
  <2>2. <<"start">> \in Seq(NoteKinds)  BY DEF NoteKinds
  <2>. QED  BY <2>1, <2>2 DEF StartNotes
<1>2. told \in ToldType  BY DEF LogTypes
<1>. QED  BY <1>1, <1>2, TellTypes

LEMMA TypeStep == ASSUME LogTypes, Downs, Next PROVE LogTypes'
<1>1. /\ swi \subseteq Logs /\ obs \subseteq Logs /\ {up, timer, on} \subseteq BOOLEAN
      /\ content \in [Logs -> Contents \cup {<<>>}] /\ high \in 0 .. MaxLogs
      /\ proc \in ProcType /\ cl \in [Clients -> ClientStates]
      /\ file \in [Clients -> Logs \cup {NoLog}] /\ fate \in FateType /\ told \in ToldType
  BY DEF LogTypes
<1>2. mishaps' \in [Kinds -> Nat]  BY NoMishapBefore
<1>3. ASSUME NEW c \in Clients, Request(c)
      PROVE  LogTypes'
  <2>1. CASE Register(c) \/ Leave(c)
    BY <1>1, <1>2, <2>1 DEF Register, Leave, LogTypes, ClientStates, durable, history
  <2>2. CASE Transfer(c) \/ TransferFails(c)
    <3>1. high + 1 \in Logs /\ high' = high + 1 /\ high' \in 0 .. MaxLogs
      BY <1>1, <2>2, Bounds DEF Transfer, TransferFails, CreateLog, Logs
    <3>2. told' \in ToldType
      <4>1. [p \in 1 .. Plugins |-> <<>>] \in [1 .. Plugins -> Seq(NoteKinds)]  OBVIOUS
      <4>2. told' = [told EXCEPT ![high'] = [p \in 1 .. Plugins |-> <<>>]]
        BY <2>2 DEF Transfer, TransferFails, CreateLog
      <4>. QED  BY <1>1, <3>1, <4>1, <4>2 DEF ToldType
    <3>3. fate' \in FateType  BY <1>1, <2>2 DEF Transfer, TransferFails, CreateLog, FateType
    <3>4. /\ swi' = swi \cup {high'} /\ content' = [content EXCEPT ![high'] = <<>>]
          /\ file' = [file EXCEPT ![c] = high']
          /\ cl' = [cl EXCEPT ![c] = "holding"] \/ cl' = [cl EXCEPT ![c] = "refused"]
          /\ UNCHANGED <<obs, up, timer, proc, on>>
      BY <2>2 DEF Transfer, TransferFails, CreateLog
    <3>5. /\ content' \in [Logs -> Contents \cup {<<>>}]
          /\ file' \in [Clients -> Logs \cup {NoLog}]
          /\ cl' \in [Clients -> ClientStates]
      BY <1>1, <3>1, <3>4 DEF ClientStates
    <3>. QED
      BY <1>1, <1>2, <3>1, <3>2, <3>3, <3>4, <3>5 DEF LogTypes
  <2>3. CASE Record(c) \/ Decide(c)
    <3>1. fate' \in FateType  BY <1>1, <2>3 DEF Record, Decide, FateType
    <3>2. content' \in [Logs -> Contents \cup {<<>>}]  BY <1>1, <2>3 DEF Record, Decide, durable
    <3>. QED
      BY <1>1, <1>2, <2>3, <3>1, <3>2 DEF Record, Decide, LogTypes, ClientStates, durable, server
  <2>4. CASE Commit(c)
    <3>1. proc' \in ProcType /\ timer' \in BOOLEAN  BY <1>1, <2>4, ProcTypes DEF Commit, Process
    <3>2. fate' \in FateType  BY <1>1, <2>4 DEF Commit, FateType
    <3>. QED
      BY <1>1, <1>2, <2>4, <3>1, <3>2 DEF Commit, LogTypes, ClientStates, durable
  <2>5. CASE CommitFails(c)
    BY <1>1, <1>2, <2>5 DEF CommitFails, LogTypes, ClientStates, durable, history
  <2>6. CASE RollBack(c)
    <3>1. fate' \in FateType  BY <1>1, <2>6 DEF RollBack, FateType
    <3>. QED
      BY <1>1, <1>2, <2>6, <3>1 DEF RollBack, LogTypes, ClientStates, server
  <2>. QED  BY <1>3, <2>1, <2>2, <2>3, <2>4, <2>5, <2>6 DEF Request
<1>4. CASE Launch
  <2>1. proc' \in ProcType /\ timer' \in BOOLEAN
    BY <1>1, <1>4, StartServerSets, ProcTypes DEF Launch
  <2>. QED
    BY <1>1, <1>2, <1>4, <2>1, StartServerSets DEF Launch, LogTypes, client, history
<1>5. CASE Exit \/ Crash
  <2>1. proc' \in ProcType /\ timer' \in BOOLEAN /\ up' \in BOOLEAN
    BY <1>5, ProcTypes DEF Exit, Crash, ServerGone
  <2>. QED
    BY <1>1, <1>2, <1>5, <2>1 DEF Exit, Crash, LogTypes, ClientStates, client, history, durable
<1>6. CASE RestoreCompleted
  <2>1. proc' \in ProcType  BY <1>6, ProcTypes DEF RestoreCompleted
  <2>. QED
    BY <1>1, <1>2, <1>6, <2>1 DEF RestoreCompleted, LogTypes, client, history, durable
<1>7. CASE NextLogFile \/ LogFileFails
  <2>1. swi' \subseteq Logs /\ obs' \subseteq Logs
    BY <1>1, <1>7 DEF NextLogFile, LogFileFails, Processed, Full, Ready
  <2>2. proc' \in ProcType
    <3>1. Full \subseteq Logs  BY <1>1 DEF Full, Ready
    <3>2. \/ \E f \in Full :
                proc' = [proc EXCEPT !.state = "nextplugin", !.current = f, !.pos = 0]
          \/ proc' = [proc EXCEPT !.state = "complete", !.current = NoLog]
          \/ proc' = [proc EXCEPT !.current = NoLog]
      BY <1>7 DEF NextLogFile, LogFileFails
    <3>3. "nextplugin" \in States /\ "complete" \in States  BY DEF States
    <3>4. CASE \E f \in Full :
                  proc' = [proc EXCEPT !.state = "nextplugin", !.current = f, !.pos = 0]
      <4>1. PICK f \in Logs :
               proc' = [proc EXCEPT !.state = "nextplugin", !.current = f, !.pos = 0]
        BY <3>1, <3>4
      <4>. QED  BY <1>1, <3>3, <4>1 DEF ProcType
    <3>5. CASE proc' = [proc EXCEPT !.state = "complete", !.current = NoLog]
      BY <1>1, <3>3, <3>5 DEF ProcType
    <3>6. CASE proc' = [proc EXCEPT !.current = NoLog]
      BY <1>1, <3>6 DEF ProcType
    <3>. QED  BY <3>2, <3>4, <3>5, <3>6
  <2>. QED
    BY <1>1, <1>2, <1>7, <2>1, <2>2 DEF NextLogFile, LogFileFails, LogTypes, client, history
<1>8. CASE NextPlugin \/ GiveUp
  <2>1. proc' \in ProcType
    <3>1. \/ proc.impl < Plugins /\ proc' = [proc EXCEPT !.impl = @ + 1, !.state = "process"]
          \/ proc.impl < Plugins /\ proc' = [proc EXCEPT !.impl = @ + 1]
          \/ proc' = [proc EXCEPT !.impl = 0, !.state = "nextlog"]
          \/ \E kept \in BOOLEAN :
                proc' = [proc EXCEPT !.impl = 0, !.pos = 0, !.state = "nextlog",
                                     !.header = kept /\ @]
      BY <1>8 DEF NextPlugin, GiveUp
    <3>2. 0 \in 0 .. Plugins /\ (proc.impl < Plugins => proc.impl + 1 \in 0 .. Plugins)
      BY <1>1, Bounds DEF ProcType
    <3>3. "process" \in States /\ "nextlog" \in States /\ 0 \in 0 .. Plugins
      BY Bounds DEF States
    <3>4. CASE proc' = [proc EXCEPT !.impl = 0, !.state = "nextlog"]
      BY <1>1, <3>3, <3>4 DEF ProcType
    <3>7. ASSUME NEW kept \in BOOLEAN,
                 proc' = [proc EXCEPT !.impl = 0, !.pos = 0, !.state = "nextlog",
                                      !.header = kept /\ @]
          PROVE  proc' \in ProcType
      <4>1. proc.header \in BOOLEAN  BY <1>1 DEF ProcType
      <4>2. (kept /\ proc.header) \in BOOLEAN  BY <4>1
      <4>. QED  BY <1>1, <3>3, <3>7, <4>2 DEF ProcType
    <3>5. CASE /\ proc.impl < Plugins
               /\ proc' = [proc EXCEPT !.impl = @ + 1, !.state = "process"]
      BY <1>1, <3>2, <3>3, <3>5 DEF ProcType
    <3>6. CASE proc.impl < Plugins /\ proc' = [proc EXCEPT !.impl = @ + 1]
      BY <1>1, <3>2, <3>6 DEF ProcType
    <3>. QED  BY <3>1, <3>4, <3>5, <3>6, <3>7
  <2>2. told' \in ToldType
    BY <1>1, <1>8, HalfToldTypes DEF NextPlugin, GiveUp, history
  <2>. QED
    BY <1>1, <1>2, <1>8, <2>1, <2>2 DEF NextPlugin, GiveUp, LogTypes, client, history, durable
<1>9. CASE Notify \/ Finalize
  <2>1. told' \in ToldType
    <3>1. Tell(HeaderNotes) \/ Tell(<<"data">>) \/ Tell(<<"final">>)
      BY <1>9 DEF Notify, Finalize
    <3>5. /\ HeaderNotes \in Seq(NoteKinds) /\ <<"data">> \in Seq(NoteKinds)
          /\ <<"final">> \in Seq(NoteKinds)
      <4>1. {"start", "header", "data", "final"} \subseteq NoteKinds  BY DEF NoteKinds
      <4>. QED  BY <4>1 DEF HeaderNotes
    <3>. QED  BY <3>1, <3>5, TellTypes
  <2>2. CASE NextNote \in Nat
    <3>1. proc' \in ProcType
      <4>1. \/ proc' = [proc EXCEPT !.pos = NextNote, !.header = TRUE]
            \/ proc' = [proc EXCEPT !.pos = NextNote]
            \/ proc' = [proc EXCEPT !.pos = 0, !.header = FALSE, !.state = "nextplugin"]
        BY <1>9 DEF Notify, Finalize
      <4>2. "nextplugin" \in States  BY DEF States
      <4>3. CASE proc' = [proc EXCEPT !.pos = 0, !.header = FALSE, !.state = "nextplugin"]
        BY <1>1, <4>2, <4>3 DEF ProcType
      <4>4. CASE \/ proc' = [proc EXCEPT !.pos = NextNote, !.header = TRUE]
                 \/ proc' = [proc EXCEPT !.pos = NextNote]
        BY <1>1, <2>2, <4>4 DEF ProcType
      <4>. QED  BY <4>1, <4>3, <4>4
    <3>. QED
      BY <1>1, <1>2, <1>9, <2>1, <3>1 DEF Notify, Finalize, LogTypes, client, durable
  <2>3. proc.current \in Logs
    BY <1>1, <1>9 DEF Notify, Finalize, InState, Downs, ProcType
  <2>. QED  BY <2>2, <2>3, NoteInLog
<1>10. CASE CompleteProcess \/ RunError
  <2>1. swi' \subseteq Logs /\ obs' \subseteq Logs
    BY <1>1, <1>10 DEF CompleteProcess, RunError, Processed, Full, Ready
  <2>2. proc' \in ProcType
    <3>1. proc' = Reset("complete") \/ proc' = Reset("idle")
      BY <1>10 DEF CompleteProcess, RunError
    <3>2. {"idle", "complete"} \subseteq States /\ 0 \in Nat /\ 0 \in 0 .. Plugins
      BY Bounds DEF States
    <3>3. CASE proc' = Reset("complete")  BY <3>2, <3>3 DEF Reset, ProcType
    <3>4. CASE proc' = Reset("idle")  BY <3>2, <3>4 DEF Reset, ProcType
    <3>. QED  BY <3>1, <3>3, <3>4
  <2>3. cl' \in [Clients -> ClientStates] /\ timer' \in BOOLEAN
    <3>1. ProcessorCompleted  BY <1>10 DEF CompleteProcess, RunError
    <3>. QED  BY <1>1, <3>1 DEF ProcessorCompleted, ClientStates
  <2>4. told' \in ToldType
    BY <1>1, <1>10, HalfToldTypes DEF CompleteProcess, RunError, history
  <2>. QED
    BY <1>1, <1>2, <1>10, <2>1, <2>2, <2>3, <2>4 DEF CompleteProcess, RunError, LogTypes, history
<1>11. CASE BackupStarts \/ BackupEnds
  BY <1>1, <1>2, <1>11 DEF BackupStarts, BackupEnds, LogTypes, durable, server, client, history
<1>12. CASE Boot
  <2>. DEFINE kept == {f \in swi : fate[f] # "open"}
  <2>1. \/ StartServer(kept)
        \/ swi' = kept /\ UNCHANGED <<obs, flag, up, high, timer, proc, bur>>
    BY <1>12 DEF Boot
  <2>2. kept \subseteq Logs  BY <1>1
  <2>3. fate' \in FateType  BY <1>1, <1>12 DEF Boot, FateType
  <2>4. proc' \in ProcType /\ up' \in BOOLEAN /\ timer' \in BOOLEAN /\ high' \in 0 .. MaxLogs
        /\ swi' \subseteq Logs /\ obs' \subseteq Logs
    <3>. HIDE DEF kept
    <3>. QED  BY <1>1, <2>1, <2>2, StartServerSets, ProcTypes
  <2>. QED
    BY <1>1, <1>2, <1>12, <2>3, <2>4 DEF Boot, LogTypes, client
<1>. QED
  BY <1>3, <1>4, <1>5, <1>6, <1>7, <1>8, <1>9, <1>10, <1>11, <1>12 DEF Next

-----------------------------------------------------------------------------
(* What runs when.                                                            *)

\* StartProcessingL begins with the logs.
LEMMA ProcessorStarts ==
    ASSUME LogTypes, StartProcessing
    PROVE  /\ proc'.current = proc.current /\ proc'.impl = proc.impl
           /\ proc'.progress # "idle" /\ proc'.state \in {"restore", "nextlog"}
<1>1. \/ proc' = [proc EXCEPT !.progress = "subscribed", !.state = "restore"]
      \/ proc' = [proc EXCEPT !.progress = "busy", !.state = "nextlog"]
  BY StartProcessingSets
<1>2. proc \in ProcType  BY DEF LogTypes
<1>. QED  BY <1>1, <1>2 DEF ProcType

LEMMA DownsStep == ASSUME LogTypes, Downs, Next PROVE Downs'
<1>. USE DEF NoLog
<1>1. proc \in ProcType /\ {up, timer, on} \subseteq BOOLEAN
  BY DEF LogTypes
<1>2. /\ cl \in [Clients -> ClientStates] /\ file \in [Clients -> Logs \cup {NoLog}]
  BY DEF LogTypes
<1>3. ASSUME NEW c \in Clients, Register(c) \/ Transfer(c) \/ TransferFails(c)
      PROVE  Downs'
  <2>1. up /\ UNCHANGED <<up, timer, proc, on>>
    BY <1>3 DEF Register, Transfer, TransferFails, CreateLog
  <2>. QED  BY <2>1 DEF Downs
<1>4. ASSUME NEW c \in Clients, Record(c) \/ Decide(c) \/ RollBack(c) \/ Leave(c)
      PROVE  Downs'
  <2>1. cl[c] # "out" /\ UNCHANGED <<up, timer, proc, on>>
    BY <1>4 DEF Record, Decide, RollBack, Leave, server
  <2>2. on  BY <2>1 DEF Downs
  <2>. QED  BY <2>1, <2>2 DEF Downs
<1>5. ASSUME NEW c \in Clients, Commit(c) \/ CommitFails(c)
      PROVE  Downs'
  <2>1. up /\ on /\ UNCHANGED <<up, on>>  BY <1>5 DEF Commit, CommitFails, Downs
  <2>2. CASE UNCHANGED <<timer, proc>>
    BY <2>1, <2>2 DEF Downs
  <2>3. CASE CommitFails(c)
    BY <2>1, <2>3 DEF CommitFails, Downs
  <2>4. CASE proc.progress = "idle" /\ StartProcessing /\ timer' = FALSE
    BY <2>1, <2>4, ProcessorStarts DEF Downs
  <2>. QED  BY <1>5, <2>2, <2>3, <2>4 DEF Commit, Process
<1>6. ASSUME NEW logs, logs \subseteq Logs, StartServer(logs), ~up, on'
      PROVE  Downs'
  <2>1. up' /\ proc.progress = "idle" /\ proc.current = NoLog /\ proc.impl = 0 /\ ~timer
    BY <1>6, StartServerSets DEF Downs
  <2>2. CASE timer' = TRUE /\ proc' = proc
    BY <1>6, <2>1, <2>2 DEF Downs
  <2>3. CASE timer' = timer /\ StartProcessing
    BY <1>6, <2>1, <2>3, ProcessorStarts DEF Downs
  <2>. QED  BY <1>6, <2>2, <2>3, StartServerSets
<1>7. CASE Launch
  <2>1. swi \subseteq Logs /\ on'  BY <1>7 DEF LogTypes, Launch
  <2>. QED  BY <1>6, <1>7, <2>1 DEF Launch
<1>8. CASE Boot
  <2>. DEFINE kept == {f \in swi : fate[f] # "open"}
  <2>1. kept \subseteq Logs /\ on' /\ ~up  BY <1>1, <1>8 DEF LogTypes, Boot, Downs
  <2>2. StartServer(kept) \/ UNCHANGED <<up, timer, proc>>  BY <1>8 DEF Boot
  <2>3. CASE UNCHANGED <<up, timer, proc>>
    BY <2>1, <2>3 DEF Downs
  <2>. HIDE DEF kept
  <2>. QED  BY <1>6, <2>1, <2>2, <2>3
<1>9. CASE Exit \/ Crash
  <2>1. proc' = Reset("idle") /\ ~up' /\ ~timer'  BY <1>9 DEF Exit, Crash, ServerGone
  <2>2. ~on' => \A c \in Clients : cl'[c] = "out" /\ file'[c] = NoLog
    BY <1>9 DEF Exit, Crash, client, Downs
  <2>. QED  BY <2>1, <2>2 DEF Downs, Reset
<1>10. ASSUME NEW state, InState(state) PROVE up /\ on /\ ~timer /\ proc.progress # "idle"
  BY <1>1, <1>10 DEF InState, Downs
<1>11. CASE RestoreCompleted
  <2>2. /\ proc'.current = proc.current /\ proc'.impl = proc.impl
        /\ proc'.progress # "idle" /\ proc'.state \in {"restore", "nextlog"}
    BY <1>11, ProcessorStarts DEF RestoreCompleted
  <2>3. up /\ on /\ ~timer /\ proc.current = NoLog /\ proc.impl = 0
    BY <1>10, <1>11 DEF RestoreCompleted, InState, Downs
  <2>. QED  BY <1>11, <2>2, <2>3 DEF RestoreCompleted, Downs
<1>12. CASE NextLogFile \/ LogFileFails
  <2>1. up /\ on /\ ~timer /\ proc.impl = 0 /\ proc.progress # "idle" /\ proc.state = "nextlog"
    BY <1>10, <1>12 DEF NextLogFile, LogFileFails, InState, Downs
  <2>2. \A f \in Full : f # NoLog  BY DEF Full, Ready, LogTypes, Logs
  <2>3. /\ proc'.progress = proc.progress /\ proc'.impl = proc.impl
        /\ \/ proc'.state = "nextplugin" /\ proc'.current # NoLog
           \/ proc'.state = "complete"
           \/ proc'.state = "nextlog"
    <3>1. CASE LogFileFails
      BY <1>1, <2>1, <3>1 DEF LogFileFails, ProcType
    <3>2. CASE proc' = [proc EXCEPT !.state = "complete", !.current = NoLog]
      BY <1>1, <3>2 DEF ProcType
    <3>3. ASSUME NEW f \in Full,
                 proc' = [proc EXCEPT !.state = "nextplugin", !.current = f, !.pos = 0]
          PROVE  /\ proc'.progress = proc.progress /\ proc'.impl = proc.impl
                 /\ proc'.state = "nextplugin" /\ proc'.current # NoLog
      BY <1>1, <2>2, <3>3 DEF ProcType
    <3>. QED  BY <1>12, <3>1, <3>2, <3>3 DEF NextLogFile
  <2>4. UNCHANGED <<up, timer, on>>  BY <1>12 DEF NextLogFile, LogFileFails
  <2>. QED  BY <2>1, <2>3, <2>4 DEF Downs
<1>13. CASE NextPlugin \/ GiveUp
  <2>1. /\ up /\ on /\ ~timer /\ proc.progress # "idle" /\ proc.current # NoLog
        /\ UNCHANGED <<up, timer, on>>
    BY <1>10, <1>13 DEF NextPlugin, GiveUp, InState, Downs
  <2>2. /\ proc'.progress = proc.progress /\ proc'.current = proc.current
        /\ \/ proc'.state = "nextlog" /\ proc'.impl = 0
           \/ proc'.state \in {"process", "nextplugin"} /\ proc'.impl # 0
    <3>1. CASE GiveUp  BY <1>1, <3>1 DEF GiveUp, ProcType
    <3>2. CASE proc' = [proc EXCEPT !.impl = 0, !.state = "nextlog"]
      BY <1>1, <3>2 DEF ProcType
    <3>3. CASE proc' = [proc EXCEPT !.impl = @ + 1, !.state = "process"]
      BY <1>1, <3>3, Bounds DEF ProcType
    <3>4. CASE NextPlugin /\ proc' = [proc EXCEPT !.impl = @ + 1]
      BY <1>1, <3>4, Bounds DEF NextPlugin, InState, ProcType
    <3>. QED  BY <1>13, <3>1, <3>2, <3>3, <3>4 DEF NextPlugin
  <2>. QED  BY <2>1, <2>2 DEF Downs
<1>14. CASE Notify \/ Finalize
  <2>1. /\ up /\ on /\ ~timer /\ proc.progress # "idle" /\ proc.current # NoLog
        /\ proc.impl # 0 /\ proc.state = "process" /\ UNCHANGED <<up, timer, on>>
    BY <1>10, <1>14 DEF Notify, Finalize, InState, Downs
  <2>2. /\ proc'.progress = proc.progress /\ proc'.current = proc.current
        /\ proc'.impl = proc.impl /\ proc'.state \in {"process", "nextplugin"}
    <3>1. CASE Finalize  BY <1>1, <3>1 DEF Finalize, ProcType
    <3>2. CASE Notify  BY <1>1, <2>1, <3>2 DEF Notify, ProcType
    <3>. QED  BY <1>14, <3>1, <3>2
  <2>. QED  BY <2>1, <2>2 DEF Downs
<1>15. CASE CompleteProcess \/ RunError
  <2>1. up /\ on /\ UNCHANGED <<up, on>>  BY <1>10, <1>15 DEF CompleteProcess, RunError
  <2>2. proc' = Reset("complete") \/ proc' = Reset("idle")
    BY <1>15 DEF CompleteProcess, RunError
  <2>. QED  BY <2>1, <2>2 DEF Downs, Reset
<1>16. CASE BackupStarts \/ BackupEnds
  BY <1>16 DEF BackupStarts, BackupEnds, Downs, server, client
<1>. QED
  BY <1>3, <1>4, <1>5, <1>7, <1>8, <1>9, <1>11, <1>12, <1>13, <1>14, <1>15, <1>16
     DEF Next, Request

\* What a RunL of the processor does to its record: it goes on with its log, ...
LEMMA GoesOn ==
    ASSUME LogTypes, Notify \/ Finalize \/ GiveUp \/ NextPlugin
    PROVE  /\ up /\ proc.progress # "idle"
           /\ proc'.progress = proc.progress /\ proc'.current = proc.current
           /\ proc'.state \in {"nextlog", "nextplugin", "process"}
<1>1. proc \in ProcType  BY DEF LogTypes
<1>2. CASE Notify
  BY <1>1, <1>2 DEF Notify, InState, ProcType
<1>3. CASE Finalize
  BY <1>1, <1>3 DEF Finalize, InState, ProcType
<1>4. CASE GiveUp
  BY <1>1, <1>4 DEF GiveUp, InState, ProcType
<1>5. CASE NextPlugin
  <2>1. CASE proc' = [proc EXCEPT !.impl = 0, !.state = "nextlog"]
    BY <1>1, <1>5, <2>1 DEF NextPlugin, InState, ProcType
  <2>2. CASE proc' = [proc EXCEPT !.impl = @ + 1, !.state = "process"]
    BY <1>1, <1>5, <2>2 DEF NextPlugin, InState, ProcType
  <2>3. CASE proc' = [proc EXCEPT !.impl = @ + 1]
    BY <1>1, <1>5, <2>3 DEF NextPlugin, InState, ProcType
  <2>. QED  BY <1>5, <2>1, <2>2, <2>3 DEF NextPlugin
<1>. QED  BY <1>2, <1>3, <1>4, <1>5

\* ... has no log any more, ...
LEMMA Drops ==
    ASSUME LogTypes, LogFileFails \/ CompleteProcess \/ RunError
    PROVE  up /\ proc.progress # "idle" /\ proc'.current = NoLog
<1>1. proc \in ProcType  BY DEF LogTypes
<1>2. CASE LogFileFails
  BY <1>1, <1>2 DEF LogFileFails, InState, ProcType
<1>3. CASE CompleteProcess
  BY <1>3 DEF CompleteProcess, InState, Reset
<1>4. CASE RunError
  BY <1>4 DEF RunError, InState, Reset
<1>. QED  BY <1>2, <1>3, <1>4

\* ... or takes the next one.
LEMMA Takes ==
    ASSUME LogTypes, NextLogFile
    PROVE  /\ up /\ proc.progress # "idle" /\ proc.state = "nextlog"
           /\ proc'.progress = proc.progress /\ proc'.impl = proc.impl
           /\ \/ \E f \in Full, empty \in SUBSET (Ready \ Full) :
                    /\ swi' = swi \ (empty \cup {f}) /\ obs' = Processed \cup {f}
                    /\ proc'.state = "nextplugin" /\ proc'.current = f
              \/ /\ swi' = swi \ Ready /\ obs' = Processed
                 /\ proc'.state = "complete" /\ proc'.current = NoLog
<1>1. proc \in ProcType  BY DEF LogTypes
<1>2. up /\ proc.progress # "idle" /\ proc.state = "nextlog"  BY DEF NextLogFile, InState
<1>3. CASE \E f \in Full, empty \in SUBSET (Ready \ Full) :
              /\ swi' = swi \ (empty \cup {f})
              /\ obs' = Processed \cup {f}
              /\ proc' = [proc EXCEPT !.state = "nextplugin", !.current = f, !.pos = 0]
  <2>1. PICK f \in Full, empty \in SUBSET (Ready \ Full) :
              /\ swi' = swi \ (empty \cup {f})
              /\ obs' = Processed \cup {f}
              /\ proc' = [proc EXCEPT !.state = "nextplugin", !.current = f, !.pos = 0]
    BY <1>3
  <2>2. /\ proc'.progress = proc.progress /\ proc'.impl = proc.impl
        /\ proc'.state = "nextplugin" /\ proc'.current = f
    BY <1>1, <2>1 DEF ProcType
  <2>3. \E e \in SUBSET (Ready \ Full) :
           swi' = swi \ (e \cup {f}) /\ obs' = Processed \cup {f}
    BY <2>1
  <2>. QED  BY <1>2, <2>2, <2>3
<1>4. CASE /\ swi' = swi \ Ready /\ obs' = Processed
           /\ proc' = [proc EXCEPT !.state = "complete", !.current = NoLog]
  <2>1. /\ proc'.progress = proc.progress /\ proc'.impl = proc.impl
        /\ proc'.state = "complete" /\ proc'.current = NoLog
    BY <1>1, <1>4 DEF ProcType
  <2>. QED  BY <1>2, <1>4, <2>1
<1>. QED  BY <1>3, <1>4 DEF NextLogFile

\* ProcessorCompleted changes one client.
LEMMA Wakes ==
    ASSUME LogTypes, ProcessorCompleted
    PROVE  \A c \in Clients : cl'[c] = cl[c] \/ cl'[c] = "registered"
BY DEF LogTypes, ProcessorCompleted

\* What is taken out of log_swi is not open.
LEMMA ReadyIsClosed ==
    ASSUME NEW c \in Clients, Opens(c) PROVE file[c] \notin Ready /\ Full \subseteq Ready
BY DEF Opens, Ready, Full, Open

LEMMA PlacesStep ==
    ASSUME LogTypes, Downs, Places, Next
    PROVE  Places'
<1>. USE DEF NoLog
<1>1. /\ swi \subseteq Logs /\ Logs \subseteq Nat /\ high \in Nat /\ 0 \notin Logs
      /\ cl \in [Clients -> ClientStates] /\ file \in [Clients -> Logs \cup {NoLog}]
      /\ proc.current \in Nat /\ up \in BOOLEAN
  BY Bounds DEF LogTypes, Logs, ProcType
<1>2. /\ \A c \in Clients : Opens(c) => file[c] \in swi
      /\ \A c \in Clients : cl[c] = "leaving" => file[c] # NoLog
      /\ proc.current \notin swi
      /\ up => (\A f \in swi : f <= high) /\ proc.current <= high
  BY DEF Places
<1>3. ASSUME proc'.current = proc.current, UNCHANGED <<swi, up, high, cl, file>>
      PROVE  Places'
  BY <1>2, <1>3 DEF Places, Opens
<1>4. ASSUME NEW c \in Clients, Register(c) \/ Record(c) \/ Decide(c) \/ Leave(c)
      PROVE  Places'
  <2>1. UNCHANGED <<swi, up, high, proc>>
    BY <1>4 DEF Register, Record, Decide, Leave, durable, server
  <2>2. \A d \in Clients \ {c} : cl'[d] = cl[d] /\ file'[d] = file[d]
    BY <1>1, <1>4 DEF Register, Record, Decide, Leave
  <2>3. /\ Opens(c)' => Opens(c) /\ file'[c] = file[c]
        /\ cl'[c] = "leaving" => Opens(c) /\ file'[c] = file[c]
    BY <1>1, <1>4 DEF Register, Record, Decide, Leave, Opens
  <2>. QED  BY <1>1, <1>2, <2>1, <2>2, <2>3 DEF Places, Opens
<1>5. ASSUME NEW c \in Clients, Transfer(c) \/ TransferFails(c)
      PROVE  Places'
  <2>1. /\ up /\ UNCHANGED <<up, proc>> /\ high' = high + 1 /\ swi' = swi \cup {high'}
        /\ file' = [file EXCEPT ![c] = high'] /\ high' \in Nat
        /\ cl' = [cl EXCEPT ![c] = "holding"] \/ cl' = [cl EXCEPT ![c] = "refused"]
    BY <1>1, <1>5 DEF Transfer, TransferFails, CreateLog
  <2>2. \A d \in Clients \ {c} : cl'[d] = cl[d] /\ file'[d] = file[d]
    BY <1>1, <2>1
  <2>3. file'[c] = high' /\ cl'[c] # "leaving"  BY <1>1, <2>1
  <2>4. (\A f \in swi' : f <= high') /\ proc'.current <= high' /\ proc'.current \notin swi'
    BY <1>1, <1>2, <2>1
  <2>. QED  BY <1>2, <2>1, <2>2, <2>3, <2>4 DEF Places, Opens
<1>6. ASSUME NEW c \in Clients, Commit(c) \/ CommitFails(c)
      PROVE  Places'
  <2>1. /\ UNCHANGED <<swi, up, high>> /\ cl' = [cl EXCEPT ![c] = "done"]
        /\ file' = [file EXCEPT ![c] = NoLog]
    BY <1>6 DEF Commit, CommitFails, durable
  <2>2. proc'.current = proc.current
    BY <1>6, ProcessorStarts DEF Commit, CommitFails, Process
  <2>. QED  BY <1>1, <1>2, <2>1, <2>2 DEF Places, Opens
<1>7. ASSUME NEW c \in Clients, RollBack(c)
      PROVE  Places'
  <2>1. /\ UNCHANGED <<up, high, proc>> /\ cl' = [cl EXCEPT ![c] = "out"]
        /\ file' = [file EXCEPT ![c] = NoLog]
        /\ swi' = swi \/ (~Open(file[c]) /\ swi' = swi \ {file[c]})
    BY <1>7 DEF RollBack, server
  <2>2. ASSUME NEW d \in Clients, d # c, Opens(d) PROVE file[d] \in swi'
    BY <1>2, <2>1, <2>2 DEF Open, Opens
  <2>. QED  BY <1>1, <1>2, <2>1, <2>2 DEF Places, Opens
<1>8. ASSUME NEW logs, logs \subseteq swi, StartServer(logs), ~up, UNCHANGED <<cl, file>>,
             \A c \in Clients : Opens(c) => file[c] \in logs
      PROVE  Places'
  <2>1. /\ up' = TRUE /\ swi' = logs /\ high' \in Nat /\ \A f \in logs : f <= high'
        /\ proc' = proc \/ StartProcessing
    <3>1. logs \subseteq Logs  BY <1>1, <1>8
    <3>2. /\ up' = TRUE /\ swi' = logs /\ high' \in 0 .. MaxLogs /\ \A f \in logs : f <= high'
          /\ proc' = proc \/ StartProcessing
      BY <1>8, <3>1, StartServerSets
    <3>3. 0 .. MaxLogs \subseteq Nat  BY Bounds
    <3>. QED  BY <3>2, <3>3
  <2>2. proc.current = NoLog /\ proc'.current = proc.current
    BY <1>8, <2>1, ProcessorStarts DEF Downs
  <2>. QED  BY <1>1, <1>2, <1>8, <2>1, <2>2 DEF Places, Opens
<1>9. CASE Launch
  BY <1>2, <1>8, <1>9 DEF Launch, client
<1>10. CASE Boot
  <2>. DEFINE kept == {f \in swi : fate[f] # "open"}
  <2>1. /\ kept \subseteq swi /\ ~up /\ UNCHANGED <<cl, file>> /\ proc.current = NoLog
        /\ \A c \in Clients : cl[c] = "out"
    BY <1>10 DEF Boot, Downs, client
  <2>2. StartServer(kept) \/ (swi' = kept /\ UNCHANGED <<up, high, proc>>)
    BY <1>10 DEF Boot
  <2>. HIDE DEF kept
  <2>3. CASE swi' = kept /\ UNCHANGED <<up, high, proc>>
    BY <1>1, <2>1, <2>3 DEF Places, Opens
  <2>4. CASE StartServer(kept)
    BY <1>8, <2>1, <2>4 DEF Opens
  <2>. QED  BY <2>2, <2>3, <2>4
<1>11. CASE Exit \/ Crash
  <2>1. proc' = Reset("idle") /\ ~up' /\ swi' = swi
    BY <1>11 DEF Exit, Crash, ServerGone, durable
  <2>2. \A c \in Clients : cl'[c] = "out" \/ (cl'[c] = cl[c] /\ file'[c] = file[c])
    BY <1>11 DEF Exit, Crash, client
  <2>. QED  BY <1>1, <1>2, <2>1, <2>2 DEF Places, Opens, Reset
<1>12. CASE RestoreCompleted \/ BackupStarts \/ BackupEnds
  <2>1. proc'.current = proc.current
    BY <1>12, ProcessorStarts DEF RestoreCompleted, BackupStarts, BackupEnds, server
  <2>. QED
    BY <1>3, <1>12, <2>1 DEF RestoreCompleted, BackupStarts, BackupEnds, server, client, durable
<1>13. CASE NextPlugin \/ GiveUp \/ Notify \/ Finalize
  BY <1>3, <1>13, GoesOn DEF NextPlugin, GiveUp, Notify, Finalize, client, durable
<1>14. CASE NextLogFile
  <2>1. UNCHANGED <<up, high, cl, file>>  BY <1>14 DEF NextLogFile, client
  <2>2. Ready \subseteq swi  BY DEF Ready
  <2>3. \/ \E f \in Full, empty \in SUBSET (Ready \ Full) :
              swi' = swi \ (empty \cup {f}) /\ proc'.current = f
        \/ swi' = swi \ Ready /\ proc'.current = NoLog
    BY <1>14, Takes
  <2>4. /\ swi' \subseteq swi /\ swi \ Ready \subseteq swi' /\ proc'.current \notin swi'
        /\ proc'.current \in swi \cup {NoLog}
    BY <1>1, <2>2, <2>3 DEF Full
  <2>5. \A c \in Clients : Opens(c) => file[c] \in swi'  BY <1>2, <2>4, ReadyIsClosed
  <2>6. ASSUME up' PROVE (\A f \in swi' : f <= high') /\ proc'.current <= high'
    <3>1. (\A f \in swi : f <= high) /\ 0 <= high  BY <1>1, <1>2, <2>1, <2>6
    <3>. QED  BY <2>1, <2>4, <3>1
  <2>. QED  BY <1>2, <2>1, <2>4, <2>5, <2>6 DEF Places, Opens
<1>15. CASE LogFileFails \/ CompleteProcess \/ RunError
  <2>1. UNCHANGED <<up, high, file>> /\ proc'.current = NoLog
    BY <1>15, Drops DEF LogFileFails, CompleteProcess, RunError, client
  <2>2. \A c \in Clients : cl'[c] = cl[c] \/ cl'[c] = "registered"
    BY <1>15, Wakes DEF LogFileFails, CompleteProcess, RunError, client
  <2>3. swi' \subseteq swi /\ swi \ Ready \subseteq swi'
    BY <1>15 DEF LogFileFails, CompleteProcess, RunError, Full
  <2>. QED  BY <1>1, <1>2, <2>1, <2>2, <2>3, ReadyIsClosed DEF Places, Opens
<1>. QED
  BY <1>4, <1>5, <1>6, <1>7, <1>9, <1>10, <1>11, <1>12, <1>13, <1>14, <1>15 DEF Next, Request

-----------------------------------------------------------------------------
(* What the plugins have heard.                                               *)

LEMMA HeardStep ==
    ASSUME LogTypes, Downs, Places, HeardSoFar, Next
    PROVE  HeardSoFar'
<1>. USE DEF NoLog
<1>1. /\ proc \in ProcType /\ told \in ToldType /\ high \in Nat /\ swi \subseteq Logs
      /\ content \in [Logs -> Contents \cup {<<>>}] /\ Plugins \in Nat /\ Logs \subseteq Nat
      /\ file \in [Clients -> Logs \cup {NoLog}]
  BY Bounds DEF LogTypes, Logs
<1>2. NoFault' => NoFault  BY NoMishapBefore
<1>3. ASSUME proc'.progress = "idle" \/ proc'.current = NoLog
      PROVE  HeardSoFar'
  BY <1>3 DEF HeardSoFar
<1>4. ASSUME proc' = proc,
             proc.progress # "idle" /\ proc.current # NoLog =>
                told'[proc.current] = told[proc.current]
                /\ content'[proc.current] = content[proc.current]
      PROVE  HeardSoFar'
  BY <1>2, <1>4 DEF HeardSoFar, Heard, Cut
<1>5. ASSUME NEW c \in Clients, Transfer(c) \/ TransferFails(c)
      PROVE  HeardSoFar'
  <2>1. /\ up /\ UNCHANGED proc /\ high' = high + 1
        /\ content' = [content EXCEPT ![high'] = <<>>]
        /\ told' = [told EXCEPT ![high'] = [p \in 1 .. Plugins |-> <<>>]]
    BY <1>5 DEF Transfer, TransferFails, CreateLog
  <2>2. proc.current \in Logs \cup {NoLog} /\ proc.current <= high
    BY <1>1, <2>1 DEF Places, ProcType
  <2>3. proc.current # high'  BY <1>1, <2>1, <2>2
  <2>4. proc.current # NoLog => /\ told'[proc.current] = told[proc.current]
                                /\ content'[proc.current] = content[proc.current]
    BY <1>1, <2>1, <2>2, <2>3 DEF ToldType
  <2>. QED  BY <1>4, <2>1, <2>4
<1>6. ASSUME NEW c \in Clients, Record(c)
      PROVE  HeardSoFar'
  <2>1. file[c] \in swi /\ proc.current \notin swi
    BY <1>6 DEF Record, Places, Opens
  <2>2. UNCHANGED <<proc, told>> /\ \E s \in Contents : content' = [content EXCEPT ![file[c]] = s]
    BY <1>6 DEF Record, server
  <2>3. proc.current # NoLog => content'[proc.current] = content[proc.current]
    BY <1>1, <2>1, <2>2 DEF ProcType
  <2>. QED  BY <1>4, <2>2, <2>3
<1>7. ASSUME NEW c \in Clients, Register(c) \/ Decide(c) \/ Leave(c) \/ RollBack(c)
                                \/ CommitFails(c)
      PROVE  HeardSoFar'
  BY <1>4, <1>7 DEF Register, Decide, Leave, RollBack, CommitFails, durable, server, history
<1>8. ASSUME NEW c \in Clients, Commit(c)
      PROVE  HeardSoFar'
  <2>1. proc' = proc \/ proc'.current = NoLog
    BY <1>8, ProcessorStarts DEF Commit, Process, Downs
  <2>2. UNCHANGED <<told, content>>  BY <1>8 DEF Commit, durable
  <2>. QED  BY <1>3, <1>4, <2>1, <2>2
<1>9. CASE Launch
  <2>1. ~up /\ proc.current = NoLog  BY <1>9 DEF Launch, Downs
  <2>2. proc'.current = NoLog
    BY <1>1, <1>9, <2>1, StartServerSets, ProcessorStarts DEF Launch
  <2>. QED  BY <1>3, <2>2
<1>10. CASE Boot
  <2>. DEFINE kept == {f \in swi : fate[f] # "open"}
  <2>1. kept \subseteq Logs /\ proc.current = NoLog  BY <1>1, <1>10 DEF Boot, Downs
  <2>2. StartServer(kept) \/ proc' = proc  BY <1>10 DEF Boot
  <2>. HIDE DEF kept
  <2>3. proc'.current = NoLog  BY <2>1, <2>2, StartServerSets, ProcessorStarts
  <2>. QED  BY <1>3, <2>3
<1>11. CASE Exit \/ Crash
  BY <1>3, <1>11 DEF Exit, Crash, ServerGone, Reset
<1>12. CASE BackupStarts \/ BackupEnds
  BY <1>4, <1>12 DEF BackupStarts, BackupEnds, durable, server, history
<1>13. CASE RestoreCompleted
  <2>1. proc'.current = NoLog
    BY <1>13, ProcessorStarts DEF RestoreCompleted, InState, Downs
  <2>. QED  BY <1>3, <2>1
<1>14. CASE LogFileFails \/ CompleteProcess \/ RunError
  BY <1>3, <1>14, Drops
<1>15. CASE NextLogFile
  <2>1. \/ proc'.current = NoLog
        \/ proc'.state = "nextplugin" /\ proc'.impl = 0
    BY <1>15, Takes DEF Downs
  <2>. QED  BY <1>3, <2>1 DEF HeardSoFar
<1>16. CASE NextPlugin
  <2>1. SUFFICES ASSUME NoFault', proc.current # NoLog PROVE HeardSoFar'
    BY <1>16, GoesOn DEF HeardSoFar
  <2>2. \A p \in 1 .. proc.impl : Heard(proc.current, p)
    BY <1>2, <1>16, <2>1 DEF NextPlugin, InState, HeardSoFar
  <2>3. told' = told /\ proc'.current = proc.current
    BY <1>16, GoesOn DEF NextPlugin, history
  <2>4. proc.impl \in 0 .. Plugins  BY <1>1 DEF ProcType
  <2>5. CASE proc.impl < Plugins
    <3>1. ~Fault  BY <2>1, FaultShows
    <3>2. proc' = [proc EXCEPT !.impl = @ + 1, !.state = "process"]
      BY <1>16, <2>5, <3>1 DEF NextPlugin
    <3>3. proc'.state = "process" /\ proc'.impl = proc.impl + 1
      BY <1>1, <3>2 DEF ProcType
    <3>4. \A p \in 1 .. proc'.impl - 1 : Heard(proc.current, p)
      BY <2>2, <2>4, <3>3
    <3>. QED  BY <2>3, <3>3, <3>4 DEF HeardSoFar, Heard
  <2>6. CASE ~(proc.impl < Plugins)
    <3>1. proc' = [proc EXCEPT !.impl = 0, !.state = "nextlog"]
      BY <1>16, <2>6 DEF NextPlugin
    <3>2. proc'.state = "nextlog"  BY <1>1, <3>1 DEF ProcType
    <3>3. proc.impl = Plugins  BY <1>1, <2>4, <2>6
    <3>. QED  BY <2>2, <2>3, <3>2, <3>3 DEF HeardSoFar, Heard
  <2>. QED  BY <2>5, <2>6
<1>17. CASE GiveUp
  <2>1. SUFFICES ASSUME NoFault' PROVE Cut(proc.current) /\ proc'.state = "nextlog"
    BY <1>17, GoesOn DEF HeardSoFar, GiveUp, Cut, durable
  <2>2. ~Fault  BY <2>1, FaultShows
  <2>3. NextNote <= Len(Log) /\ Log[NextNote] = "bad"  BY <1>17, <2>2 DEF GiveUp
  <2>4. proc.current \in Logs
    BY <1>1, <1>17 DEF GiveUp, InState, Downs, ProcType
  <2>5. NextNote \in DOMAIN Log  BY <2>3, <2>4, NoteInLog
  <2>6. Cut(proc.current)  BY <2>3, <2>5 DEF Cut, Log
  <2>7. proc'.state = "nextlog"  BY <1>1, <1>17 DEF GiveUp, ProcType
  <2>. QED  BY <2>6, <2>7
<1>18. CASE Notify \/ Finalize
  <2>1. /\ InState("process") /\ proc.current \in Logs /\ proc.impl \in 1 .. Plugins
        /\ proc'.current = proc.current /\ proc'.progress # "idle"
    BY <1>1, <1>18, GoesOn DEF Notify, Finalize, InState, Downs, ProcType
  <2>2. SUFFICES ASSUME NoFault' PROVE HeardSoFar'
    BY DEF HeardSoFar
  <2>3. \A p \in 1 .. proc.impl - 1 : Heard(proc.current, p)
    BY <1>2, <2>1, <2>2 DEF InState, HeardSoFar, Logs
  <2>4. told[proc.current] \in [1 .. Plugins -> Seq(NoteKinds)]  BY <1>1, <2>1 DEF ToldType
  <2>5. ASSUME NEW notes, Tell(notes)
        PROVE  /\ \A p \in 1 .. proc.impl - 1 : told'[proc.current][p] = told[proc.current][p]
               /\ told'[proc.current][proc.impl] = told[proc.current][proc.impl] \o notes
    BY <1>1, <2>1, <2>4, <2>5 DEF Tell, ToldType
  <2>6. \A p \in 1 .. proc.impl - 1 : told'[proc.current][p] = told[proc.current][p]
    BY <1>18, <2>5 DEF Notify, Finalize
  <2>7. \A p \in 1 .. proc.impl - 1 : Heard(proc.current, p)'
    BY <2>1, <2>3, <2>6 DEF Heard
  <2>8. CASE Notify
    <3>1. proc'.state = "process" /\ proc'.impl = proc.impl
      BY <1>1, <2>1, <2>8 DEF Notify, InState, ProcType
    <3>. QED  BY <2>1, <2>7, <3>1 DEF HeardSoFar, Heard
  <2>9. CASE Finalize
    <3>1. proc'.state = "nextplugin" /\ proc'.impl = proc.impl
      BY <1>1, <2>9 DEF Finalize, ProcType
    <3>2. Heard(proc.current, proc.impl)'
      <4>1. told'[proc.current][proc.impl] = Append(told[proc.current][proc.impl], "final")
        <5>1. told[proc.current][proc.impl] \in Seq(NoteKinds)  BY <2>1, <2>4
        <5>2. \A s \in Seq(NoteKinds) : s \o <<"final">> = Append(s, "final")
          BY DEF NoteKinds
        <5>. QED  BY <2>5, <2>9, <5>1, <5>2 DEF Finalize
      <4>2. told[proc.current][proc.impl] \in Seq(NoteKinds)  BY <2>1, <2>4
      <4>3. \A s \in Seq(NoteKinds) : Append(s, "final") # <<>> /\ Last(Append(s, "final")) = "final"
        BY DEF Last, NoteKinds
      <4>. QED  BY <2>1, <3>1, <4>1, <4>2, <4>3 DEF Heard
    <3>3. \A p \in 1 .. proc.impl : Heard(proc.current, p)'
      <4>1. \A p \in 1 .. proc.impl : p \in 1 .. proc.impl - 1 \/ p = proc.impl  BY <2>1
      <4>. QED  BY <2>1, <2>7, <3>1, <3>2, <4>1 DEF Heard
    <3>. QED  BY <2>1, <3>1, <3>3 DEF HeardSoFar, Heard
  <2>. QED  BY <1>18, <2>8, <2>9
<1>. QED
  BY <1>5, <1>6, <1>7, <1>8, <1>9, <1>10, <1>11, <1>12, <1>13, <1>14, <1>15, <1>16, <1>17, <1>18
     DEF Next, Request

LEMMA HalfStep ==
    ASSUME LogTypes, Downs, HalfDone, Next
    PROVE  HalfDone'
<1>. USE DEF NoLog
<1>1. obs \subseteq Logs /\ 0 \notin Logs  BY DEF LogTypes, Logs
<1>2. NoFault' => NoFault  BY NoMishapBefore
<1>3. ASSUME proc' = proc, UNCHANGED <<up, obs>>
      PROVE  HalfDone'
  BY <1>2, <1>3 DEF HalfDone
<1>4. ASSUME obs' = {} \/ ~up' PROVE HalfDone'
  BY <1>4 DEF HalfDone
<1>5. ASSUME Fault PROVE HalfDone'
  BY <1>5, FaultShows DEF HalfDone
<1>6. ASSUME NEW c \in Clients, Request(c)
      PROVE  HalfDone'
  <2>1. CASE Commit(c) /\ proc.progress = "idle"
    BY <1>2, <1>4, <2>1 DEF Commit, HalfDone, durable
  <2>2. CASE CommitFails(c)
    BY <1>5, <2>2 DEF CommitFails
  <2>3. CASE Commit(c) /\ proc.progress # "idle"
    BY <1>3, <2>3 DEF Commit, Process, durable
  <2>4. CASE Register(c) \/ Transfer(c) \/ TransferFails(c) \/ Record(c) \/ Decide(c)
             \/ Leave(c) \/ RollBack(c)
    BY <1>3, <2>4 DEF Register, Transfer, TransferFails, CreateLog, Record, Decide, Leave,
                      RollBack, durable, server
  <2>. QED  BY <1>6, <2>1, <2>2, <2>3, <2>4 DEF Request
<1>7. CASE Launch
  BY <1>4, <1>7, StartServerSets DEF Launch, LogTypes
<1>8. CASE Boot
  <2>. DEFINE kept == {f \in swi : fate[f] # "open"}
  <2>1. kept \subseteq Logs /\ ~up  BY <1>8 DEF Boot, Downs, LogTypes
  <2>2. StartServer(kept) \/ up' = up  BY <1>8 DEF Boot
  <2>. HIDE DEF kept
  <2>. QED  BY <1>4, <2>1, <2>2, StartServerSets
<1>9. CASE Exit \/ Crash
  BY <1>4, <1>9 DEF Exit, Crash, ServerGone
<1>10. CASE BackupStarts \/ BackupEnds
  BY <1>3, <1>10 DEF BackupStarts, BackupEnds, durable, server
<1>11. CASE RestoreCompleted
  BY <1>2, <1>4, <1>11 DEF RestoreCompleted, InState, HalfDone, durable
<1>12. CASE NextLogFile
  <2>1. SUFFICES ASSUME NoFault' PROVE HalfDone'
    BY DEF HalfDone
  <2>2. up /\ up' /\ proc.progress # "idle" /\ proc'.progress # "idle"
    BY <1>12, Takes DEF NextLogFile
  <2>3. Processed = {}  BY <1>2, <2>1, <2>2 DEF HalfDone, Processed
  <2>4. \/ proc'.state = "nextplugin" /\ obs' = {proc'.current}
        \/ obs' = {}
    BY <1>12, <2>3, Takes
  <2>. QED  BY <1>4, <2>2, <2>4 DEF HalfDone
<1>13. CASE NextPlugin \/ GiveUp \/ Notify \/ Finalize
  <2>1. UNCHANGED <<up, obs>>  BY <1>13 DEF NextPlugin, GiveUp, Notify, Finalize, durable
  <2>2. /\ proc'.progress # "idle" /\ proc'.current = proc.current
        /\ proc'.state \in {"nextlog", "nextplugin", "process"}
    BY <1>13, GoesOn
  <2>. QED  BY <1>2, <2>1, <2>2 DEF HalfDone
<1>14. CASE LogFileFails \/ RunError
  BY <1>5, <1>14 DEF LogFileFails, RunError
<1>15. CASE CompleteProcess
  BY <1>2, <1>4, <1>15 DEF CompleteProcess, InState, HalfDone
<1>. QED
  BY <1>6, <1>7, <1>8, <1>9, <1>10, <1>11, <1>12, <1>13, <1>14, <1>15 DEF Next

-----------------------------------------------------------------------------
(* Installations that do not overlap.                                         *)

LEMMA ActiveHasLog ==
    ASSUME LogTypes, Places, NEW c \in Clients, Active(c) PROVE file[c] \in Logs
BY DEF LogTypes, Places, Active, Opens, NoLog

\* While the processor is at work nobody has a log to write.
LEMMA NobodyActive ==
    ASSUME OneWrites, NoOverlap, proc.progress # "idle"
    PROVE  \A c \in Clients : ~Active(c)
BY DEF OneWrites

LEMMA WritesStep ==
    ASSUME LogTypes, Downs, Places, OneWrites, Next
    PROVE  OneWrites'
<1>. USE DEF NoLog
<1>1. /\ high \in Nat /\ Logs \subseteq Nat /\ 0 \notin Logs /\ proc \in ProcType
      /\ cl \in [Clients -> ClientStates] /\ file \in [Clients -> Logs \cup {NoLog}]
  BY Bounds DEF LogTypes, Logs
<1>2. SUFFICES ASSUME NoOverlap' PROVE OneWrites'
  BY DEF OneWrites
<1>3. NoOverlap  BY <1>2, NoMishapBefore
<1>4. /\ \A c \in Clients : Active(c) =>
            proc.progress = "idle" /\ \A d \in Clients \ {c} : ~Active(d)
      /\ \A c, d \in Clients : c # d /\ file[c] # NoLog => file[c] # file[d]
      /\ up => \A c \in Clients : file[c] <= high
  BY <1>3 DEF OneWrites
<1>5. ASSUME \A c \in Clients : Active(c)' => Active(c) /\ proc'.progress = "idle",
             \A c \in Clients : file'[c] = file[c] \/ file'[c] = NoLog,
             UNCHANGED <<up, high>>
      PROVE  OneWrites'
  BY <1>1, <1>4, <1>5 DEF OneWrites
<1>6. ASSUME NEW c \in Clients, Register(c) \/ Record(c) \/ Decide(c) \/ Leave(c) \/ RollBack(c)
      PROVE  OneWrites'
  <2>1. UNCHANGED <<up, high, proc>>
    BY <1>6 DEF Register, Record, Decide, Leave, RollBack, durable, server
  <2>2. \A d \in Clients : file'[d] = file[d] \/ file'[d] = NoLog
    BY <1>1, <1>6 DEF Register, Record, Decide, Leave, RollBack
  <2>3. \A d \in Clients \ {c} : cl'[d] = cl[d]
    BY <1>1, <1>6 DEF Register, Record, Decide, Leave, RollBack
  <2>4. Active(c)' => Active(c)
    BY <1>1, <1>6 DEF Register, Record, Decide, Leave, RollBack, Active
  <2>5. \A d \in Clients : Active(d)' => Active(d)  BY <2>3, <2>4 DEF Active
  <2>. QED  BY <1>4, <1>5, <2>1, <2>2, <2>5
<1>7. ASSUME NEW c \in Clients, Transfer(c) \/ TransferFails(c)
      PROVE  OneWrites'
  <2>1. /\ up /\ UNCHANGED <<up, proc>> /\ high' = high + 1
        /\ file' = [file EXCEPT ![c] = high']
    BY <1>7 DEF Transfer, TransferFails, CreateLog
  <2>2. /\ \A d \in Clients \ {c} : file'[d] = file[d] /\ cl'[d] = cl[d]
        /\ file'[c] = high'
    BY <1>1, <1>7, <2>1 DEF Transfer, TransferFails
  <2>3. \A d \in Clients : file[d] \in Nat /\ file[d] <= high
    <3>1. \A d \in Clients : file[d] \in Nat
      <4>1. Logs \cup {NoLog} \subseteq Nat  BY <1>1
      <4>2. \A d \in Clients : file[d] \in Logs \cup {NoLog}  BY <1>1
      <4>. QED  BY <4>1, <4>2
    <3>2. \A d \in Clients : file[d] <= high  BY <1>4, <2>1
    <3>. QED  BY <3>1, <3>2
  <2>4. /\ \A d, e \in Clients : d # e /\ file'[d] # NoLog => file'[d] # file'[e]
        /\ \A d \in Clients : file'[d] <= high'
    BY <1>1, <1>4, <2>1, <2>2, <2>3
  <2>5. CASE TransferFails(c)
    <3>1. cl'[c] = "refused"  BY <1>1, <2>5 DEF TransferFails
    <3>2. \A d \in Clients : Active(d)' => Active(d)  BY <2>2, <3>1 DEF Active
    <3>. QED  BY <1>4, <2>1, <2>4, <3>2 DEF OneWrites
  <2>6. CASE Transfer(c)
    <3>1. ~Beside(c)
      <4>1. Beside(c) \in BOOLEAN  BY DEF Beside
      <4>. QED  BY <1>2, <2>6, <4>1, OverlapShows DEF Transfer
    <3>2. /\ proc.progress = "idle"
          /\ \A d \in Clients \ {c} : ~Active(d)
      BY <1>1, <3>1, ActiveHasLog DEF Beside
    <3>3. \A d \in Clients \ {c} : ~Active(d)'  BY <2>2, <3>2 DEF Active
    <3>. QED  BY <2>1, <2>4, <3>2, <3>3 DEF OneWrites
  <2>. QED  BY <1>7, <2>5, <2>6
<1>8. ASSUME NEW c \in Clients, Commit(c) \/ CommitFails(c)
      PROVE  OneWrites'
  <2>1. /\ Active(c) /\ UNCHANGED <<up, high>> /\ cl' = [cl EXCEPT ![c] = "done"]
        /\ file' = [file EXCEPT ![c] = NoLog]
    BY <1>8 DEF Commit, CommitFails, Active
  <2>2. \A d \in Clients : ~Active(d)'
    BY <1>1, <1>4, <2>1 DEF Active
  <2>3. \A d \in Clients : file'[d] = file[d] \/ file'[d] = NoLog  BY <1>1, <2>1
  <2>. QED  BY <1>5, <2>1, <2>2, <2>3
<1>9. ASSUME \A c \in Clients : file[c] = NoLog, UNCHANGED <<cl, file>>, up' => high' \in Nat
      PROVE  OneWrites'
  <2>1. \A c \in Clients : ~Active(c)  BY <1>1, <1>9, ActiveHasLog
  <2>2. \A c \in Clients : ~Active(c)'  BY <1>9, <2>1 DEF Active
  <2>. QED  BY <1>9, <2>2 DEF OneWrites
<1>10. CASE Launch
  <2>1. \A c \in Clients : file[c] = NoLog
    <3>. DEFINE held == \E c \in Clients : file[c] # NoLog
    <3>1. held \in BOOLEAN /\ Overlap(held)  BY <1>10 DEF Launch
    <3>. HIDE DEF held
    <3>2. ~held  BY <1>2, <3>1, OverlapShows
    <3>. QED  BY <3>2 DEF held
  <2>2. high' \in Nat
    <3>1. high' \in 0 .. MaxLogs  BY <1>10, StartServerSets DEF Launch, LogTypes
    <3>. QED  BY <3>1, Bounds
  <2>. QED  BY <1>9, <1>10, <2>1, <2>2 DEF Launch, client
<1>11. CASE Boot
  <2>. DEFINE kept == {f \in swi : fate[f] # "open"}
  <2>1. /\ kept \subseteq Logs /\ UNCHANGED <<cl, file>>
        /\ \A c \in Clients : file[c] = NoLog
    BY <1>11 DEF Boot, Downs, LogTypes, client
  <2>2. StartServer(kept) \/ high' = high  BY <1>11 DEF Boot
  <2>. HIDE DEF kept
  <2>3. high' \in Nat
    <3>1. high' \in 0 .. MaxLogs \/ high' = high  BY <2>1, <2>2, StartServerSets
    <3>. QED  BY <1>1, <3>1, Bounds
  <2>. QED  BY <1>9, <2>1, <2>3
<1>12. CASE Exit \/ Crash
  <2>1. proc'.progress = "idle" /\ ~up'  BY <1>12 DEF Exit, Crash, ServerGone, Reset
  <2>2. \A c \in Clients : \/ cl'[c] = cl[c] /\ file'[c] = file[c]
                           \/ cl'[c] = "out" /\ file'[c] = NoLog
    BY <1>12 DEF Exit, Crash, client
  <2>. QED  BY <1>4, <2>1, <2>2 DEF OneWrites, Active
<1>13. CASE BackupStarts \/ BackupEnds
  BY <1>4, <1>5, <1>13 DEF BackupStarts, BackupEnds, server, client, Active
<1>14. CASE \/ RestoreCompleted \/ NextLogFile \/ LogFileFails \/ NextPlugin \/ GiveUp
            \/ Notify \/ Finalize \/ CompleteProcess \/ RunError
  <2>1. proc.progress # "idle"
    BY <1>14, Takes, Drops, GoesOn DEF RestoreCompleted, InState
  <2>2. \A c \in Clients : ~Active(c)  BY <1>3, <2>1, NobodyActive
  <2>3. UNCHANGED <<up, high, file>>
    BY <1>14 DEF RestoreCompleted, NextLogFile, LogFileFails, NextPlugin, GiveUp, Notify,
                 Finalize, CompleteProcess, RunError, client
  <2>4. \A c \in Clients : cl'[c] = cl[c] \/ cl'[c] = "registered"
    BY <1>14, Wakes DEF RestoreCompleted, NextLogFile, LogFileFails, NextPlugin, GiveUp,
                        Notify, Finalize, CompleteProcess, RunError, client
  <2>5. \A c \in Clients : ~Active(c)'  BY <2>2, <2>4 DEF Active
  <2>. QED  BY <1>5, <2>3, <2>5
<1>. QED
  BY <1>6, <1>7, <1>8, <1>10, <1>11, <1>12, <1>13, <1>14 DEF Next, Request

LEMMA KeptStep ==
    ASSUME LogTypes, Downs, Places, OneWrites, OnlyKept, Next
    PROVE  OnlyKept'
<1>. USE DEF NoLog
<1>1. /\ swi \subseteq Logs /\ high \in Nat /\ Logs \subseteq Nat /\ 0 \notin Logs
      /\ proc \in ProcType /\ fate \in FateType /\ told \in ToldType
      /\ content \in [Logs -> Contents \cup {<<>>}]
      /\ cl \in [Clients -> ClientStates] /\ file \in [Clients -> Logs \cup {NoLog}]
      /\ proc.current \in Logs \cup {NoLog}
  BY Bounds DEF LogTypes, Logs, ProcType
<1>2. SUFFICES ASSUME NoOverlap' PROVE OnlyKept'
  BY DEF OnlyKept
<1>3. NoOverlap  BY <1>2, NoMishapBefore
<1>4. /\ \A f \in swi : content[f] # <<>> => Safe(f)
      /\ proc.current # NoLog => fate[proc.current] \in Kept
      /\ \A c \in Clients : cl[c] = "holding" => Quiet(file[c])
      /\ \A f \in Logs : Quiet(f) \/ fate[f] \in Kept
  BY <1>3 DEF OnlyKept
\* Nothing is written, and no writer goes away.
<1>5. ASSUME swi' \subseteq swi, UNCHANGED <<content, fate, told>>,
             proc'.current = NoLog \/ proc'.current = proc.current,
             \A c \in Clients : cl'[c] = "holding" => cl[c] = "holding" /\ file'[c] = file[c],
             on' => on /\ \A c \in Clients, f \in Logs : Writes(c, f) => Writes(c, f)'
      PROVE  OnlyKept'
  <2>1. ASSUME NEW f \in swi', content'[f] # <<>> PROVE Safe(f)'
    <3>1. f \in Logs /\ Safe(f)  BY <1>1, <1>4, <1>5, <2>1
    <3>. QED  BY <1>5, <3>1 DEF Safe
  <2>2. proc'.current # NoLog => fate'[proc'.current] \in Kept  BY <1>4, <1>5
  <2>3. \A c \in Clients : cl'[c] = "holding" => Quiet(file[c])'  BY <1>4, <1>5 DEF Quiet
  <2>4. \A f \in Logs : Quiet(f)' \/ fate'[f] \in Kept  BY <1>4, <1>5 DEF Quiet
  <2>. QED  BY <2>1, <2>2, <2>3, <2>4 DEF OnlyKept
<1>6. ASSUME NEW c \in Clients, Register(c) \/ Leave(c) \/ CommitFails(c)
      PROVE  OnlyKept'
  <2>1. UNCHANGED <<swi, content, fate, told, proc, on>>
    BY <1>6 DEF Register, Leave, CommitFails, durable, history
  <2>2. \A d \in Clients \ {c} : cl'[d] = cl[d] /\ file'[d] = file[d]
    BY <1>1, <1>6 DEF Register, Leave, CommitFails
  <2>3. cl'[c] # "holding"  BY <1>1, <1>6 DEF Register, Leave, CommitFails
  <2>4. \A f \in Logs : Writes(c, f) => Writes(c, f)'
    BY <1>1, <1>6 DEF Register, Leave, CommitFails, Writes
  <2>5. \A d \in Clients, f \in Logs : Writes(d, f) => Writes(d, f)'
    BY <2>2, <2>4 DEF Writes
  <2>. QED  BY <1>5, <2>1, <2>2, <2>3, <2>5
<1>7. ASSUME NEW c \in Clients, Transfer(c) \/ TransferFails(c)
      PROVE  OnlyKept'
  <2>1. /\ up /\ cl[c] = "registered" /\ high' = high + 1 /\ high' \in Logs
        /\ swi' = swi \cup {high'} /\ content' = [content EXCEPT ![high'] = <<>>]
        /\ file' = [file EXCEPT ![c] = high'] /\ fate' = [fate EXCEPT ![high'] = "loose"]
        /\ told' = [told EXCEPT ![high'] = [p \in 1 .. Plugins |-> <<>>]]
        /\ UNCHANGED <<proc, on>>
    BY <1>1, <1>7, Bounds DEF Transfer, TransferFails, CreateLog, Logs
  <2>2. \A d \in Clients \ {c} : file'[d] = file[d] /\ cl'[d] = cl[d]
    BY <1>1, <1>7, <2>1 DEF Transfer, TransferFails
  <2>3. /\ \A d \in Clients : file[d] # high'
        /\ proc.current # high'
    <3>1. /\ \A d \in Clients : file[d] <= high /\ file[d] \in Nat
          /\ proc.current <= high /\ proc.current \in Nat
      <4>1. \A d \in Clients : file[d] <= high  BY <1>3, <2>1 DEF OneWrites
      <4>2. proc.current <= high  BY <2>1 DEF Places
      <4>3. Logs \cup {NoLog} \subseteq Nat  BY <1>1
      <4>4. \A d \in Clients : file[d] \in Logs \cup {NoLog}  BY <1>1
      <4>. QED  BY <1>1, <4>1, <4>2, <4>3, <4>4
    <3>. QED  BY <1>1, <2>1, <3>1
  <2>4. \A f \in Logs \ {high'} : /\ content'[f] = content[f] /\ fate'[f] = fate[f]
                                  /\ told'[f] = told[f]
    BY <1>1, <2>1 DEF FateType, ToldType
  <2>5. content'[high'] = <<>> /\ told'[high'] = [p \in 1 .. Plugins |-> <<>>]
    BY <1>1, <2>1 DEF ToldType
  <2>6. ASSUME NEW f \in swi', content'[f] # <<>> PROVE Safe(f)'
    <3>1. f \in swi /\ f \in Logs \ {high'} /\ content[f] # <<>>
      BY <1>1, <2>1, <2>4, <2>5, <2>6
    <3>2. Safe(f)  BY <1>4, <3>1
    <3>3. \A d \in Clients : Writes(d, f) => Writes(d, f)'
      BY <2>1, <2>2 DEF Writes
    <3>. QED  BY <2>1, <2>4, <3>1, <3>2, <3>3 DEF Safe
  <2>7. proc'.current # NoLog => fate'[proc'.current] \in Kept
    BY <1>1, <1>4, <2>1, <2>3, <2>4
  <2>8. ASSUME NEW d \in Clients, cl'[d] = "holding" PROVE Quiet(file[d])'
    <3>1. CASE d = c
      <4>1. file'[c] = high'  BY <1>1, <2>1
      <4>. QED  BY <2>5, <3>1, <4>1 DEF Quiet
    <3>2. CASE d # c
      <4>1. /\ cl[d] = "holding" /\ file'[d] = file[d] /\ Quiet(file[d])
        BY <1>4, <2>2, <2>8, <3>2
      <4>2. file[d] \in Logs \ {high'}
        <5>1. Active(d)  BY <4>1 DEF Active
        <5>. QED  BY <2>3, <5>1, ActiveHasLog
      <4>. QED  BY <2>4, <4>1, <4>2 DEF Quiet
    <3>. QED  BY <3>1, <3>2
  <2>9. ASSUME NEW f \in Logs PROVE Quiet(f)' \/ fate'[f] \in Kept
    <3>1. CASE f = high'  BY <2>5, <3>1 DEF Quiet
    <3>2. CASE f # high'  BY <1>4, <2>4, <3>2 DEF Quiet
    <3>. QED  BY <3>1, <3>2
  <2>. QED  BY <2>6, <2>7, <2>8, <2>9 DEF OnlyKept
<1>8. ASSUME NEW c \in Clients, Record(c)
      PROVE  OnlyKept'
  <2>1. /\ cl[c] = "holding" /\ cl' = [cl EXCEPT ![c] = "recording"]
        /\ fate' = [fate EXCEPT ![file[c]] = "open"]
        /\ \E s \in Contents : content' = [content EXCEPT ![file[c]] = s]
        /\ UNCHANGED <<swi, told, proc, on, file>>
    BY <1>8 DEF Record, server
  <2>2. file[c] \in swi /\ file[c] \in Logs /\ file[c] # proc.current /\ Quiet(file[c])
    BY <1>1, <1>4, <2>1 DEF Places, Opens
  <2>3. /\ \A d \in Clients \ {c} : cl'[d] = cl[d]
        /\ cl'[c] = "recording"
        /\ fate'[file[c]] = "open"
        /\ \A f \in Logs \ {file[c]} : content'[f] = content[f] /\ fate'[f] = fate[f]
    BY <1>1, <2>1, <2>2 DEF FateType
  <2>4. ASSUME NEW f \in swi', content'[f] # <<>> PROVE Safe(f)'
    <3>1. CASE f = file[c]
      <4>1. Writes(c, f)'  BY <2>1, <2>3, <3>1 DEF Writes
      <4>. QED  BY <2>3, <3>1, <4>1 DEF Safe
    <3>2. CASE f # file[c]
      <4>1. f \in Logs \ {file[c]} /\ Safe(f)  BY <1>1, <1>4, <2>1, <2>3, <2>4, <3>2
      <4>2. \A d \in Clients : Writes(d, f) => Writes(d, f)'
        BY <2>1, <2>3 DEF Writes
      <4>. QED  BY <2>1, <2>3, <4>1, <4>2 DEF Safe
    <3>. QED  BY <3>1, <3>2
  <2>5. proc'.current # NoLog => fate'[proc'.current] \in Kept
    BY <1>1, <1>4, <2>1, <2>2, <2>3
  <2>6. \A d \in Clients : cl'[d] = "holding" => Quiet(file[d])'
    BY <1>4, <2>1, <2>3 DEF Quiet
  <2>7. \A f \in Logs : Quiet(f)' \/ fate'[f] \in Kept
    BY <1>4, <2>1, <2>2, <2>3 DEF Quiet
  <2>. QED  BY <2>4, <2>5, <2>6, <2>7 DEF OnlyKept
<1>9. ASSUME NEW c \in Clients, Decide(c) \/ Commit(c)
      PROVE  OnlyKept'
  <2>1. /\ cl[c] \in {"recording", "decided"}
        /\ \/ fate' = [fate EXCEPT ![file[c]] = "committed"]
           \/ fate' = [fate EXCEPT ![file[c]] = "handed"]
        /\ UNCHANGED <<swi, content, told, on>>
    BY <1>9 DEF Decide, Commit, durable
  <2>2. file[c] \in Logs
    <3>1. Active(c)  BY <2>1 DEF Active
    <3>. QED  BY <3>1, ActiveHasLog
  <2>3. /\ fate'[file[c]] \in Kept
        /\ \A f \in Logs \ {file[c]} : fate'[f] = fate[f]
    BY <1>1, <2>1, <2>2 DEF FateType, Kept
  <2>4. /\ \A d \in Clients \ {c} : cl'[d] = cl[d] /\ file'[d] = file[d]
        /\ cl'[c] # "holding"
    BY <1>1, <1>9 DEF Decide, Commit
  <2>5. proc'.current = proc.current
    BY <1>9, ProcessorStarts DEF Decide, Commit, Process, server
  <2>6. ASSUME NEW f \in swi', content'[f] # <<>> PROVE Safe(f)'
    <3>1. CASE f = file[c]  BY <2>3, <3>1 DEF Safe
    <3>2. CASE f # file[c]
      <4>1. f \in Logs \ {file[c]} /\ Safe(f)  BY <1>1, <1>4, <2>1, <2>6, <3>2
      <4>2. \A d \in Clients : Writes(d, f) => Writes(d, f)'
        BY <2>4, <3>2 DEF Writes
      <4>. QED  BY <2>1, <2>3, <4>1, <4>2 DEF Safe
    <3>. QED  BY <3>1, <3>2
  <2>7. proc'.current # NoLog => fate'[proc'.current] \in Kept
    BY <1>1, <1>4, <2>3, <2>5
  <2>8. \A d \in Clients : cl'[d] = "holding" => Quiet(file[d])'
    BY <1>4, <2>1, <2>4 DEF Quiet
  <2>9. \A f \in Logs : Quiet(f)' \/ fate'[f] \in Kept
    BY <1>4, <2>1, <2>3 DEF Quiet
  <2>. QED  BY <2>6, <2>7, <2>8, <2>9 DEF OnlyKept
<1>10. ASSUME NEW c \in Clients, RollBack(c)
       PROVE  OnlyKept'
  <2>1. /\ cl[c] = "leaving" /\ cl' = [cl EXCEPT ![c] = "out"]
        /\ file' = [file EXCEPT ![c] = NoLog]
        /\ UNCHANGED <<content, told, proc, on>>
    BY <1>10 DEF RollBack, server
  <2>2. file[c] \in Logs
    <3>1. Active(c)  BY <2>1 DEF Active
    <3>. QED  BY <3>1, ActiveHasLog
  <2>3. ~Open(file[c])
    <3>1. SUFFICES ASSUME NEW d \in Clients, file[d] = file[c],
                          cl[d] \in {"holding", "refused", "recording", "decided"}
                   PROVE  FALSE
      BY DEF Open
    <3>2. d # c  BY <2>1, <3>1
    <3>. QED  BY <1>1, <1>3, <2>2, <3>1, <3>2 DEF OneWrites
  <2>4. /\ swi' = swi \ {file[c]}
        /\ fate' = [fate EXCEPT ![file[c]] = IF @ = "open" THEN "undone" ELSE @]
    BY <1>10, <2>3 DEF RollBack
  <2>5. \A f \in Logs : /\ fate[f] \in Kept => fate'[f] = fate[f]
                        /\ f # file[c] => fate'[f] = fate[f]
    BY <1>1, <2>2, <2>4 DEF FateType, Kept
  <2>6. /\ \A d \in Clients \ {c} : cl'[d] = cl[d] /\ file'[d] = file[d]
        /\ cl'[c] = "out"
    BY <1>1, <2>1
  <2>7. ASSUME NEW f \in swi', content'[f] # <<>> PROVE Safe(f)'
    <3>1. f \in Logs /\ f # file[c] /\ Safe(f)  BY <1>1, <1>4, <2>1, <2>4, <2>7
    <3>2. \A d \in Clients : Writes(d, f) => Writes(d, f)'
      BY <2>6, <3>1 DEF Writes
    <3>. QED  BY <2>1, <2>5, <3>1, <3>2 DEF Safe
  <2>8. proc'.current # NoLog => fate'[proc'.current] \in Kept
    BY <1>1, <1>4, <2>1, <2>5
  <2>9. \A d \in Clients : cl'[d] = "holding" => Quiet(file[d])'
    BY <1>4, <2>1, <2>6 DEF Quiet
  <2>10. \A f \in Logs : Quiet(f)' \/ fate'[f] \in Kept
    BY <1>4, <2>1, <2>5 DEF Quiet
  <2>. QED  BY <2>7, <2>8, <2>9, <2>10 DEF OnlyKept
<1>11. CASE Launch
  <2>1. ~up /\ on /\ on' /\ proc.current = NoLog /\ UNCHANGED <<content, fate, told, cl, file>>
    BY <1>11 DEF Launch, Downs, client, history
  <2>2. swi' = swi /\ proc'.current = proc.current
    BY <1>1, <1>11, StartServerSets, ProcessorStarts DEF Launch
  <2>. QED  BY <1>5, <2>1, <2>2 DEF Writes
<1>12. CASE Boot
  <2>. DEFINE kept == {f \in swi : fate[f] # "open"}
  <2>1. /\ kept \subseteq Logs /\ proc.current = NoLog
        /\ \A c \in Clients : cl'[c] = "out"
        /\ UNCHANGED <<content, told>>
        /\ \A f \in Logs : fate[f] # "open" => fate'[f] = fate[f]
    BY <1>1, <1>12 DEF Boot, Downs, client
  <2>2. StartServer(kept) \/ (swi' = kept /\ proc' = proc)  BY <1>12 DEF Boot
  <2>3. swi' = kept /\ proc'.current = NoLog
    <3>. HIDE DEF kept
    <3>. QED  BY <2>1, <2>2, StartServerSets, ProcessorStarts
  <2>4. ASSUME NEW f \in swi', content'[f] # <<>> PROVE Safe(f)'
    <3>1. f \in Logs /\ fate[f] # "open" /\ Safe(f)  BY <1>1, <1>4, <2>1, <2>3, <2>4
    <3>. QED  BY <2>1, <3>1 DEF Safe
  <2>5. \A f \in Logs : Quiet(f)' \/ fate'[f] \in Kept
    BY <1>4, <2>1 DEF Quiet, Kept
  <2>. QED  BY <2>1, <2>3, <2>4, <2>5 DEF OnlyKept
<1>13. CASE Exit \/ Crash
  <2>1. /\ UNCHANGED <<swi, content, fate, told>> /\ proc'.current = NoLog
        /\ \A c \in Clients : cl'[c] = "holding" => cl[c] = "holding" /\ file'[c] = file[c]
        /\ on' => on /\ UNCHANGED <<cl, file>>
    BY <1>13 DEF Exit, Crash, ServerGone, Reset, durable, history, client
  <2>. QED  BY <1>5, <2>1 DEF Writes
<1>14. CASE BackupStarts \/ BackupEnds
  BY <1>5, <1>14 DEF BackupStarts, BackupEnds, durable, server, client, history, Writes
<1>15. ASSUME up, proc.progress # "idle"
       PROVE  /\ on /\ \A c \in Clients : cl[c] # "holding" /\ \A f \in Logs : ~Writes(c, f)
              /\ \A f \in swi : content[f] # <<>> => fate[f] \in Kept
  <2>1. on  BY <1>15 DEF Downs
  <2>2. \A c \in Clients : ~Active(c)  BY <1>3, <1>15, NobodyActive
  <2>3. \A c \in Clients : cl[c] # "holding" /\ \A f \in Logs : ~Writes(c, f)
    BY <2>2 DEF Active, Writes
  <2>. QED  BY <1>1, <1>4, <2>1, <2>3 DEF Safe
<1>16. CASE RestoreCompleted \/ NextPlugin
  <2>1. proc'.current = proc.current
    BY <1>16, GoesOn, ProcessorStarts DEF RestoreCompleted
  <2>. QED
    BY <1>5, <1>16, <2>1 DEF RestoreCompleted, NextPlugin, durable, client, history, Writes
<1>17. CASE LogFileFails \/ CompleteProcess
  <2>1. /\ up /\ proc.progress # "idle" /\ proc'.current = NoLog
        /\ swi' \subseteq swi /\ UNCHANGED <<content, fate, told, on, file>>
    BY <1>17, Drops DEF LogFileFails, CompleteProcess, client, history
  <2>2. \A c \in Clients : cl'[c] = cl[c] \/ cl'[c] = "registered"
    BY <1>17, Wakes DEF LogFileFails, CompleteProcess, client
  <2>. QED  BY <1>5, <1>15, <2>1, <2>2
<1>18. CASE NextLogFile
  <2>1. /\ up /\ proc.progress # "idle" /\ UNCHANGED <<content, fate, told, on, cl, file>>
    BY <1>18, Takes DEF NextLogFile, client, history
  <2>2. /\ swi' \subseteq swi
        /\ proc'.current = NoLog \/ proc'.current \in Full
    BY <1>18, Takes
  <2>3. \A f \in Full : fate[f] \in Kept  BY <1>15, <2>1 DEF Full, Ready
  <2>4. ASSUME NEW f \in swi', content'[f] # <<>> PROVE Safe(f)'
    BY <1>15, <2>1, <2>2, <2>4 DEF Safe
  <2>5. proc'.current # NoLog => fate'[proc'.current] \in Kept  BY <2>1, <2>2, <2>3
  <2>6. \A c \in Clients : cl'[c] # "holding"  BY <1>15, <2>1
  <2>7. \A f \in Logs : Quiet(f)' \/ fate'[f] \in Kept  BY <1>4, <2>1 DEF Quiet
  <2>. QED  BY <2>4, <2>5, <2>6, <2>7 DEF OnlyKept
<1>19. CASE Notify \/ Finalize \/ GiveUp \/ RunError
  <2>1. /\ up /\ proc.progress # "idle" /\ swi' \subseteq swi
        /\ proc'.current = proc.current \/ proc'.current = NoLog
        /\ UNCHANGED <<content, fate, on, file>>
    BY <1>19, GoesOn, Drops DEF Notify, Finalize, GiveUp, RunError, client, durable
  <2>6. \A c \in Clients : cl'[c] = cl[c] \/ cl'[c] = "registered"
    BY <1>19, Wakes DEF Notify, Finalize, GiveUp, RunError, client
  <2>2. \A f \in Logs : f # proc.current => told'[f] = told[f]
    <3>1. \A notes : Tell(notes) => \A f \in Logs : f # proc.current => told'[f] = told[f]
      BY <1>1 DEF Tell, ToldType
    <3>2. CASE Notify  BY <3>1, <3>2, Zenon DEF Notify
    <3>3. CASE Finalize  BY <3>1, <3>3, Zenon DEF Finalize
    <3>4. CASE GiveUp \/ RunError
      <4>1. told' = told \/ Tell(StartNotes)  BY <3>4, Zenon DEF GiveUp, RunError
      <4>. QED  BY <3>1, <4>1, Zenon
    <3>. QED  BY <1>19, <3>2, <3>3, <3>4
  <2>3. ASSUME NEW f \in swi', content'[f] # <<>> PROVE Safe(f)'
    BY <1>15, <2>1, <2>3 DEF Safe
  <2>4. \A c \in Clients : cl'[c] # "holding"  BY <1>15, <2>1, <2>6
  <2>5. ASSUME NEW f \in Logs PROVE Quiet(f)' \/ fate'[f] \in Kept
    <3>1. CASE f = proc.current  BY <1>1, <1>4, <2>1, <3>1
    <3>2. CASE f # proc.current  BY <1>4, <2>1, <2>2, <3>2 DEF Quiet
    <3>. QED  BY <3>1, <3>2
  <2>. QED  BY <1>4, <2>1, <2>3, <2>4, <2>5 DEF OnlyKept
<1>. QED
  BY <1>6, <1>7, <1>8, <1>9, <1>10, <1>11, <1>12, <1>13, <1>14, <1>16, <1>17, <1>18, <1>19
     DEF Next, Request

-----------------------------------------------------------------------------
(* The invariant and the theorems.                                            *)

LEMMA InitIInv == ASSUME Init PROVE IInv
<1>. USE DEF NoLog
<1>1. /\ swi = {} /\ obs = {} /\ ~up /\ up = FALSE /\ high = 0 /\ timer = FALSE /\ on = TRUE
      /\ proc = Reset("idle") /\ content = [f \in Logs |-> <<>>]
      /\ cl = [c \in Clients |-> "out"] /\ file = [c \in Clients |-> NoLog]
      /\ fate = [f \in Logs |-> "none"] /\ mishaps = [k \in Kinds |-> 0]
      /\ told = [f \in Logs |-> [p \in 1 .. Plugins |-> <<>>]]
  BY DEF Init
<1>2. proc \in ProcType  BY <1>1, Bounds DEF Reset, ProcType, States
<1>3. told \in ToldType
  <2>1. [p \in 1 .. Plugins |-> <<>>] \in [1 .. Plugins -> Seq(NoteKinds)]  OBVIOUS
  <2>. QED  BY <1>1, <2>1 DEF ToldType
<1>4. LogTypes
  <2>1. content \in [Logs -> Contents \cup {<<>>}] /\ fate \in FateType
    BY <1>1 DEF FateType
  <2>2. cl \in [Clients -> ClientStates] /\ file \in [Clients -> Logs \cup {NoLog}]
    BY <1>1 DEF ClientStates
  <2>3. mishaps \in [Kinds -> Nat] /\ high \in 0 .. MaxLogs  BY <1>1, Bounds
  <2>. QED  BY <1>1, <1>2, <1>3, <2>1, <2>2, <2>3 DEF LogTypes
<1>5. Downs /\ Places /\ HeardSoFar /\ HalfDone
  BY <1>1 DEF Downs, Places, HeardSoFar, HalfDone, Reset, Opens
<1>6. OneWrites /\ OnlyKept
  BY <1>1 DEF OneWrites, OnlyKept, Active, Quiet, Reset
<1>. QED  BY <1>4, <1>5, <1>6 DEF IInv

LEMMA IInvStep == ASSUME IInv, [Next]_vars PROVE IInv'
<1>1. CASE Next
  BY <1>1, TypeStep, DownsStep, PlacesStep, HeardStep, HalfStep, WritesStep, KeptStep DEF IInv
<1>2. CASE UNCHANGED vars
  BY <1>2 DEF IInv, LogTypes, Downs, Places, HeardSoFar, HalfDone, OneWrites, OnlyKept, Opens,
              Active, Heard, Cut, Safe, Writes, Quiet, NoFault, NoOverlap,
              vars, durable, server, client, history
<1>. QED  BY <1>1, <1>2

\* The strengthening is an invariant: every log has its place, its readers have heard
\* it so far, and what is read to plugins was committed.
THEOREM Invariance == Spec => []IInv
<1>1. Init => IInv  BY InitIInv
<1>2. IInv /\ [Next]_vars => IInv'  BY IInvStep
<1>. QED  BY <1>1, <1>2, PTL DEF Spec

\* Only logs of committed transactions are read to plugins, for any number of clients
\* that install one after the other, and whatever crashes, backups and failures come
\* between (the comment of InitializeLogDirsL).
THEOREM OnlyCommittedIsTold == Spec => []AloneOnlyCommitted
<1>1. IInv => AloneOnlyCommitted
  BY DEF IInv, OnlyKept, AloneOnlyCommitted, Quiet, Kept
<1>. QED  BY <1>1, Invariance, PTL

\* The shutdown timer runs only when the processor has nothing left to do.
THEOREM TimerMeansIdle == Spec => []TimerOnlyWhenIdle
<1>1. IInv => TimerOnlyWhenIdle
  BY DEF IInv, Downs, HalfDone, TimerOnlyWhenIdle
<1>. QED  BY <1>1, Invariance, PTL

\* A log leaves a running server's log_obs only when every plugin has heard it to its
\* end, unless it cannot be read (NextPluginL, NextLogFileL).
THEOREM HeardBeforeDeletion == Spec => DeletedWhenHeard
<1>. USE DEF NoLog
<1>. DEFINE Step == \A f \in obs \ obs' :
          up /\ NoFault' /\ ~Cut(f) => \A p \in 1 .. Plugins :
              told[f][p] # <<>> /\ Last(told[f][p]) = "final"
<1>1. ASSUME IInv, [Next]_vars PROVE Step
  <2>1. SUFFICES ASSUME NEW f \in obs, f \notin obs', up, NoFault', ~Cut(f), Next
                 PROVE  \A p \in 1 .. Plugins : Heard(f, p)
    BY <1>1 DEF Heard, vars, durable
  <2>2. LogTypes /\ f \in Logs  BY <1>1, <2>1 DEF IInv, LogTypes
  <2>3. ~Fault  BY <2>1, <2>2, FaultShows
  <2>4. NoFault  BY <2>1, <2>2, NoMishapBefore
  <2>5. CASE NextLogFile
    <3>1. proc.progress # "idle" /\ proc.state = "nextlog" /\ Processed \subseteq obs'
      BY <2>2, <2>5, Takes
    <3>2. f = proc.current /\ proc.current # NoLog
      BY <2>1, <2>2, <3>1 DEF Processed, Logs
    <3>. QED  BY <1>1, <2>1, <2>4, <3>1, <3>2 DEF IInv, HeardSoFar
  <2>6. CASE LogFileFails \/ RunError
    BY <2>3, <2>6 DEF LogFileFails, RunError
  <2>7. CASE Launch \/ Boot
    <3>1. ~up  BY <1>1, <2>7 DEF Launch, Boot, IInv, Downs
    <3>. QED  BY <2>1, <3>1
  <2>8. CASE \E c \in Clients : Request(c)
    <3>1. obs' = obs
      BY <2>8 DEF Request, Register, Transfer, TransferFails, Record, Decide, Commit, CommitFails,
                  Leave, RollBack, durable
    <3>. QED  BY <2>1, <3>1
  <2>9. CASE \/ Exit \/ RestoreCompleted \/ NextPlugin \/ Notify \/ Finalize \/ GiveUp
             \/ CompleteProcess \/ BackupStarts \/ BackupEnds \/ Crash
    <3>1. obs' = obs
      BY <2>9 DEF Exit, RestoreCompleted, NextPlugin, Notify, Finalize, GiveUp, CompleteProcess,
                  BackupStarts, BackupEnds, Crash, durable
    <3>. QED  BY <2>1, <3>1
  <2>. QED  BY <2>1, <2>5, <2>6, <2>7, <2>8, <2>9 DEF Next
<1>2. IInv /\ [Next]_vars => [Step]_vars  BY <1>1
<1>. HIDE DEF Step
<1>3. Spec => [][Step]_vars  BY <1>2, Invariance, PTL DEF Spec
<1>. QED  BY <1>3 DEF DeletedWhenHeard, Step

-----------------------------------------------------------------------------
(* The records that concern the plugins.  Wanted is a recursive function: that there *)
(* is one, and what it does, follows from looking at the least index where it would  *)
(* not.                                                                              *)

\* w[i] is what is wanted of the first i records of s.
Counts(s, w, n) ==
    /\ w \in [0 .. n -> Seq(Records)]
    /\ w[0] = <<>>
    /\ \A i \in 1 .. n : w[i] = IF s[i] = "other" THEN w[i - 1] ELSE Append(w[i - 1], s[i])

\* The recursion defines a function.
LEMMA WantedExists ==
    ASSUME NEW s \in Seq(Records), NEW n \in 0 .. Len(s)
    PROVE  \E w : Counts(s, w, n)
<1>. DEFINE Without == {m \in 0 .. Len(s) : ~ \E w : Counts(s, w, m)}
<1>. SUFFICES ASSUME Without # {} PROVE FALSE  OBVIOUS
<1>1. PICK m \in Without : \A k \in Without : m <= k
  <2>1. Without \subseteq Nat  OBVIOUS
  <2>. HIDE DEF Without
  <2>. QED  BY <2>1, LeastNatural
<1>2. CASE m = 0
  <2>1. Counts(s, [i \in 0 .. 0 |-> <<>>], 0)  BY DEF Counts
  <2>. QED  BY <1>2, <2>1
<1>3. CASE m # 0
  <2>0. m - 1 \in 0 .. Len(s) /\ m \in 1 .. Len(s) /\ m \in Nat  BY <1>3
  <2>1. m - 1 \notin Without  BY <1>1, <2>0
  <2>2. PICK w : Counts(s, w, m - 1)  BY <2>0, <2>1
  <2>. DEFINE last == IF s[m] = "other" THEN w[m - 1] ELSE Append(w[m - 1], s[m])
              v == [i \in 0 .. m |-> IF i = m THEN last ELSE w[i]]
  <2>3. last \in Seq(Records)
    <3>1. s[m] \in Records /\ w[m - 1] \in Seq(Records)  BY <2>0, <2>2 DEF Counts
    <3>. QED  BY <3>1
  <2>4. v \in [0 .. m -> Seq(Records)]
    <3>1. \A i \in 0 .. m : i = m \/ i \in 0 .. m - 1  BY <2>0
    <3>. QED  BY <2>2, <2>3, <3>1 DEF Counts
  <2>5. v[0] = <<>>  BY <2>0, <2>2 DEF Counts
  <2>6. ASSUME NEW i \in 1 .. m
        PROVE  v[i] = IF s[i] = "other" THEN v[i - 1] ELSE Append(v[i - 1], s[i])
    <3>1. i - 1 \in 0 .. m /\ i - 1 # m /\ i \in 0 .. m  BY <2>0
    <3>2. v[i - 1] = w[i - 1]  BY <3>1
    <3>3. CASE i = m  BY <3>1, <3>2, <3>3
    <3>4. CASE i # m
      <4>1. i \in 1 .. m - 1  BY <2>0, <3>4
      <4>. QED  BY <2>2, <3>1, <3>2, <3>4, <4>1 DEF Counts
    <3>. QED  BY <3>3, <3>4
  <2>. HIDE DEF v
  <2>7. Counts(s, v, m)  BY <2>4, <2>5, <2>6 DEF Counts
  <2>. QED  BY <2>7
<1>. QED  BY <1>2, <1>3

\* Wanted is such a function.
LEMMA WantedSteps ==
    ASSUME NEW s \in Seq(Records)
    PROVE  Counts(s, Wanted(s), Len(s))
<1>. DEFINE Rec(w) == w = [i \in 0 .. Len(s) |-> IF i = 0 THEN <<>>
                             ELSE IF s[i] = "other" THEN w[i - 1] ELSE Append(w[i - 1], s[i])]
<1>0. Len(s) \in Nat  OBVIOUS
<1>1. PICK w : Counts(s, w, Len(s))  BY <1>0, WantedExists
<1>2. w = [i \in 0 .. Len(s) |-> IF i = 0 THEN <<>>
                             ELSE IF s[i] = "other" THEN w[i - 1] ELSE Append(w[i - 1], s[i])]
  <2>1. ASSUME NEW i \in 0 .. Len(s)
        PROVE  w[i] = IF i = 0 THEN <<>>
                             ELSE IF s[i] = "other" THEN w[i - 1] ELSE Append(w[i - 1], s[i])
    <3>1. i = 0 \/ i \in 1 .. Len(s)  BY <1>0
    <3>. QED  BY <1>1, <3>1 DEF Counts
  <2>. QED  BY <1>1, <2>1 DEF Counts
<1>3. Wanted(s) = CHOOSE v : Rec(v)  BY Zenon DEF Wanted
<1>4. Rec(Wanted(s))  BY <1>2, <1>3, Zenon
<1>. DEFINE W == Wanted(s)
<1>. HIDE DEF W
<1>5. Rec(W)  BY <1>4 DEF W
<1>6. /\ DOMAIN W = 0 .. Len(s) /\ W[0] = <<>>
      /\ \A i \in 1 .. Len(s) : W[i] = IF s[i] = "other" THEN W[i - 1] ELSE Append(W[i - 1], s[i])
  <2>1. 0 \in 0 .. Len(s) /\ \A i \in 1 .. Len(s) : i \in 0 .. Len(s) /\ i # 0  BY <1>0
  <2>. QED  BY <1>5, <2>1
<1>7. W = [i \in 0 .. Len(s) |-> W[i]]  BY <1>5
<1>. HIDE DEF Rec
<1>. DEFINE Strays == {i \in 0 .. Len(s) : W[i] \notin Seq(Records)}
<1>8. Strays = {}
  <2>. SUFFICES ASSUME Strays # {} PROVE FALSE  OBVIOUS
  <2>1. PICK m \in Strays : \A k \in Strays : m <= k
    <3>1. Strays \subseteq Nat  OBVIOUS
    <3>. HIDE DEF Strays
    <3>. QED  BY <3>1, LeastNatural
  <2>2. m \in 1 .. Len(s) /\ m - 1 \in 0 .. Len(s)
    <3>1. m # 0
      <4>1. W[0] \in Seq(Records)  BY <1>6, EmptySeq
      <4>. QED  BY <4>1
    <3>. QED  BY <1>0, <3>1
  <2>3. W[m - 1] \in Seq(Records)  BY <2>1, <2>2
  <2>4. s[m] \in Records  BY <2>2
  <2>5. Append(W[m - 1], s[m]) \in Seq(Records)  BY <2>3, <2>4
  <2>6. W[m] \in Seq(Records)  BY <1>6, <2>2, <2>3, <2>5
  <2>. QED  BY <2>6
<1>9. W \in [0 .. Len(s) -> Seq(Records)]  BY <1>7, <1>8
<1>. HIDE DEF Strays
<1>. QED  BY <1>6, <1>9 DEF Counts, W

\* Records that do not concern the plugins add nothing.
LEMMA WantedSkips ==
    ASSUME NEW s \in Seq(Records), NEW i \in 0 .. Len(s), NEW j \in i .. Len(s),
           \A k \in i + 1 .. j : s[k] = "other"
    PROVE  Wanted(s)[j] = Wanted(s)[i]
<1>. DEFINE W == Wanted(s)
           Odd == {k \in i .. j : W[k] # W[i]}
<1>1. Counts(s, W, Len(s))  BY WantedSteps
<1>. HIDE DEF W
<1>. SUFFICES ASSUME Odd # {} PROVE FALSE  BY DEF W
<1>2. PICK m \in Odd : \A k \in Odd : m <= k
  <2>1. Odd \subseteq Nat  OBVIOUS
  <2>. HIDE DEF Odd
  <2>. QED  BY <2>1, LeastNatural
<1>3. /\ m \in i + 1 .. j /\ m \in 1 .. Len(s)
      /\ m - 1 \in i .. j /\ ~(m <= m - 1)
  OBVIOUS
<1>4. W[m - 1] = W[i]  BY <1>2, <1>3
<1>5. W[m] = W[m - 1]  BY <1>1, <1>3 DEF Counts
<1>. QED  BY <1>4, <1>5

\* t is what u begins with.
Begins(t, u) == Len(t) <= Len(u) /\ \A k \in 1 .. Len(t) : t[k] = u[k]

\* IsPrefix, element by element.
LEMMA PrefixBegins ==
    ASSUME NEW S, NEW t \in Seq(S), NEW u \in Seq(S), Begins(t, u) PROVE IsPrefix(t, u)
<1>1. Len(t) \in Nat /\ Len(u) \in Nat /\ Len(t) <= Len(u)  BY DEF Begins
<1>2. \A k \in 1 .. Len(t) : t[k] \in S /\ u[k] \in S
  BY <1>1, ElementOfSeq
<1>3. SubSeq(t, 1, Len(t)) = SubSeq(u, 1, Len(t))
  <2>1. SubSeq(t, 1, Len(t)) = [k \in 1 .. Len(t) |-> t[k]]  BY <1>1
  <2>2. SubSeq(u, 1, Len(t)) = [k \in 1 .. Len(t) |-> u[k]]  BY <1>1
  <2>. QED  BY <2>1, <2>2 DEF Begins
<1>. QED  BY <1>1, <1>3 DEF IsPrefix

\* What is wanted of a part of a log begins what is wanted of more of it.
LEMMA WantedBegins ==
    ASSUME NEW s \in Seq(Records), NEW i \in 0 .. Len(s), NEW j \in i .. Len(s)
    PROVE  Begins(Wanted(s)[i], Wanted(s)[j])
<1>. DEFINE W == Wanted(s)
           Odd == {k \in i .. j : ~Begins(W[i], W[k])}
<1>1. Counts(s, W, Len(s))  BY WantedSteps
<1>. HIDE DEF W
<1>. SUFFICES ASSUME Odd # {} PROVE FALSE
  <2>1. j \in i .. j  OBVIOUS
  <2>. QED  BY <2>1 DEF W
<1>2. PICK m \in Odd : \A k \in Odd : m <= k
  <2>1. Odd \subseteq Nat  OBVIOUS
  <2>. HIDE DEF Odd
  <2>. QED  BY <2>1, LeastNatural
<1>0. W[i] \in Seq(Records)  BY <1>1 DEF Counts
<1>3. m # i  BY <1>0 DEF Begins
<1>4. /\ m \in i + 1 .. j /\ m \in 1 .. Len(s)
      /\ m - 1 \in i .. j /\ m - 1 \in 0 .. Len(s) /\ ~(m <= m - 1)
  BY <1>3
<1>5. Begins(W[i], W[m - 1])  BY <1>2, <1>4
<1>6. W[m - 1] \in Seq(Records) /\ s[m] \in Records
  <2>1. s[m] \in Records  BY <1>4, ElementOfSeq
  <2>2. W[m - 1] \in Seq(Records)  BY <1>1, <1>4 DEF Counts
  <2>. QED  BY <2>1, <2>2
<1>7. W[m] = W[m - 1] \/ W[m] = Append(W[m - 1], s[m])  BY <1>1, <1>4 DEF Counts
<1>8. Begins(W[i], W[m])
  <2>1. CASE W[m] = W[m - 1]  BY <1>5, <2>1
  <2>2. CASE W[m] = Append(W[m - 1], s[m])
    <3>. DEFINE u == W[m - 1]
    <3>1. Len(Append(u, s[m])) = Len(u) + 1 /\ \A k \in 1 .. Len(u) : Append(u, s[m])[k] = u[k]
      BY <1>6
    <3>2. Len(u) \in Nat /\ Len(W[i]) \in Nat  BY <1>0, <1>6
    <3>. HIDE DEF u
    <3>. QED  BY <1>5, <2>2, <3>1, <3>2 DEF Begins, u
  <2>. QED  BY <1>7, <2>1, <2>2
<1>. QED  BY <1>8

-----------------------------------------------------------------------------
(* What each plugin hears of each log.                                        *)

Fits(f, p) ==
    \/ Begins(told[f][p], <<"start">> \o Script(f))
    \/ cut /\ Begins(told[f][p], Script(f))

\* No plugin has heard of a log that waits.
Fresh == \A f \in swi : Quiet(f)

\* iHeader outlives a log only if the log was given up.
HeaderOld == proc.header /\ proc.state # "process" => cut

\* The plugin at work has heard what is wanted of the log up to the reader's position;
\* the plugins after it have heard nothing.
HeardUpto ==
    proc.progress # "idle" /\ proc.current # NoLog =>
        /\ Log # <<>>
        /\ proc.state \in {"nextplugin", "process"} =>
              \A p \in proc.impl + 1 .. Plugins : told[proc.current][p] = <<>>
        /\ proc.state = "nextplugin" => proc.pos = 0
        /\ proc.state = "process" =>
              LET heard == told[proc.current][proc.impl]
                  w == Wanted(Log)[proc.pos] IN
              /\ proc.pos <= Len(Log)
              /\ IF proc.header THEN heard = <<"start">> \o w \/ (cut /\ heard = w)
                                ELSE heard = <<>> /\ proc.pos = 0

AllFit == \A f \in Logs, p \in 1 .. Plugins : Fits(f, p)

TInv == IInv /\ Fresh /\ HeaderOld /\ HeardUpto /\ AllFit

Told == NoteKinds \cup Records

\* Logs are sequences of records, and so is what is wanted of them.
LEMMA WantedTypes ==
    ASSUME NEW s \in Contents \cup {<<>>}
    PROVE  /\ s \in Seq(Records) /\ Len(s) \in Nat
           /\ s # <<>> => Len(s) >= 1 /\ s[1] \in {"header", "bad"}
           /\ Wanted(s)[0] = <<>>
           /\ \A i \in 0 .. Len(s) : Wanted(s)[i] \in Seq(Told)
           /\ Wanted(s)[Len(s)] \o <<"final">> \in Seq(Told)
           /\ <<"start">> \o (Wanted(s)[Len(s)] \o <<"final">>) \in Seq(Told)
<1>1. s \in Seq(Records) /\ Len(s) \in Nat
  <2>1. s \in Seq(Records)  BY ContentsAssumption, EmptySeq
  <2>. QED  BY <2>1
<1>2. s # <<>> => Len(s) >= 1 /\ s[1] \in {"header", "bad"}
  BY <1>1, ContentsAssumption, EmptySeq
<1>3. Counts(s, Wanted(s), Len(s))  BY <1>1, WantedSteps
<1>4. \A i \in 0 .. Len(s) : Wanted(s)[i] \in Seq(Told)
  <2>1. ASSUME NEW i \in 0 .. Len(s) PROVE Wanted(s)[i] \in Seq(Told)
    <3>1. Wanted(s)[i] \in Seq(Records)  BY <1>3 DEF Counts
    <3>2. Records \subseteq Told  BY DEF Told
    <3>. QED  BY <3>1, <3>2, SeqMonotonic
  <2>. QED  BY <2>1
<1>5. <<"start">> \in Seq(Told) /\ <<"final">> \in Seq(Told)  BY DEF Told, NoteKinds
<1>6. Wanted(s)[Len(s)] \o <<"final">> \in Seq(Told)
  <2>1. Wanted(s)[Len(s)] \in Seq(Told)  BY <1>1, <1>4
  <2>. QED  BY <1>5, <2>1, ConcatProperties
<1>7. <<"start">> \o (Wanted(s)[Len(s)] \o <<"final">>) \in Seq(Told)
  BY <1>5, <1>6, ConcatProperties
<1>8. Wanted(s)[0] = <<>>  BY <1>3 DEF Counts
<1>. QED  BY <1>1, <1>2, <1>4, <1>6, <1>7, <1>8

LEMMA ScriptTypes ==
    ASSUME LogTypes, NEW f \in Logs
    PROVE  /\ content[f] \in Seq(Records) /\ Len(content[f]) \in Nat
           /\ content[f] # <<>> => Len(content[f]) >= 1 /\ content[f][1] \in {"header", "bad"}
           /\ Wanted(content[f])[0] = <<>>
           /\ \A i \in 0 .. Len(content[f]) : Wanted(content[f])[i] \in Seq(Told)
           /\ Script(f) \in Seq(Told) /\ <<"start">> \o Script(f) \in Seq(Told)
<1>1. content[f] \in Contents \cup {<<>>}  BY DEF LogTypes
<1>. QED  BY <1>1, WantedTypes DEF Script

\* What was not told fits.
LEMMA NothingFits ==
    ASSUME LogTypes, NEW f \in Logs, NEW p, told[f][p] = <<>> PROVE Fits(f, p)
<1>1. Len(<<"start">> \o Script(f)) \in Nat  BY ScriptTypes
<1>2. Len(<<>>) = 0 /\ 1 .. 0 = {}  OBVIOUS
<1>. QED  BY <1>1, <1>2 DEF Fits, Begins

\* The records between the position and the next note do not concern the plugin.
LEMMA NextNoteIsFirst ==
    ASSUME LogTypes, proc.current \in Logs, proc.pos <= Len(Log)
    PROVE  /\ proc.pos \in 0 .. Len(Log) /\ NextNote \in proc.pos + 1 .. Len(Log) + 1
           /\ \A k \in proc.pos + 1 .. NextNote - 1 : Log[k] = "other"
           /\ NextNote <= Len(Log) => Log[NextNote] # "other"
<1>. DEFINE T == {i \in proc.pos + 1 .. Len(Log) : Log[i] # "other"} \cup {Len(Log) + 1}
<1>1. Log \in Seq(Records) /\ Len(Log) \in Nat  BY ScriptTypes DEF Log
<1>2. proc.pos \in Nat  BY DEF LogTypes, ProcType
<1>3. T \subseteq Nat /\ T # {}  BY <1>1, <1>2
<1>4. \E n \in T : \A m \in T : n <= m
  <2>. HIDE DEF T
  <2>. QED  BY <1>3, LeastNatural
<1>5. NextNote \in T /\ \A m \in T : NextNote <= m
  <2>1. NextNote = Min(T)  BY DEF NextNote
  <2>. HIDE DEF T
  <2>. QED  BY <1>4, <2>1 DEF Min
<1>6. NextNote \in proc.pos + 1 .. Len(Log) + 1
  <2>1. NextNote \in proc.pos + 1 .. Len(Log) \/ NextNote = Len(Log) + 1  BY <1>5
  <2>2. Len(Log) + 1 \in proc.pos + 1 .. Len(Log) + 1  BY <1>1, <1>2
  <2>. HIDE DEF T
  <2>. QED  BY <1>1, <1>2, <2>1, <2>2
<1>7. NextNote <= Len(Log) => Log[NextNote] # "other"  BY <1>1, <1>5
<1>8. ASSUME NEW k \in proc.pos + 1 .. NextNote - 1, Log[k] # "other" PROVE FALSE
  <2>1. k \in proc.pos + 1 .. Len(Log) /\ ~(NextNote <= k)  BY <1>1, <1>2, <1>6
  <2>2. k \in T  BY <1>8, <2>1
  <2>. QED  BY <1>5, <2>1, <2>2
<1>9. proc.pos \in 0 .. Len(Log)  BY <1>1, <1>2
<1>. QED  BY <1>6, <1>7, <1>8, <1>9

\* What is wanted of a part of a log begins the script, and so does all of it with
\* the end; with the start or without.
LEMMA HeardFits ==
    ASSUME NEW s \in Contents \cup {<<>>}, NEW i \in 0 .. Len(s)
    PROVE  LET w == Wanted(s)[i]
               all == Wanted(s)[Len(s)] \o <<"final">> IN
           /\ Begins(w, all) /\ Begins(<<"start">> \o w, <<"start">> \o all)
           /\ i = Len(s) => /\ Begins(w \o <<"final">>, all)
                            /\ Begins((<<"start">> \o w) \o <<"final">>, <<"start">> \o all)
<1>. DEFINE w == Wanted(s)[i]
           most == Wanted(s)[Len(s)]
           all == most \o <<"final">>
<1>1. /\ Len(s) \in Nat /\ w \in Seq(Told) /\ most \in Seq(Told) /\ s \in Seq(Records)
      /\ i = Len(s) => w = most
  <2>1. Len(s) \in Nat /\ s \in Seq(Records)  BY WantedTypes
  <2>2. Len(s) \in 0 .. Len(s)  BY <2>1
  <2>. QED  BY <2>1, <2>2, WantedTypes
<1>2. Begins(w, most)
  <2>1. Len(s) \in i .. Len(s)  BY <1>1
  <2>. QED  BY <1>1, <2>1, WantedBegins
<1>. HIDE DEF w, most
<1>3. "start" \in Told /\ "final" \in Told  BY DEF Told, NoteKinds
<1>4. /\ <<"start">> \o w \in Seq(Told) /\ all \in Seq(Told)
      /\ <<"start">> \o all \in Seq(Told)
  BY <1>1, <1>3
<1>5. ASSUME NEW u \in Seq(Told), NEW v \in Seq(Told), Begins(u, v)
      PROVE  Begins(<<"start">> \o u, <<"start">> \o v)
  <2>1. /\ Len(<<"start">> \o u) = Len(u) + 1 /\ Len(<<"start">> \o v) = Len(v) + 1
        /\ Len(u) \in Nat /\ Len(v) \in Nat
    BY <1>3
  <2>2. \A k \in 1 .. Len(u) + 1 : (<<"start">> \o u)[k] = IF k = 1 THEN "start" ELSE u[k - 1]
    BY <1>3
  <2>3. \A k \in 1 .. Len(v) + 1 : (<<"start">> \o v)[k] = IF k = 1 THEN "start" ELSE v[k - 1]
    BY <1>3
  <2>. QED  BY <1>5, <2>1, <2>2, <2>3 DEF Begins
<1>6. Begins(w, all)  BY <1>1, <1>2, <1>3 DEF Begins
<1>7. \A u \in Seq(Told) : Begins(u, u)  BY DEF Begins
<1>8. (<<"start">> \o most) \o <<"final">> = <<"start">> \o all
  <2>1. <<"start">> \in Seq(Told) /\ <<"final">> \in Seq(Told)  BY <1>3
  <2>. QED  BY <1>1, <2>1, ConcatAssociative
<1>9. Begins(<<"start">> \o w, <<"start">> \o all)  BY <1>1, <1>4, <1>5, <1>6
<1>. HIDE DEF all
<1>10. i = Len(s) => /\ Begins(w \o <<"final">>, all)
                     /\ Begins((<<"start">> \o w) \o <<"final">>, <<"start">> \o all)
  BY <1>1, <1>4, <1>7, <1>8 DEF all
<1>. QED  BY <1>6, <1>9, <1>10 DEF w, most, all

\* A step that tells nothing and writes nothing.
LEMMA SilentStep ==
    ASSUME Fresh, AllFit, UNCHANGED <<told, content>>, cut => cut', swi' \subseteq swi
    PROVE  Fresh' /\ AllFit'
BY DEF Fresh, AllFit, Quiet, Fits, Begins, Script

\* A step that leaves the processor alone as well.
LEMMA AsideStep ==
    ASSUME TInv, UNCHANGED <<told, content, cut, proc>>, swi' \subseteq swi
    PROVE  Fresh' /\ HeaderOld' /\ HeardUpto' /\ AllFit'
<1>1. Fresh' /\ AllFit'  BY SilentStep DEF TInv
<1>. QED  BY <1>1 DEF TInv, HeaderOld, HeardUpto, Log

\* A new log, and one that is written, is one that no plugin has heard of and that is
\* not processed.
LEMMA WriteStep ==
    ASSUME TInv, NEW f \in Logs, f # proc.current, UNCHANGED <<proc, cut>>,
           swi' \subseteq swi \cup {f},
           \A g \in Logs \ {f} : told'[g] = told[g] /\ content'[g] = content[g],
           \A p \in 1 .. Plugins : told'[f][p] = <<>>, LogTypes'
    PROVE  Fresh' /\ HeaderOld' /\ HeardUpto' /\ AllFit'
<1>1. swi \subseteq Logs /\ proc.current \in Logs \cup {NoLog}
  BY DEF TInv, IInv, LogTypes, ProcType
<1>2. Fresh'  BY <1>1 DEF TInv, Fresh, Quiet
<1>3. HeaderOld'  BY DEF TInv, HeaderOld
<1>4. HeardUpto'
  <2>1. proc.current # NoLog => /\ told'[proc.current] = told[proc.current]
                                /\ content'[proc.current] = content[proc.current]
    BY <1>1
  <2>. QED  BY <2>1 DEF TInv, HeardUpto, Log
<1>5. AllFit'
  <2>1. ASSUME NEW g \in Logs, NEW p \in 1 .. Plugins PROVE Fits(g, p)'
    <3>1. CASE g = f
      <4>1. told'[f][p] = <<>>  OBVIOUS
      <4>2. Len(<<"start">> \o Script(f)') \in Nat
        <5>1. content'[f] \in Contents \cup {<<>>}  BY DEF LogTypes
        <5>2. <<"start">> \o Script(f)' \in Seq(Told)  BY <5>1, WantedTypes DEF Script
        <5>. QED  BY <5>2
      <4>. QED  BY <3>1, <4>1, <4>2 DEF Fits, Begins
    <3>2. CASE g # f
      <4>1. Fits(g, p) /\ told'[g] = told[g] /\ content'[g] = content[g]
        BY <3>2 DEF TInv, AllFit
      <4>. QED  BY <4>1 DEF Fits, Begins, Script
    <3>. QED  BY <3>1, <3>2
  <2>. QED  BY <2>1 DEF AllFit
<1>. QED  BY <1>2, <1>3, <1>4, <1>5

\* The requests of clients.
LEMMA RequestHears ==
    ASSUME TInv, NEW c \in Clients, Request(c), LogTypes'
    PROVE  Fresh' /\ HeaderOld' /\ HeardUpto' /\ AllFit'
<1>1. /\ LogTypes /\ Downs /\ Places /\ Fresh /\ HeaderOld /\ HeardUpto
      /\ proc \in ProcType /\ swi \subseteq Logs /\ high \in Nat
      /\ content \in [Logs -> Contents \cup {<<>>}] /\ told \in ToldType
      /\ Logs \subseteq Nat
  BY Bounds DEF TInv, IInv, LogTypes, Logs
<1>2. CASE Register(c) \/ Decide(c) \/ Leave(c) \/ RollBack(c) \/ CommitFails(c)
  BY <1>2, AsideStep
     DEF Register, Decide, Leave, RollBack, CommitFails, durable, server, history
<1>3. CASE Transfer(c) \/ TransferFails(c)
  <2>1. /\ up /\ UNCHANGED <<proc, cut>> /\ high < MaxLogs /\ high' = high + 1
        /\ swi' = swi \cup {high'}
        /\ content' = [content EXCEPT ![high'] = <<>>]
        /\ told' = [told EXCEPT ![high'] = [p \in 1 .. Plugins |-> <<>>]]
    BY <1>3 DEF Transfer, TransferFails, CreateLog
  <2>2. high' \in Logs /\ high' # proc.current
    <3>1. proc.current <= high /\ proc.current \in Nat
      <4>1. proc.current \in Logs \cup {0}  BY <1>1 DEF ProcType, NoLog
      <4>2. proc.current <= high  BY <1>1, <2>1 DEF Places
      <4>3. proc.current \in Nat  BY <1>1, <4>1
      <4>. QED  BY <4>2, <4>3
    <3>2. high' # proc.current  BY <1>1, <2>1, <3>1
    <3>3. high' \in 1 .. MaxLogs  BY <1>1, <2>1, Bounds
    <3>. QED  BY <3>2, <3>3 DEF Logs
  <2>3. /\ \A g \in Logs \ {high'} : told'[g] = told[g] /\ content'[g] = content[g]
        /\ \A p \in 1 .. Plugins : told'[high'][p] = <<>>
    BY <1>1, <2>1, <2>2 DEF ToldType
  <2>. QED  BY <2>1, <2>2, <2>3, WriteStep
<1>4. CASE Record(c)
  <2>1. file[c] \in swi /\ file[c] # proc.current  BY <1>1, <1>4 DEF Record, Places, Opens
  <2>2. /\ UNCHANGED <<swi, proc, told, cut>>
        /\ \E s \in Contents : content' = [content EXCEPT ![file[c]] = s]
    BY <1>4 DEF Record, server
  <2>3. \A g \in Logs \ {file[c]} : told'[g] = told[g] /\ content'[g] = content[g]
    BY <1>1, <2>2
  <2>4. \A p \in 1 .. Plugins : told'[file[c]][p] = <<>>
    BY <1>1, <2>1, <2>2 DEF Fresh, Quiet
  <2>. QED  BY <1>1, <2>1, <2>2, <2>3, <2>4, WriteStep
<1>5. CASE Commit(c)
  <2>1. UNCHANGED <<told, content, cut, swi>>  BY <1>5 DEF Commit, durable
  <2>2. CASE proc.progress # "idle"
    BY <1>5, <2>1, <2>2, AsideStep DEF Commit, Process
  <2>3. CASE proc.progress = "idle"
    <3>1. StartProcessing  BY <1>5, <2>3 DEF Commit, Process
    <3>2. /\ proc'.current = NoLog /\ proc'.header = proc.header
          /\ proc.state # "process"
      BY <1>1, <2>3, <3>1, StartProcessingSets DEF Downs, ProcType
    <3>3. HeaderOld' /\ HeardUpto'  BY <1>1, <2>1, <3>2 DEF HeaderOld, HeardUpto
    <3>. QED  BY <2>1, <3>3, SilentStep DEF TInv
  <2>. QED  BY <2>2, <2>3
<1>. QED  BY <1>2, <1>3, <1>4, <1>5 DEF Request

\* The server process and the device.
LEMMA DeviceHears ==
    ASSUME TInv,
           \/ Launch \/ Exit \/ RestoreCompleted
           \/ BackupStarts \/ BackupEnds \/ Crash \/ Boot
    PROVE  Fresh' /\ HeaderOld' /\ HeardUpto' /\ AllFit'
<1>1. /\ LogTypes /\ Downs /\ HeaderOld /\ proc \in ProcType /\ swi \subseteq Logs
  BY DEF TInv, IInv, LogTypes
<1>2. ASSUME proc.current = NoLog, proc.state # "process", proc' = proc \/ StartProcessing,
             UNCHANGED <<told, content, cut>>, swi' \subseteq swi
      PROVE  Fresh' /\ HeaderOld' /\ HeardUpto' /\ AllFit'
  <2>1. proc'.current = NoLog /\ proc'.header = proc.header
    BY <1>1, <1>2, StartProcessingSets DEF ProcType
  <2>2. HeaderOld' /\ HeardUpto'  BY <1>1, <1>2, <2>1 DEF HeaderOld, HeardUpto
  <2>. QED  BY <1>2, <2>2, SilentStep DEF TInv
<1>3. proc.progress = "idle" => proc.current = NoLog /\ proc.state # "process"
  BY <1>1 DEF Downs
<1>4. CASE Launch
  <2>1. UNCHANGED <<told, content, cut>> /\ proc.progress = "idle" /\ StartServer(swi)
    BY <1>1, <1>4 DEF Launch, Downs, history
  <2>2. swi' = swi /\ (proc' = proc \/ StartProcessing)  BY <1>1, <2>1, StartServerSets
  <2>. QED  BY <1>2, <1>3, <2>1, <2>2
<1>5. CASE Boot
  <2>. DEFINE kept == {f \in swi : fate[f] # "open"}
  <2>1. UNCHANGED <<told, content, cut>> /\ proc.progress = "idle" /\ kept \subseteq swi
    BY <1>1, <1>5 DEF Boot, Downs
  <2>2. StartServer(kept) \/ (swi' = kept /\ proc' = proc)  BY <1>5 DEF Boot
  <2>. HIDE DEF kept
  <2>3. swi' = kept /\ (proc' = proc \/ StartProcessing)
    <3>1. kept \subseteq Logs  BY <1>1, <2>1
    <3>. QED  BY <2>2, <3>1, StartServerSets
  <2>. QED  BY <1>2, <1>3, <2>1, <2>3
<1>6. CASE Exit \/ Crash
  <2>1. UNCHANGED <<told, content, cut, swi>> /\ proc' = Reset("idle")
    BY <1>6 DEF Exit, Crash, ServerGone, durable, history
  <2>2. HeaderOld' /\ HeardUpto'  BY <2>1 DEF Reset, HeaderOld, HeardUpto
  <2>. QED  BY <2>1, <2>2, SilentStep DEF TInv
<1>7. CASE RestoreCompleted
  <2>1. /\ UNCHANGED <<told, content, cut, swi>> /\ StartProcessing
        /\ proc.state = "restore"
    BY <1>7 DEF RestoreCompleted, InState, durable, history
  <2>. QED  BY <1>1, <1>2, <2>1 DEF Downs
<1>8. CASE BackupStarts \/ BackupEnds
  BY <1>8, AsideStep DEF BackupStarts, BackupEnds, durable, server, history
<1>. QED  BY <1>4, <1>5, <1>6, <1>7, <1>8

\* A plugin that was only started has been told what the script begins with.
LEMMA HalfHears ==
    ASSUME TInv, GiveUp \/ RunError PROVE Fresh' /\ AllFit'
<1>1. /\ LogTypes /\ Downs /\ Places /\ Fresh /\ AllFit /\ HeardUpto /\ proc \in ProcType
      /\ told \in ToldType /\ swi \subseteq Logs
  BY DEF TInv, IInv, LogTypes
<1>2. content' = content /\ (cut => cut') /\ swi' \subseteq swi
  <2>1. CASE GiveUp  BY <2>1 DEF GiveUp, durable
  <2>2. CASE RunError
    <3>1. UNCHANGED <<content, cut>>  BY <2>2 DEF RunError
    <3>2. swi' \subseteq swi  BY <2>2 DEF RunError
    <3>. QED  BY <3>1, <3>2
  <2>. QED  BY <2>1, <2>2
<1>3. CASE told' = told  BY <1>2, <1>3, SilentStep DEF TInv
<1>4. CASE InState("process") /\ Tell(StartNotes)
  <2>1. /\ proc.current \in Logs /\ proc.impl \in 1 .. Plugins /\ proc.current # NoLog
        /\ proc.state = "process" /\ proc.progress # "idle"
    BY <1>1, <1>4 DEF InState, Downs, ProcType
  <2>. PICK f \in Logs, q \in 1 .. Plugins : proc.current = f /\ proc.impl = q
    BY <2>1
  <2>2. /\ told'[f][q] = told[f][q] \o StartNotes
        /\ \A g \in Logs, p \in 1 .. Plugins : g # f \/ p # q => told'[g][p] = told[g][p]
    BY <1>1, <1>4 DEF Tell, ToldType
  <2>3. \/ told'[f][q] = told[f][q]
        \/ told'[f][q] = <<"start">>
    <3>1. told[f][q] \in Seq(NoteKinds)  BY <1>1 DEF ToldType
    <3>2. CASE proc.header
      <4>1. StartNotes = <<>>  BY <3>2 DEF StartNotes
      <4>. QED  BY <2>2, <3>1, <4>1
    <3>3. CASE ~proc.header
      <4>1. StartNotes = <<"start">>  BY <3>3 DEF StartNotes
      <4>2. told[f][q] = <<>>  BY <1>1, <2>1, <3>3 DEF HeardUpto
      <4>. QED  BY <2>2, <4>1, <4>2
    <3>. QED  BY <3>2, <3>3
  <2>4. Fresh'
    <3>1. f \notin swi  BY <1>1 DEF Places
    <3>. QED  BY <1>1, <1>2, <2>2, <3>1 DEF Fresh, Quiet
  <2>5. ASSUME NEW g \in Logs, NEW p \in 1 .. Plugins PROVE Fits(g, p)'
    <3>1. Fits(g, p)  BY <1>1 DEF AllFit
    <3>2. CASE told'[g][p] = told[g][p]
      BY <1>2, <3>1, <3>2 DEF Fits, Begins, Script
    <3>3. CASE told'[g][p] = <<"start">>
      <4>1. Script(g) \in Seq(Told) /\ Script(g)' = Script(g)
        BY <1>1, <1>2, ScriptTypes DEF Script
      <4>2. Begins(<<"start">>, <<"start">> \o Script(g))
        <5>1. \A s \in Seq(Told) : /\ Len(<<"start">> \o s) \in Nat
                                  /\ Len(<<"start">> \o s) >= 1
                                  /\ (<<"start">> \o s)[1] = "start"
          BY DEF Told, NoteKinds
        <5>2. /\ Len(<<"start">>) = 1 /\ <<"start">>[1] = "start"
              /\ \A k \in 1 .. 1 : k = 1
          OBVIOUS
        <5>. QED  BY <4>1, <5>1, <5>2 DEF Begins
      <4>. QED  BY <3>3, <4>1, <4>2 DEF Fits, Begins
    <3>. QED  BY <2>2, <2>3, <3>2, <3>3
  <2>. QED  BY <2>4, <2>5 DEF AllFit
<1>5. told' = told \/ (InState("process") /\ Tell(StartNotes))
  BY DEF GiveUp, RunError, InState
<1>. QED  BY <1>3, <1>4, <1>5

\* The processor, when it tells no record: it takes a log or a plugin that has heard
\* nothing yet, or ends with one.
LEMMA MoveHears ==
    ASSUME TInv,
           \/ NextLogFile \/ LogFileFails \/ NextPlugin \/ GiveUp
           \/ CompleteProcess \/ RunError
    PROVE  Fresh' /\ HeaderOld' /\ HeardUpto' /\ AllFit'
<1>1. /\ LogTypes /\ Downs /\ HeaderOld /\ HeardUpto /\ Fresh /\ proc \in ProcType
      /\ swi \subseteq Logs /\ Plugins \in Nat
  BY Bounds DEF TInv, IInv, LogTypes
<1>2. /\ content' = content /\ (cut => cut') /\ swi' \subseteq swi
      /\ told' = told \/ GiveUp \/ RunError
  <2>1. CASE NextLogFile
    BY <2>1, Takes, <1>1 DEF NextLogFile, history
  <2>2. CASE LogFileFails \/ NextPlugin \/ CompleteProcess
    BY <2>2 DEF LogFileFails, NextPlugin, CompleteProcess, history, durable
  <2>3. CASE GiveUp  BY <2>3 DEF GiveUp, durable
  <2>4. CASE RunError
    <3>1. UNCHANGED <<content, cut>>  BY <2>4 DEF RunError
    <3>2. swi' \subseteq swi  BY <2>4 DEF RunError
    <3>. QED  BY <2>4, <3>1, <3>2
  <2>. QED  BY <2>1, <2>2, <2>3, <2>4
<1>3. Fresh' /\ AllFit'  BY <1>2, SilentStep, HalfHears DEF TInv
<1>4. CASE NextLogFile
  <2>1. proc.state = "nextlog" /\ proc.impl = 0 /\ (proc.header => cut) /\ cut' = cut
    BY <1>1, <1>4 DEF NextLogFile, InState, Downs, HeaderOld, history
  <2>2. CASE \E f \in Full : proc' = [proc EXCEPT !.state = "nextplugin", !.current = f, !.pos = 0]
    <3>1. PICK f \in Full :
             proc' = [proc EXCEPT !.state = "nextplugin", !.current = f, !.pos = 0]
      BY <2>2
    <3>2. /\ proc'.state = "nextplugin" /\ proc'.current = f /\ proc'.pos = 0
          /\ proc'.impl = 0 /\ proc'.header = proc.header
      BY <1>1, <2>1, <3>1 DEF ProcType
    <3>3. content[f] # <<>> /\ f \in swi  BY DEF Full, Ready
    <3>4. told' = told /\ \A p \in 1 .. Plugins : told[f][p] = <<>>
      BY <1>1, <1>4, <3>3 DEF Fresh, Quiet, NextLogFile, history
    <3>5. HeaderOld'  BY <2>1, <3>2 DEF HeaderOld
    <3>6. HeardUpto'  BY <1>2, <3>2, <3>3, <3>4 DEF HeardUpto, Log
    <3>. QED  BY <1>3, <3>5, <3>6
  <2>3. CASE proc' = [proc EXCEPT !.state = "complete", !.current = NoLog]
    <3>1. proc'.current = NoLog /\ proc'.header = proc.header  BY <1>1, <2>3 DEF ProcType
    <3>. QED  BY <1>3, <2>1, <3>1 DEF HeaderOld, HeardUpto
  <2>. QED  BY <1>4, <2>2, <2>3 DEF NextLogFile
<1>5. CASE LogFileFails
  <2>1. proc.state = "nextlog" /\ cut' = cut /\ proc' = [proc EXCEPT !.current = NoLog]
    BY <1>5 DEF LogFileFails, InState, history
  <2>2. proc'.current = NoLog /\ proc'.header = proc.header  BY <1>1, <2>1 DEF ProcType
  <2>. QED  BY <1>1, <1>3, <2>1, <2>2 DEF HeaderOld, HeardUpto
<1>6. CASE CompleteProcess \/ RunError
  <2>1. ~proc'.header /\ proc'.progress = "idle"
    BY <1>6 DEF CompleteProcess, RunError, Reset
  <2>. QED  BY <1>3, <2>1 DEF HeaderOld, HeardUpto
<1>7. CASE GiveUp
  <2>1. cut' = TRUE /\ proc.progress # "idle"
    BY <1>7 DEF GiveUp, InState
  <2>2. /\ proc'.state = "nextlog" /\ proc'.current = proc.current
    BY <1>1, <1>7 DEF GiveUp, ProcType
  <2>3. HeardUpto'  BY <1>1, <1>2, <2>1, <2>2 DEF HeardUpto, Log
  <2>. QED  BY <1>3, <2>1, <2>3 DEF HeaderOld
<1>8. CASE NextPlugin
  <2>1. /\ proc.state = "nextplugin" /\ proc.progress # "idle" /\ UNCHANGED cut
        /\ proc.current # NoLog /\ proc.current \in Logs
    BY <1>1, <1>8 DEF NextPlugin, InState, Downs, ProcType, history
  <2>2. /\ Log # <<>> /\ proc.pos = 0 /\ (proc.header => cut)
        /\ \A p \in proc.impl + 1 .. Plugins : told[proc.current][p] = <<>>
    BY <1>1, <2>1 DEF HeardUpto, HeaderOld
  <2>3. Log' = Log /\ Wanted(Log)[0] = <<>> /\ Len(Log) \in Nat
        /\ proc'.current = proc.current /\ told' = told
    BY <1>1, <1>2, <1>8, <2>1, GoesOn, ScriptTypes DEF Log, NextPlugin, history
  <2>4. proc.impl \in 0 .. Plugins  BY <1>1 DEF ProcType
  <2>5. CASE proc.impl < Plugins /\ proc' = [proc EXCEPT !.impl = @ + 1, !.state = "process"]
    <3>1. /\ proc'.impl = proc.impl + 1 /\ proc'.state = "process" /\ proc'.pos = 0
          /\ proc'.header = proc.header
      BY <1>1, <2>2, <2>5 DEF ProcType
    <3>2. told[proc.current][proc'.impl] = <<>>  BY <1>1, <2>2, <2>4, <2>5, <3>1
    <3>3. \A p \in proc'.impl + 1 .. Plugins : told[proc.current][p] = <<>>
      BY <1>1, <2>2, <2>4, <3>1
    <3>4. HeardUpto'
      <4>1. Wanted(Log)[proc'.pos] = <<>> /\ proc'.pos <= Len(Log)  BY <2>3, <3>1
      <4>. QED  BY <1>2, <2>1, <2>2, <2>3, <3>1, <3>2, <3>3, <4>1 DEF HeardUpto
    <3>. QED  BY <1>3, <3>1, <3>4 DEF HeaderOld
  <2>6. CASE proc.impl < Plugins /\ proc' = [proc EXCEPT !.impl = @ + 1]
    <3>1. /\ proc'.impl = proc.impl + 1 /\ proc'.state = "nextplugin" /\ proc'.pos = 0
          /\ proc'.header = proc.header
      BY <1>1, <2>1, <2>2, <2>6 DEF ProcType
    <3>2. \A p \in proc'.impl + 1 .. Plugins : told[proc.current][p] = <<>>
      BY <1>1, <2>2, <2>4, <3>1
    <3>3. HeardUpto'  BY <1>2, <2>2, <2>3, <3>1, <3>2 DEF HeardUpto
    <3>. QED  BY <1>3, <2>1, <2>2, <3>1, <3>3 DEF HeaderOld
  <2>7. CASE proc' = [proc EXCEPT !.impl = 0, !.state = "nextlog"]
    <3>1. proc'.state = "nextlog" /\ proc'.header = proc.header  BY <1>1, <2>7 DEF ProcType
    <3>2. HeardUpto'  BY <2>2, <2>3, <3>1 DEF HeardUpto
    <3>. QED  BY <1>3, <2>1, <2>2, <3>1, <3>2 DEF HeaderOld
  <2>. QED  BY <1>8, <2>5, <2>6, <2>7 DEF NextPlugin
<1>. QED  BY <1>4, <1>5, <1>6, <1>7, <1>8

\* The processor tells the plugin at work the next note, or that there is none.
LEMMA TellHears ==
    ASSUME TInv, Notify \/ Finalize
    PROVE  Fresh' /\ HeaderOld' /\ HeardUpto' /\ AllFit'
<1>. DEFINE s == Log
           n == NextNote
           w(i) == Wanted(s)[i]
<1>1. /\ LogTypes /\ Downs /\ Places /\ HeardUpto /\ Fresh /\ AllFit /\ proc \in ProcType
      /\ told \in ToldType /\ content \in [Logs -> Contents \cup {<<>>}]
  BY DEF TInv, IInv, LogTypes
<1>0. /\ proc.current \in Logs /\ proc.current # NoLog /\ proc.impl \in 1 .. Plugins
  BY <1>1 DEF Notify, Finalize, InState, Downs, ProcType
<1>. PICK f \in Logs, q \in 1 .. Plugins : proc.current = f /\ proc.impl = q
  BY <1>0
<1>. DEFINE heard == told[f][q]
<1>2. /\ proc.state = "process" /\ proc.progress # "idle" /\ f # NoLog
      /\ UNCHANGED <<content, cut, swi>>
  BY <1>0 DEF Notify, Finalize, InState, durable
<1>3. /\ s # <<>> /\ proc.pos <= Len(s)
      /\ \A p \in q + 1 .. Plugins : told[f][p] = <<>>
      /\ IF proc.header THEN heard = <<"start">> \o w(proc.pos) \/ (cut /\ heard = w(proc.pos))
                        ELSE heard = <<>> /\ proc.pos = 0
  BY <1>1, <1>2 DEF HeardUpto
<1>4. /\ s \in Seq(Records) /\ Len(s) \in Nat /\ w(0) = <<>>
      /\ \A i \in 0 .. Len(s) : w(i) \in Seq(Told)
      /\ Len(s) >= 1 /\ s[1] \in {"header", "bad"}
  BY <1>1, <1>2, <1>3, ScriptTypes DEF Log
<1>5. /\ proc.pos \in 0 .. Len(s) /\ n \in proc.pos + 1 .. Len(s) + 1
      /\ \A k \in proc.pos + 1 .. n - 1 : s[k] = "other"
      /\ n <= Len(s) => s[n] # "other"
  BY <1>1, <1>2, <1>3, NextNoteIsFirst
<1>6. w(n - 1) = w(proc.pos)
  <2>1. n - 1 \in proc.pos .. Len(s)  BY <1>4, <1>5
  <2>. HIDE DEF s, n
  <2>. QED  BY <1>4, <1>5, <2>1, WantedSkips
<1>7. ~proc.header => n = 1
  <2>. SUFFICES ASSUME ~proc.header, n # 1 PROVE FALSE  OBVIOUS
  <2>1. 1 \in proc.pos + 1 .. n - 1  BY <1>3, <1>5
  <2>. QED  BY <1>4, <1>5, <2>1
<1>8. ASSUME NEW notes, Tell(notes)
      PROVE  /\ told'[f][q] = heard \o notes
             /\ \A g \in Logs, p \in 1 .. Plugins :
                   g # f \/ p # q => told'[g][p] = told[g][p]
  BY <1>1, <1>2, <1>8 DEF Tell, ToldType
<1>. DEFINE all == w(Len(s)) \o <<"final">>
<1>12. s \in Contents \cup {<<>>} /\ Script(f)' = all
  BY <1>1, <1>2 DEF Script, Log
<1>9. ASSUME NEW notes, Tell(notes), Fits(f, q)'
      PROVE  Fresh' /\ AllFit'
  <2>1. Fresh'
    <3>1. f \notin swi /\ swi \subseteq Logs  BY <1>1 DEF Places, LogTypes
    <3>. QED  BY <1>1, <1>2, <1>8, <1>9, <3>1 DEF Fresh, Quiet
  <2>2. ASSUME NEW g \in Logs, NEW p \in 1 .. Plugins PROVE Fits(g, p)'
    <3>1. CASE g = f /\ p = q  BY <1>9, <3>1
    <3>2. CASE g # f \/ p # q
      <4>1. told'[g][p] = told[g][p] /\ content'[g] = content[g]  BY <1>2, <1>8, <1>9, <3>2
      <4>2. Fits(g, p) /\ cut' = cut  BY <1>1, <1>2 DEF AllFit
      <4>. QED  BY <4>1, <4>2 DEF Fits, Begins, Script
    <3>. QED  BY <3>1, <3>2
  <2>. QED  BY <2>1, <2>2 DEF AllFit
<1>10. CASE Notify
  <2>1. /\ n \in proc.pos + 1 .. Len(s) /\ n \in 1 .. Len(s)
        /\ s[n] \in {"header", "data"} /\ s[n] \in Told
    <3>1. n <= Len(s) /\ s[n] # "bad"  BY <1>10 DEF Notify
    <3>2. n \in proc.pos + 1 .. Len(s) /\ n \in 1 .. Len(s)  BY <1>4, <1>5, <3>1
    <3>3. s[n] \in Records  BY <1>4, <3>2, ElementOfSeq
    <3>. QED  BY <1>5, <3>1, <3>2, <3>3 DEF Records, Told
  <2>2. w(n) = Append(w(proc.pos), s[n])
    <3>1. Counts(s, Wanted(s), Len(s))  BY <1>4, WantedSteps
    <3>. QED  BY <1>5, <1>6, <2>1, <3>1 DEF Counts
  <2>3. w(proc.pos) \in Seq(Told) /\ w(n) \in Seq(Told)  BY <1>4, <1>5, <2>1
  <2>4. \A u \in Seq(Told) : Append(u, s[n]) = u \o <<s[n]>>  BY <2>1
  <2>5. /\ proc'.pos = n /\ proc'.current = f /\ proc'.impl = q /\ proc'.state = "process"
        /\ proc'.progress # "idle" /\ proc'.header = (proc.header \/ s[n] = "header")
    BY <1>1, <1>2, <1>10 DEF Notify, ProcType
  <2>6. PICK notes : /\ Tell(notes) /\ proc'.header
                     /\ \/ told'[f][q] = <<"start">> \o w(n)
                        \/ cut /\ told'[f][q] = w(n)
    <3>1. CASE s[n] = "header" /\ ~proc.header
      <4>1. Tell(<<"start", "header">>)  BY <1>10, <3>1 DEF Notify, HeaderNotes
      <4>2. heard = <<>> /\ w(proc.pos) = <<>>  BY <1>3, <1>4, <3>1
      <4>3. told'[f][q] = <<"start">> \o w(n)
        <5>1. w(n) = <<"header">>  BY <2>2, <3>1, <4>2
        <5>2. told'[f][q] = <<>> \o <<"start", "header">>  BY <1>8, <4>1, <4>2
        <5>. QED  BY <5>1, <5>2
      <4>. QED  BY <2>5, <3>1, <4>1, <4>3
    <3>2. CASE proc.header
      <4>1. Tell(<<s[n]>>)  BY <1>10, <2>1, <3>2 DEF Notify, HeaderNotes
      <4>2. told'[f][q] = heard \o <<s[n]>>  BY <1>8, <4>1
      <4>3. /\ (<<"start">> \o w(proc.pos)) \o <<s[n]>> = <<"start">> \o w(n)
            /\ w(proc.pos) \o <<s[n]>> = w(n)
        <5>1. <<"start">> \in Seq(Told) /\ <<s[n]>> \in Seq(Told)
          BY <2>1 DEF Told, NoteKinds
        <5>2. w(n) = w(proc.pos) \o <<s[n]>>  BY <2>2, <2>3, <2>4
        <5>3. \A x, y, z \in Seq(Told) : (x \o y) \o z = x \o (y \o z)
          BY ConcatAssociative
        <5>. HIDE DEF s, n, w
        <5>. QED  BY <2>3, <5>1, <5>2, <5>3
      <4>4. \/ told'[f][q] = <<"start">> \o w(n)
            \/ cut /\ told'[f][q] = w(n)
        BY <1>3, <3>2, <4>2, <4>3
      <4>. QED  BY <2>5, <3>2, <4>1, <4>4
    <3>3. CASE s[n] = "data" /\ ~proc.header
      BY <1>4, <1>7, <3>3
    <3>. QED  BY <2>1, <3>1, <3>2, <3>3
  <2>7. Fits(f, q)'
    <3>. DEFINE t == told'[f][q]
    <3>2. t = <<"start">> \o w(n) \/ (cut /\ t = w(n))  BY <2>6
    <3>3. n \in 0 .. Len(s)  BY <1>4, <2>1
    <3>4. Begins(w(n), all) /\ Begins(<<"start">> \o w(n), <<"start">> \o all)
      <4>. HIDE DEF s, n
      <4>. QED  BY <1>12, <3>3, HeardFits
    <3>. HIDE DEF t, w, all
    <3>5. \/ Begins(t, <<"start">> \o all)
          \/ cut /\ Begins(t, all)
      BY <3>2, <3>4
    <3>. QED  BY <1>2, <1>12, <3>5 DEF Fits, t
  <2>8. HeaderOld'  BY <2>5 DEF HeaderOld
  <2>9. HeardUpto'
    <3>1. Log' = s  BY <1>2, <2>5 DEF Log
    <3>2. \A p \in q + 1 .. Plugins : told'[f][p] = <<>>
      <4>1. \A p \in q + 1 .. Plugins : p \in 1 .. Plugins /\ p # q  BY Bounds
      <4>. QED  BY <1>3, <1>8, <2>6, <4>1
    <3>3. n <= Len(s)  BY <2>1
    <3>. HIDE DEF s, n
    <3>. QED  BY <1>2, <1>3, <2>5, <2>6, <3>1, <3>2, <3>3 DEF HeardUpto
  <2>. QED  BY <1>9, <2>6, <2>7, <2>8, <2>9
<1>11. CASE Finalize
  <2>1. Tell(<<"final">>) /\ n = Len(s) + 1
    <3>1. Tell(<<"final">>) /\ n > Len(s)  BY <1>11 DEF Finalize
    <3>. QED  BY <1>4, <1>5, <3>1
  <2>2. /\ proc'.pos = 0 /\ proc'.current = f /\ proc'.impl = q /\ proc'.state = "nextplugin"
        /\ proc'.progress # "idle" /\ ~proc'.header
    BY <1>1, <1>2, <1>11 DEF Finalize, ProcType
  <2>3. w(Len(s)) = w(proc.pos)  BY <1>4, <1>6, <2>1
  <2>4. proc.header
    <3>1. n # 1  BY <1>4, <2>1
    <3>. QED  BY <1>7, <3>1
  <2>5. /\ told'[f][q] = heard \o <<"final">>
        /\ heard = <<"start">> \o w(Len(s)) \/ (cut /\ heard = w(Len(s)))
    <3>1. told'[f][q] = heard \o <<"final">>  BY <1>8, <2>1
    <3>2. heard = <<"start">> \o w(proc.pos) \/ (cut /\ heard = w(proc.pos))
      BY <1>3, <2>4
    <3>. HIDE DEF w, heard, s, n
    <3>. QED  BY <2>3, <3>1, <3>2
  <2>6. Fits(f, q)'
    <3>. DEFINE t == told'[f][q]
                m == Len(s)
    <3>2. \/ t = (<<"start">> \o w(m)) \o <<"final">>
          \/ cut /\ t = w(m) \o <<"final">>
      BY <2>5
    <3>3. m \in 0 .. Len(s)  BY <1>4
    <3>4. /\ Begins(w(m) \o <<"final">>, all)
          /\ Begins((<<"start">> \o w(m)) \o <<"final">>, <<"start">> \o all)
      <4>. HIDE DEF s
      <4>. QED  BY <1>12, <3>3, HeardFits
    <3>. HIDE DEF t, w, all, m
    <3>5. \/ Begins(t, <<"start">> \o all)
          \/ cut /\ Begins(t, all)
      BY <3>2, <3>4
    <3>. QED  BY <1>2, <1>12, <3>5 DEF Fits, t
  <2>7. HeaderOld'  BY <2>2 DEF HeaderOld
  <2>8. HeardUpto'
    <3>1. Log' = s  BY <1>2, <2>2 DEF Log
    <3>2. \A p \in q + 1 .. Plugins : told'[f][p] = <<>>
      <4>1. \A p \in q + 1 .. Plugins : p \in 1 .. Plugins /\ p # q  BY Bounds
      <4>. QED  BY <1>3, <1>8, <2>1, <4>1
    <3>. HIDE DEF s, n
    <3>. QED  BY <1>2, <1>3, <2>2, <3>1, <3>2 DEF HeardUpto
  <2>. QED  BY <1>9, <2>1, <2>6, <2>7, <2>8
<1>. QED  BY <1>10, <1>11

LEMMA TInvInit == ASSUME Init PROVE TInv
<1>1. IInv /\ LogTypes  BY InitIInv DEF IInv
<1>2. swi = {} /\ proc = Reset("idle") /\ \A f \in Logs, p \in 1 .. Plugins : told[f][p] = <<>>
  BY DEF Init
<1>3. AllFit  BY <1>1, <1>2, NothingFits DEF AllFit
<1>. QED  BY <1>1, <1>2, <1>3 DEF TInv, Fresh, HeaderOld, HeardUpto, Reset

LEMMA TInvStep == ASSUME TInv, [Next]_vars PROVE TInv'
<1>1. IInv' /\ LogTypes'  BY IInvStep DEF TInv, IInv
<1>2. Fresh' /\ HeaderOld' /\ HeardUpto' /\ AllFit'
  <2>1. CASE UNCHANGED vars
    BY <2>1, AsideStep DEF vars, durable, server, history
  <2>2. CASE \E c \in Clients : Request(c)  BY <1>1, <2>2, RequestHears
  <2>3. CASE \/ Launch \/ Exit \/ RestoreCompleted
             \/ BackupStarts \/ BackupEnds \/ Crash \/ Boot
    BY <2>3, DeviceHears
  <2>4. CASE \/ NextLogFile \/ LogFileFails \/ NextPlugin \/ GiveUp
             \/ CompleteProcess \/ RunError
    BY <2>4, MoveHears
  <2>5. CASE Notify \/ Finalize  BY <2>5, TellHears
  <2>. QED  BY <2>1, <2>2, <2>3, <2>4, <2>5 DEF Next
<1>. QED  BY <1>1, <1>2 DEF TInv

\* What every plugin was told of a log, and where the processor is in it, agree with
\* what is written there.
THEOREM HearingInvariance == Spec => []TInv
<1>1. Init => TInv  BY TInvInit
<1>2. TInv /\ [Next]_vars => TInv'  BY TInvStep
<1>. QED  BY <1>1, <1>2, PTL DEF Spec

\* What was told are notes, and it begins the script where it fits.
LEMMA FittingPrefixes ==
    ASSUME LogTypes, NEW f \in Logs, NEW p \in 1 .. Plugins
    PROVE  /\ Begins(told[f][p], Script(f)) => IsPrefix(told[f][p], Script(f))
           /\ Begins(told[f][p], <<"start">> \o Script(f))
                 => IsPrefix(told[f][p], <<"start">> \o Script(f))
<1>1. told[f][p] \in Seq(Told)
  <2>1. told[f][p] \in Seq(NoteKinds)  BY DEF LogTypes, ToldType
  <2>2. NoteKinds \subseteq Told  BY DEF Told
  <2>. QED  BY <2>1, <2>2, SeqMonotonic
<1>. QED  BY <1>1, ScriptTypes, PrefixBegins

\* A plugin hears of a log what is written there, in order and once, whatever logs are
\* written, and however often the server, the processor or the device stops half way
\* (InitializeLogDirsL, SetStartPosL).
THEOREM ToldOnceInOrder == Spec => []ToldInOrder
<1>1. TInv => ToldInOrder
  BY FittingPrefixes DEF TInv, IInv, AllFit, Fits, ToldInOrder
<1>. QED  BY <1>1, HearingInvariance, PTL

\* No plugin hears a header before its StartL, as long as no log was given up half way
\* (swiobprocessor.cpp:517).
THEOREM StartComesFirst == Spec => []StartedFirst
<1>1. TInv => StartedFirst
  BY FittingPrefixes DEF TInv, IInv, AllFit, Fits, StartedFirst
<1>. QED  BY <1>1, HearingInvariance, PTL
==============================================================================
