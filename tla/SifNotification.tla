--------------------------- MODULE SifNotification ---------------------------
(***************************************************************************)
(* The notifications of the software installation framework: installers, each   *)
(* in a process of its own, publish their operations through properties of the   *)
(* kernel, and a notifier watches those properties for its client.              *)
(*                                                                          *)
(* An operation takes a key from a pool, which holds its start or end data,      *)
(* and appends it to the list in one more property.  Every call to a property   *)
(* is a step: the processes interleave between them.                           *)
(***************************************************************************)
EXTENDS Naturals, Sequences, FiniteSets

CONSTANTS
    Publishers, \* installers, with one operation each
    KeyCount,   \* KMaxNumberOfOperations - 1, the keys of the pool
    Nobody

ASSUME NotificationAssumption == KeyCount \in Nat \ {0} /\ Nobody \notin Publishers

VARIABLES
    prop,      \* the start-end property of each key
    prog,      \* the keys whose progress property is defined
    list,      \* the keys in KSifOperationKey
    pc,        \* where each installer is
    mine,      \* the key it uses, or has tried last, 0 for none
    copy,      \* what it has read of the list
    known,     \* iKeyArray of the notifier
    todo,      \* the keys that its RunL still has to look at
    state,     \* the notifier: before its first run, idle, or in RunL
    dirty,     \* its subscription to the list has completed
    watch,     \* the notifier of the end of each key
    started,   \* how often StartOperationHandler was called, up to 2
    ended,     \* the operations EndOperationHandler was called for
    quiet,     \* the operations whose subscription the client has cancelled (history)
    disturbed, \* a publisher was overtaken by another one or met an error (history)
    behind     \* the publishers were faster than the notifier (history)

properties == <<prop, prog, list>>
publisher == <<pc, mine, copy, disturbed>>
notifier == <<known, todo, state, dirty, watch, started, ended, quiet, behind>>
vars == <<properties, publisher, notifier>>

Keys == 1 .. KeyCount
NoData == [type |-> "undefined", op |-> Nobody]

Over == {"gone", "abandoned", "cut"}
PublisherState ==
    {"new", "picked", "defined", "set", "progress", "copied", "running", "looking",
     "found", "ended", "due", "removed", "failed", "deleted"} \cup Over

TypeOK ==
    /\ prop \in [Keys -> [type : {"undefined", "blank", "start", "end"},
                          op : Publishers \cup {Nobody}]]
    /\ prog \subseteq Keys
    /\ list \in Seq(Keys)
    /\ pc \in [Publishers -> PublisherState]
    /\ mine \in [Publishers -> Keys \cup {0}]
    /\ copy \in [Publishers -> Seq(Keys)]
    /\ known \in Seq(Keys)
    /\ todo \in Seq(Keys)
    /\ state \in {"first", "greeting", "idle", "adding"}
    /\ dirty \in BOOLEAN
    /\ watch \in [Keys -> {"none", "told", "waiting", "set", "deleted", "dead"}]
    /\ started \in [Publishers -> 0 .. 2]
    /\ ended \subseteq Publishers
    /\ quiet \subseteq Publishers
    /\ disturbed \in BOOLEAN
    /\ behind \in BOOLEAN

\* The list is defined by the SIF server when it starts.  Some keys of the pool may be
\* lost to installers that died before they listed them.  The notifier completes its
\* own request for the first run.
Init ==
    /\ \E lost \in SUBSET Keys :
          prop = [k \in Keys |-> [NoData EXCEPT !.type = IF k \in lost THEN "blank" ELSE @]]
    /\ prog = {}
    /\ list = <<>>
    /\ pc = [p \in Publishers |-> "new"]
    /\ mine = [p \in Publishers |-> 0]
    /\ copy = [p \in Publishers |-> <<>>]
    /\ known = <<>>
    /\ todo = <<>>
    /\ state = "first"
    /\ dirty = TRUE
    /\ watch = [k \in Keys |-> "none"]
    /\ started = [p \in Publishers |-> 0]
    /\ ended = {}
    /\ quiet = {}
    /\ disturbed = FALSE
    /\ behind = FALSE

-----------------------------------------------------------------------------
(* The properties.                                                            *)

Elements(s) == {s[i] : i \in DOMAIN s}
Goto(p, s) == pc' = [pc EXCEPT ![p] = s]

\* RProperty::Set and RProperty::Delete complete a subscription that waits.
Completes(k, how) ==
    watch' = [watch EXCEPT ![k] = IF @ = "waiting" THEN how ELSE @]

SetData(k, type, p) ==
    /\ prop' = [prop EXCEPT ![k] = [type |-> type, op |-> p]]
    /\ Completes(k, "set")

\* The whole list is read into a buffer of KMaxNumberOfOperations words.
Fits == Len(list) <= KeyCount

\* The notifier has not seen the last change, or what the key of p has announced.
Late(k) == (dirty /\ state # "first") \/ k \in Elements(todo) \/ watch[k] \in {"told", "set"}

SetList(p, new) ==
    /\ list' = new
    /\ dirty' = TRUE
    /\ behind' = (behind \/ Late(mine[p]))
    /\ disturbed' = (disturbed \/ list # copy[p])

-----------------------------------------------------------------------------
(* CPublishSifOperationInfo.                                                   *)

\* AvailableKeyL reads one property after the other until one is not defined.
\* Without a free key PublishStartL leaves with KErrInUse.
AvailableKey(p) ==
    /\ pc[p] = "new"
    /\ LET k == mine[p] + 1
           free == prop[k].type = "undefined"
       IN  /\ mine' = [mine EXCEPT ![p] = IF free \/ k < KeyCount THEN k ELSE 0]
           /\ Goto(p, IF free THEN "picked" ELSE "new")
    /\ UNCHANGED <<properties, copy, disturbed, notifier>>

\* Mutant: KErrAlreadyExists is not an error, as for KSifOperationKey.
DefineKeyAgain(p) ==
    /\ pc[p] = "picked"
    /\ prop' = [prop EXCEPT ![mine[p]] = [type |-> "blank", op |-> p]]
    /\ Goto(p, "defined")
    /\ UNCHANGED <<prog, list, mine, copy, disturbed, notifier>>

\* RProperty::Define; it leaves if another installer was faster.
DefineKey(p) ==
    /\ pc[p] = "picked"
    /\ IF prop[mine[p]].type = "undefined"
       THEN /\ prop' = [prop EXCEPT ![mine[p]] = [type |-> "blank", op |-> p]]
            /\ Goto(p, "defined")
            /\ UNCHANGED mine
       ELSE /\ Goto(p, "new")
            /\ mine' = [mine EXCEPT ![p] = 0]
            /\ UNCHANGED prop
    /\ UNCHANGED <<prog, list, copy, disturbed, notifier>>

SetStart(p) ==
    /\ pc[p] = "defined"
    /\ SetData(mine[p], "start", p)
    /\ Goto(p, "set")
    /\ UNCHANGED <<prog, list, mine, copy, disturbed>>
    /\ UNCHANGED <<known, todo, state, dirty, started, ended, quiet, behind>>

DefineProgress(p) ==
    /\ pc[p] = "set"
    /\ prog' = prog \cup {mine[p]}
    /\ Goto(p, IF mine[p] \in prog THEN "failed" ELSE "progress")
    /\ disturbed' = (disturbed \/ mine[p] \in prog)
    /\ UNCHANGED <<prop, list, mine, copy, notifier>>

ReadList(p) ==
    /\ pc[p] = "progress"
    /\ Goto(p, IF Fits THEN "copied" ELSE "failed")
    /\ copy' = IF Fits THEN [copy EXCEPT ![p] = list] ELSE copy
    /\ UNCHANGED <<properties, mine, disturbed, notifier>>

\* AddKeyL, and the list is published.
AppendKey(p) ==
    /\ pc[p] = "copied"
    /\ SetList(p, Append(copy[p], mine[p]))
    /\ copy' = [copy EXCEPT ![p] = <<>>]
    /\ Goto(p, "running")
    /\ UNCHANGED <<prop, prog, mine, known, todo, state, watch, started, ended, quiet>>

\* PublishCompletionL looks for the key of its component, KeyForGlobalComponentIdL.
\* (PublishProgressL does, too; it changes the progress property alone.)
LookUp(p) ==
    /\ pc[p] = "running"
    /\ Fits
    /\ copy' = [copy EXCEPT ![p] = list]
    /\ Goto(p, "looking")
    /\ UNCHANGED <<properties, mine, disturbed, notifier>>

\* The next key of the list.  It leaves if the key is no longer defined, or at the
\* end; the installer may call PublishCompletionL once more.
LookAtKey(p) ==
    /\ pc[p] = "looking"
    /\ LET data == IF copy[p] = <<>> THEN NoData ELSE prop[Head(copy[p])]
           leaves == data.type \in {"undefined", "blank"}
           found == data = [type |-> "start", op |-> p]
       IN  /\ Goto(p, IF leaves THEN "running" ELSE IF found THEN "found" ELSE "looking")
           /\ copy' = [copy EXCEPT ![p] = IF leaves \/ found THEN <<>> ELSE Tail(@)]
           /\ mine' = IF ~leaves /\ found THEN [mine EXCEPT ![p] = Head(copy[p])] ELSE mine
    /\ UNCHANGED <<properties, disturbed, notifier>>

\* The end data, and the timer that will give the key back.
SetEnd(p) ==
    /\ pc[p] = "found"
    /\ SetData(mine[p], "end", p)
    /\ Goto(p, "ended")
    /\ UNCHANGED <<prog, list, mine, copy, disturbed>>
    /\ UNCHANGED <<known, todo, state, dirty, started, ended, quiet, behind>>

\* CDeleteKeyTimer::RunL, KDeleteKeyDelay later.
TimerReads(p) ==
    /\ pc[p] = "ended"
    /\ Goto(p, IF Fits THEN "due" ELSE "failed")
    /\ copy' = IF Fits THEN [copy EXCEPT ![p] = list] ELSE copy
    /\ disturbed' = (disturbed \/ ~Fits)
    /\ UNCHANGED <<properties, mine, notifier>>

Without(s, k) ==
    LET first == CHOOSE i \in DOMAIN s : s[i] = k /\ \A j \in 1 .. i - 1 : s[j] # k
    IN SubSeq(s, 1, first - 1) \o SubSeq(s, first + 1, Len(s))

TimerRemoves(p) ==
    /\ pc[p] = "due"
    /\ mine[p] \in Elements(copy[p])
    /\ SetList(p, Without(copy[p], mine[p]))
    /\ copy' = [copy EXCEPT ![p] = <<>>]
    /\ Goto(p, "removed")
    /\ UNCHANGED <<prop, prog, mine, known, todo, state, watch, started, ended, quiet>>

\* RArray::Remove panics on the index of a key that is not there.
TimerPanics(p) ==
    /\ pc[p] = "due"
    /\ mine[p] \notin Elements(copy[p])
    /\ copy' = [copy EXCEPT ![p] = <<>>]
    /\ Goto(p, "abandoned")
    /\ UNCHANGED <<properties, mine, disturbed, notifier>>

\* Mutant: the timer leaves the properties to the destructor.
DeleteFailedKey(p) ==
    /\ pc[p] = "failed"
    /\ prop' = [prop EXCEPT ![mine[p]] = NoData]
    /\ Completes(mine[p], "deleted")
    /\ Goto(p, "deleted")
    /\ UNCHANGED <<prog, list, mine, copy, disturbed>>
    /\ UNCHANGED <<known, todo, state, dirty, started, ended, quiet, behind>>

\* The two properties are deleted by the timer, or by the destructor after a leave.
DeleteKey(p) ==
    /\ pc[p] \in {"removed", "failed"}
    /\ prop' = [prop EXCEPT ![mine[p]] = NoData]
    /\ Completes(mine[p], "deleted")
    /\ Goto(p, "deleted")
    /\ UNCHANGED <<prog, list, mine, copy, disturbed>>
    /\ UNCHANGED <<known, todo, state, dirty, started, ended, quiet, behind>>

\* Another installer may have taken the key since: it loses its progress property.
DeleteProgress(p) ==
    /\ pc[p] = "deleted"
    /\ prog' = prog \ {mine[p]}
    /\ Goto(p, "gone")
    /\ disturbed' = (disturbed \/ prop[mine[p]].op # Nobody)
    /\ UNCHANGED <<prop, list, mine, copy, notifier>>

\* A call leaves while the key is set to be deleted (SetKeyToDelete).
Fault(p) ==
    /\ pc[p] \in {"defined", "set", "progress", "copied", "found"}
    /\ Goto(p, "failed")
    /\ copy' = [copy EXCEPT ![p] = <<>>]
    /\ disturbed' = (disturbed \/ pc[p] = "found")
    /\ UNCHANGED <<properties, mine, notifier>>

\* The process of the installer ends, or the object is destroyed between two calls
\* and takes the timer with it: the properties stay.
Dies(p) ==
    /\ pc[p] \notin {"new", "picked"} \cup Over
    /\ Goto(p, IF pc[p] = "ended" THEN "cut" ELSE "abandoned")
    /\ copy' = [copy EXCEPT ![p] = <<>>]
    /\ UNCHANGED <<properties, mine, disturbed, notifier>>

-----------------------------------------------------------------------------
(* CSifOperationsNotifier, whose client subscribes to each operation it is told.    *)

\* The loop over the old keys removes the ones that are not in the new list, and
\* passes over the key behind each one it removes.
Removed(old, new) ==
    LET removed[i \in 0 .. Len(old)] ==
            i > 0 /\ old[i] \notin Elements(new) /\ ~removed[i - 1]
    IN {i \in DOMAIN old : removed[i]}

\* Mutant: a key that is not in the list any more is not removed from iKeyArray.
KeptAll(s, gone) == s

Kept(s, gone) ==
    LET kept[i \in 0 .. Len(s)] ==
            IF i = 0 THEN <<>>
            ELSE IF i \in gone THEN kept[i - 1] ELSE Append(kept[i - 1], s[i])
    IN kept[Len(s)]

\* Mutant: off by one, a single new key is not noticed.
GrownByTwo(new) == Len(known) + 1 < Len(new)

Grown(new) == Len(known) < Len(new)

\* The notifier and its client share a thread: a handler that has been told of a
\* start subscribes before anything else runs.
Told == {k \in Keys : watch[k] = "told"}

\* RunL up to the loop: subscribed again, it reads the list and compares the length
\* with the one of the keys it knows.  (A change between the two calls is read and
\* makes it run once more, for equal lengths.)
Run ==
    /\ state \in {"first", "idle"} /\ Told = {}
    /\ dirty
    /\ dirty' = FALSE
    /\ LET new == IF Fits THEN list ELSE known
           gone == Removed(known, new)
       IN  IF state = "first"
           THEN /\ known' = new
                /\ todo' = new
                /\ state' = IF new = <<>> THEN "idle" ELSE "greeting"
                /\ UNCHANGED watch
           ELSE IF Grown(new)
           THEN /\ todo' = SubSeq(new, Len(known) + 1, Len(new))
                /\ state' = "adding"
                /\ UNCHANGED <<known, watch>>
           ELSE IF Len(known) > Len(new)
           THEN /\ known' = Kept(known, gone)
                /\ watch' = [k \in Keys |-> IF \E i \in gone : known[i] = k
                                            THEN "none" ELSE watch[k]]
                /\ UNCHANGED <<todo, state>>
           ELSE UNCHANGED <<known, todo, state, watch>>
    /\ UNCHANGED <<properties, publisher, started, ended, quiet, behind>>

\* One key of the loop: GetDataL, and the handler of the client.
Announce ==
    /\ state \in {"greeting", "adding"} /\ Told = {}
    /\ LET k == Head(todo)
           data == prop[k]
           leaves == data.type \in {"undefined", "blank"}
           rest == IF leaves THEN <<>> ELSE Tail(todo)
       IN  /\ todo' = rest
           /\ state' = IF rest = <<>> THEN "idle" ELSE state
           /\ IF data.type = "start"
              THEN /\ started' = [started EXCEPT ![data.op] = IF @ < 2 THEN @ + 1 ELSE @]
                   /\ known' = IF state = "adding" THEN Append(known, k) ELSE known
                   /\ watch' = [watch EXCEPT ![k] = "told"]
                   /\ UNCHANGED behind
              ELSE /\ behind' = (behind \/ leaves \/ state = "adding")
                   /\ UNCHANGED <<started, known, watch>>
    /\ UNCHANGED <<properties, publisher, dirty, ended, quiet>>

\* The handler calls SubscribeL for the key.  An end that was published since GetDataL
\* read the start completes no subscription.
Subscribe(k) ==
    /\ watch[k] = "told"
    /\ watch' = [watch EXCEPT ![k] = "waiting"]
    /\ behind' = (behind \/ prop[k].type # "start")
    /\ UNCHANGED <<properties, publisher, known, todo, state, dirty, started, ended, quiet>>

\* CSifNotifierBase::RunL: subscribes again and reads; a property that was deleted
\* ends it.
NotifierRun(k) ==
    /\ watch[k] \in {"set", "deleted"} /\ state = "idle" /\ Told = {}
    /\ watch' = [watch EXCEPT ![k] = IF @ = "set" THEN "waiting" ELSE "dead"]
    /\ ended' = IF watch[k] = "set" /\ prop[k].type = "end"
                THEN ended \cup {prop[k].op} ELSE ended
    /\ UNCHANGED <<properties, publisher, known, todo, state, dirty, started, quiet, behind>>

\* CancelSubscribeL of a key.
CancelSubscribe(k) ==
    /\ k \in Elements(known)
    /\ watch[k] \notin {"none", "told"}
    /\ watch' = [watch EXCEPT ![k] = "none"]
    /\ quiet' = quiet \cup ({prop[k].op} \ {Nobody})
    /\ UNCHANGED <<properties, publisher, known, todo, state, dirty, started, ended, behind>>

-----------------------------------------------------------------------------

Publish(p) ==
    \/ AvailableKey(p) \/ DefineKey(p) \/ SetStart(p) \/ DefineProgress(p)
    \/ ReadList(p) \/ AppendKey(p) \/ LookUp(p) \/ LookAtKey(p) \/ SetEnd(p)
    \/ TimerReads(p) \/ TimerRemoves(p) \/ TimerPanics(p)
    \/ DeleteKey(p) \/ DeleteProgress(p)

Next ==
    \/ \E p \in Publishers : Publish(p) \/ Fault(p) \/ Dies(p)
    \/ Run \/ Announce
    \/ \E k \in Keys : Subscribe(k) \/ NotifierRun(k) \/ CancelSubscribe(k)

\* Threads are scheduled: an installer goes on with a call it has begun, its active
\* scheduler runs the timer, and the client's runs the notifiers.  An operation may
\* take for ever.
Fairness ==
    /\ \A p \in Publishers : WF_vars(pc[p] \notin {"new", "running"} /\ Publish(p))
    /\ WF_vars(Run)
    /\ WF_vars(Announce)
    /\ \A k \in Keys : WF_vars(Subscribe(k)) /\ WF_vars(NotifierRun(k))

Spec == Init /\ [][Next]_vars /\ Fairness

-----------------------------------------------------------------------------
(* What the components promise.                                               *)

Holds(p) == pc[p] \notin {"new", "picked", "deleted"} \cup Over
Occupies(p) == mine[p] # 0 /\ prop[mine[p]].op = p
Runs(p) == pc[p] \in {"running", "looking", "found"}
Listed(p) == Runs(p) \/ pc[p] \in {"ended", "due"}

\* Two operations never share a key, and the data under a key is its owner's, also
\* when both found the key free at once (AvailableKeyL and Define are two calls).
KeysDisjoint ==
    \A p \in Publishers : Holds(p) =>
        /\ Occupies(p)
        /\ \A q \in Publishers \ {p} : Holds(q) => mine[q] # mine[p]

\* While the publishers do not overtake each other between reading and writing the
\* list, a running operation is in it once, can publish its progress, and no key of
\* the list is without data, whichever calls leave and whichever process dies.
ListedOnce ==
    ~disturbed =>
        /\ \A p \in Publishers : Listed(p) =>
              /\ mine[p] \in prog
              /\ Cardinality({i \in DOMAIN list : list[i] = mine[p]}) = 1
        /\ \A i \in DOMAIN list : prop[list[i]].type \in {"start", "end"}

\* A notifier that keeps up has, when it has nothing to do, the very list of the
\* publishers, and has told its client of each operation that runs; it compares no
\* more than the lengths of the lists (RunL).
InStep ==
    ~disturbed /\ ~behind /\ state = "idle" /\ ~dirty =>
        /\ known = list
        /\ \A i \in DOMAIN list :
              prop[list[i]].type = "start" => started[prop[list[i]].op] = 1

\* Such a notifier tells of a start once, of an end after its start, and of the end
\* of all it told the start of, before the key is taken off the list.
ToldRight ==
    ~disturbed /\ ~behind =>
        \A p \in Publishers :
           /\ started[p] <= 1
           /\ p \in ended => started[p] = 1
           /\ pc[p] \in {"removed", "deleted", "gone"} /\ started[p] = 1
                 => p \in ended \cup quiet

\* The key of a completed operation comes back to the pool unless its installer goes
\* away within KDeleteKeyDelay (CDeleteKeyTimer).
KeyComesBack ==
    \A p \in Publishers : pc[p] = "ended" ~> ~Occupies(p) \/ pc[p] \in Over

\* An operation that runs is told to the client of a notifier that keeps up.
RunningTold ==
    [](~disturbed /\ ~behind) =>
        \A p \in Publishers : 
            pc[p] = "running" ~> started[p] = 1 \/ ~Runs(p)

\* sifnotification_internal.h: the property of an operation that has published its
\* completion will be deleted after the timer.  The timer is a member of the object
\* that publishes, and the plug-in is destroyed as soon as it has completed.
DeletedAfterTimer ==
    \A p \in Publishers : pc[p] = "ended" ~> ~Occupies(p) \/ pc[p] = "abandoned"
=============================================================================
