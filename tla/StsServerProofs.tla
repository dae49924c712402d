---------------------------- MODULE StsServerProofs ----------------------------
(***************************************************************************)
(* Theorems about StsServer for any finite set of sessions, any identifiers  *)
(* and any bounds: type correctness, that the reference counts are exact,    *)
(* that only a session that holds a transaction can resolve it, that a        *)
(* transaction is all or nothing, and what can stay in a journal that no      *)
(* session will end and be found there by a transaction of the same           *)
(* identifier.                                                               *)
(***************************************************************************)
EXTENDS StsServer, FiniteSetTheorems, TLAPS

\* A server that does not run has no wrappers.
DownHasNone == ~up => table = {}

SInv == TypeOK /\ RefsExact /\ DownHasNone

-------------------------------------------------------------------------------
(***************************************************************************)
(* Lemmas about the reference counts                                        *)
(***************************************************************************)

\* The sessions attached to a transaction are finitely many, so that they can
\* be counted.
LEMMA AttachedFinite ==
    ASSUME NEW t PROVE IsFiniteSet(Attached(t)) /\ Cardinality(Attached(t)) \in Nat
<1>1. Attached(t) \in SUBSET Sessions BY DEF Attached
<1> QED BY <1>1, FS_Subset, FS_CardinalityType, SessionsAssumption

\* A session that moves to x is attached to x and to nothing else.
LEMMA AttachedMove ==
    ASSUME TypeOK, NEW s \in Sessions, NEW x,
           trans' = [trans EXCEPT ![s] = x], NEW t
    PROVE  Attached(t)' = IF t = x THEN Attached(t) \cup {s} ELSE Attached(t) \ {s}
BY DEF TypeOK, Attached

\* A transaction without a wrapper has no sessions.
LEMMA NoWrapper ==
    ASSUME TypeOK, RefsExact, NEW t \in Ids, t \notin table
    PROVE  Attached(t) = {} /\ refs[t] = 0
<1>1. Attached(t) = {} BY IdsAssumption DEF RefsExact, Attached
<1> QED BY <1>1, FS_EmptySet DEF RefsExact

\* AttachTransactionL keeps the counts exact.
LEMMA JoinCounts ==
    ASSUME TypeOK, RefsExact, NEW s \in Sessions, NEW t \in Ids, trans[s] = NoId,
           trans' = [trans EXCEPT ![s] = t],
           refs' = [refs EXCEPT ![t] = refs[t] + 1],
           table' = table \cup {t}
    PROVE  refs' \in [Ids -> Nat] /\ RefsExact'
<1>1. refs' \in [Ids -> Nat] BY DEF TypeOK
<1>2. \A r \in Sessions : trans'[r] \in table' \cup {NoId} BY DEF TypeOK, RefsExact
<1>3. ASSUME NEW u \in Ids PROVE refs'[u] = Cardinality(Attached(u)')
    <2>1. s \notin Attached(u) BY IdsAssumption DEF Attached
    <2>2. CASE u = t
        <3>1. Attached(u)' = Attached(u) \cup {s} BY <2>2, AttachedMove
        <3>2. Cardinality(Attached(u) \cup {s}) = Cardinality(Attached(u)) + 1
            BY <2>1, AttachedFinite, FS_AddElement
        <3>3. refs[u] = Cardinality(Attached(u)) BY DEF RefsExact
        <3>4. refs'[u] = refs[u] + 1 BY <2>2 DEF TypeOK
        <3> QED BY <3>1, <3>2, <3>3, <3>4
    <2>3. CASE u # t
        <3>0. Attached(u)' = Attached(u) \ {s} BY <2>3, AttachedMove
        <3>1. Attached(u)' = Attached(u) BY <2>1, <3>0
        <3> QED BY <2>3, <3>1 DEF RefsExact, TypeOK
    <2> QED BY <2>2, <2>3
<1> QED BY <1>1, <1>2, <1>3 DEF RefsExact

\* A session is among those its transaction counts; when the count is one it is
\* alone.
LEMMA HolderCounted ==
    ASSUME TypeOK, RefsExact, NEW s \in Sessions, trans[s] # NoId
    PROVE  /\ trans[s] \in Ids /\ s \in Attached(trans[s])
           /\ refs[trans[s]] \in Nat \ {0}
           /\ refs[trans[s]] = 1 => Attached(trans[s]) = {s}
<1> DEFINE t == trans[s]
<1>1. t \in Ids /\ s \in Attached(t) BY DEF TypeOK, Attached
<1>2. refs[t] = Cardinality(Attached(t)) BY <1>1 DEF RefsExact
<1>3. refs[t] # 0 BY <1>1, <1>2, AttachedFinite, FS_EmptySet
<1>4. refs[t] \in Nat BY <1>1 DEF TypeOK
<1>5. ASSUME refs[t] = 1 PROVE Attached(t) = {s}
    <2>1. PICK x : Attached(t) = {x} BY <1>2, <1>5, AttachedFinite, FS_Singleton
    <2> QED BY <1>1, <2>1
<1> QED BY <1>1, <1>3, <1>4, <1>5

\* ReleaseTransactionL keeps the counts exact, and leaves no session with a
\* wrapper that it deleted.
LEMMA LeaveCounts ==
    ASSUME TypeOK, RefsExact, NEW s \in Sessions, trans[s] # NoId,
           trans' = [trans EXCEPT ![s] = NoId],
           refs' = [refs EXCEPT ![trans[s]] = refs[trans[s]] - 1],
           \/ table' = table
           \/ refs[trans[s]] = 1 /\ table' = table \ {trans[s]}
    PROVE  refs' \in [Ids -> Nat] /\ table' \subseteq Ids /\ RefsExact'
<1> DEFINE t == trans[s]
<1>0. /\ t \in Ids /\ s \in Attached(t) /\ refs[t] \in Nat \ {0}
      /\ refs[t] = 1 => Attached(t) = {s}
    BY HolderCounted
<1>1. refs' \in [Ids -> Nat]
    <2>1. refs[t] - 1 \in Nat BY <1>0
    <2> QED BY <2>1 DEF TypeOK
<1>2. table' \subseteq Ids BY DEF TypeOK
<1>3. ASSUME NEW r \in Sessions PROVE trans'[r] \in table' \cup {NoId}
    <2>1. CASE r = s BY <2>1 DEF TypeOK
    <2>2. CASE r # s
        <3>1. trans'[r] = trans[r] /\ trans[r] \in table \cup {NoId}
            BY <2>2 DEF TypeOK, RefsExact
        <3>2. refs[t] = 1 => trans[r] # t BY <1>0, <2>2 DEF Attached
        <3> QED BY <3>1, <3>2
    <2> QED BY <2>1, <2>2
<1>4. ASSUME NEW u \in Ids PROVE refs'[u] = Cardinality(Attached(u)')
    <2>1. u # NoId BY IdsAssumption
    <2>2. Attached(u)' = Attached(u) \ {s} BY <2>1, AttachedMove
    <2>3. Cardinality(Attached(u) \ {s}) =
              IF s \in Attached(u) THEN Cardinality(Attached(u)) - 1
                                   ELSE Cardinality(Attached(u))
        BY AttachedFinite, FS_RemoveElement
    <2>4. s \in Attached(u) <=> u = t BY DEF Attached
    <2>5. refs'[u] = IF u = t THEN refs[u] - 1 ELSE refs[u] BY <1>0 DEF TypeOK
    <2> QED BY <2>2, <2>3, <2>4, <2>5 DEF RefsExact
<1> QED BY <1>1, <1>2, <1>3, <1>4 DEF RefsExact

\* Without changes to sessions, wrappers and counts, the counts stay exact.
LEMMA SameCounts ==
    ASSUME RefsExact, UNCHANGED <<trans, table, refs>> PROVE RefsExact'
BY DEF RefsExact, Attached

\* A server whose memory is gone has exact counts.
LEMMA GoneCounts == ASSUME Gone PROVE RefsExact'
<1>1. \A s \in Sessions : trans'[s] = NoId BY DEF Gone
<1>2. \A t \in Ids : Attached(t)' = {} BY <1>1, IdsAssumption DEF Attached
<1>3. \A t \in Ids : refs'[t] = 0 BY DEF Gone
<1> QED BY <1>1, <1>2, <1>3, FS_EmptySet DEF RefsExact

\* What the journals hold and what became of it has the declared types.
JournalTypes ==
    /\ pending \in [Ids -> SUBSET Ops] /\ stage \in [Ids -> {"files", "redo", "undo"}]
    /\ kept \subseteq Ops /\ undone \subseteq Ops /\ failed \subseteq Ids

\* Resolving transactions keeps these types,
LEMMA ResolveTypes ==
    ASSUME TypeOK, NEW T \in SUBSET Ids, Resolve(T), failed' \subseteq Ids
    PROVE  JournalTypes'
<1>1. pending' \in [Ids -> SUBSET Ops] BY DEF TypeOK, Resolve
<1>2. stage' \in [Ids -> {"files", "redo", "undo"}] BY DEF TypeOK, Resolve
<1>3. kept' \subseteq Ops /\ undone' \subseteq Ops BY DEF TypeOK, Resolve
<1> QED BY <1>1, <1>2, <1>3 DEF JournalTypes

\* ... so does a fault, which is counted,
LEMMA FailsType == ASSUME TypeOK, Fails PROVE faults' \in 0 .. MaxFaults
BY BoundsAssumption DEF TypeOK, Fails

\* ... so does RollbackAllL, whatever it fails to roll back,
LEMMA RollBackAllTypes ==
    ASSUME TypeOK, RollBackAll PROVE JournalTypes' /\ faults' \in 0 .. MaxFaults
<1>1. PICK T \in SUBSET Unresolved :
         /\ Resolve(T) /\ failed' = Unresolved \ T
         /\ IF T = Unresolved THEN UNCHANGED faults ELSE Fails
    BY DEF RollBackAll
<1>2. T \in SUBSET Ids /\ failed' \subseteq Ids BY <1>1 DEF Unresolved
<1>3. faults' \in 0 .. MaxFaults BY <1>1, FailsType DEF TypeOK
<1> QED BY <1>1, <1>2, <1>3, ResolveTypes

\* ... and so does a roll back that leaves.
LEMMA LeavesTypes ==
    ASSUME TypeOK, NEW t \in Ids, RollBackLeaves(t)
    PROVE  /\ JournalTypes' /\ faults' \in 0 .. MaxFaults
           /\ streams' \in [Ids -> {"fresh", "open", "closed"}]
<1>1. faults' \in 0 .. MaxFaults BY FailsType DEF RollBackLeaves
<1>2. /\ stage' \in [Ids -> {"files", "redo", "undo"}]
      /\ streams' \in [Ids -> {"fresh", "open", "closed"}]
    <2>1. CASE UNCHANGED <<stage, streams>> BY <2>1 DEF TypeOK
    <2>2. CASE /\ stage' = [stage EXCEPT ![t] = IF @ = "redo" THEN "redo" ELSE "undo"]
               /\ streams' \in {streams, [streams EXCEPT ![t] = "closed"]}
        BY <2>2 DEF TypeOK
    <2> QED BY <2>1, <2>2 DEF RollBackLeaves
<1> QED BY <1>1, <1>2 DEF RollBackLeaves, TypeOK, JournalTypes

-------------------------------------------------------------------------------
(***************************************************************************)
(* The invariant                                                            *)
(***************************************************************************)

\* The server starts with exact counts.
LEMMA SInvInit == Init => SInv
<1> SUFFICES ASSUME Init PROVE SInv OBVIOUS
<1>1. TypeOK
    <2>1. /\ count \in 0 .. MaxOps
          /\ creates \in 0 .. MaxCreates /\ opens \in 0 .. MaxOpens
          /\ crashes \in 0 .. MaxCrashes /\ faults \in 0 .. MaxFaults
        BY BoundsAssumption DEF Init
    <2> QED BY <2>1 DEF Init, TypeOK
<1>2. \A t \in Ids : Attached(t) = {} BY IdsAssumption DEF Init, Attached
<1>3. RefsExact BY <1>2, FS_EmptySet DEF Init, RefsExact
<1> QED BY <1>1, <1>3 DEF Init, SInv, DownHasNone

\* A request that lets go of its session's transaction; the wrapper goes only
\* with the last session.
LEMMA FinaliseStep ==
    ASSUME TypeOK, RefsExact, NEW s \in Sessions, trans[s] # NoId, Finalise(s)
    PROVE  /\ refs' \in [Ids -> Nat] /\ table' \subseteq Ids /\ RefsExact'
           /\ trans' \in [Sessions -> Ids \cup {NoId}]
           /\ completed' \in [Ids -> BOOLEAN]
<1>1. /\ refs' = [refs EXCEPT ![trans[s]] = refs[trans[s]] - 1]
      /\ table' = table \/ (refs[trans[s]] = 1 /\ table' = table \ {trans[s]})
    BY DEF Finalise, Detach
<1>2. trans' = [trans EXCEPT ![s] = NoId] BY DEF Finalise
<1>3. refs' \in [Ids -> Nat] /\ table' \subseteq Ids /\ RefsExact'
    BY <1>1, <1>2, LeaveCounts
<1> QED BY <1>2, <1>3 DEF Finalise, TypeOK

\* CreateTransactionL attaches the first session to a transaction.
LEMMA CreateCounts ==
    ASSUME SInv, NEW s \in Sessions, NEW t \in Ids, CreateTransaction(s, t)
    PROVE  SInv'
<1> USE DEF SInv
<1>1. Attached(t) = {} /\ refs[t] = 0 BY NoWrapper DEF CreateTransaction, FreshId
<1>2. refs' = [refs EXCEPT ![t] = refs[t] + 1] BY <1>1 DEF CreateTransaction
<1>3. refs' \in [Ids -> Nat] /\ RefsExact' BY <1>2, JoinCounts DEF CreateTransaction
<1>4. creates' \in 0 .. MaxCreates
    BY BoundsAssumption DEF CreateTransaction, TypeOK
<1>5. /\ trans' \in [Sessions -> Ids \cup {NoId}] /\ table' \subseteq Ids
      /\ completed' \in [Ids -> BOOLEAN]
    BY DEF CreateTransaction, TypeOK
<1>6. /\ streams' \in [Ids -> {"fresh", "open", "closed"}]
      /\ made' \in [Ids -> SUBSET Ops] /\ late' \subseteq Ids
    BY DEF CreateTransaction, TypeOK
<1>7. TypeOK'
    BY <1>3, <1>4, <1>5, <1>6 DEF CreateTransaction, TypeOK, durable, outcome
<1> QED BY <1>3, <1>7 DEF CreateTransaction, DownHasNone

\* OpenTransactionL attaches one more.
LEMMA OpenCounts ==
    ASSUME SInv, NEW s \in Sessions, NEW t \in Ids, OpenTransaction(s, t)
    PROVE  SInv'
<1> USE DEF SInv
<1>1. /\ table' = table \cup {t}
      /\ refs' = [refs EXCEPT ![t] = refs[t] + 1]
    BY DEF OpenTransaction
<1>2. refs' \in [Ids -> Nat] /\ RefsExact' BY <1>1, JoinCounts DEF OpenTransaction
<1>3. opens' \in 0 .. MaxOpens BY BoundsAssumption DEF OpenTransaction, TypeOK
<1>4. TypeOK' BY <1>2, <1>3 DEF OpenTransaction, TypeOK, durable, outcome, work
<1> QED BY <1>2, <1>4 DEF OpenTransaction, DownHasNone

\* A commit or a roll back that was successful detaches its session.
LEMMA EndCounts ==
    ASSUME SInv, NEW s \in Sessions, Commit(s) \/ RollBack(s) PROVE SInv'
<1> USE DEF SInv
<1>1. trans[s] # NoId /\ Finalise(s) BY DEF Commit, RollBack
<1>2. /\ refs' \in [Ids -> Nat] /\ table' \subseteq Ids /\ RefsExact'
      /\ trans' \in [Sessions -> Ids \cup {NoId}] /\ completed' \in [Ids -> BOOLEAN]
    BY <1>1, FinaliseStep
<1>3. trans[s] \in Ids BY <1>1 DEF TypeOK
<1>4. JournalTypes'
    <2>1. CASE Commit(s)
        <3>1. pending' \in [Ids -> SUBSET Ops] /\ kept' \subseteq Ops
            BY <1>3, <2>1 DEF Commit, TypeOK
        <3>2. stage' \in [Ids -> {"files", "redo", "undo"}] /\ failed' \subseteq Ids
            BY <2>1 DEF Commit, TypeOK
        <3> QED BY <2>1, <3>1, <3>2 DEF Commit, TypeOK, JournalTypes
    <2>2. CASE RollBack(s)
        <3>1. {trans[s]} \in SUBSET Ids BY <1>3
        <3>2. failed' \subseteq Ids BY <2>2 DEF RollBack, TypeOK
        <3> QED BY <2>2, <3>1, <3>2, ResolveTypes DEF RollBack
    <2> QED BY <2>1, <2>2
<1>5. streams' \in [Ids -> {"fresh", "open", "closed"}]
    BY DEF Commit, RollBack, TypeOK
<1>6. /\ UNCHANGED <<up, made, late, count, creates, opens, crashes, faults>>
    BY DEF Commit, RollBack, work, calls
<1>7. TypeOK' BY <1>2, <1>4, <1>5, <1>6 DEF TypeOK, JournalTypes
<1>8. DownHasNone' BY DEF Commit, RollBack, DownHasNone
<1> QED BY <1>2, <1>7, <1>8

\* So does a session that is closed, whether its roll back is successful or not.
LEMMA CloseCounts ==
    ASSUME SInv, NEW s \in Sessions, CloseSession(s) PROVE SInv'
<1> USE DEF SInv
<1> DEFINE t == trans[s]
<1>0. t # NoId /\ trans' = [trans EXCEPT ![s] = NoId] BY DEF CloseSession
<1>1. t \in Ids BY <1>0 DEF TypeOK
<1>2. \/ /\ Detach(t, refs[t] = 1)
         /\ UNCHANGED <<durable, streams, outcome, faults>>
      \/ /\ refs[t] = 1
         /\ Resolve({t}) /\ failed' = failed \ {t}
         /\ Detach(t, TRUE) /\ UNCHANGED <<streams, faults>>
      \/ RollBackLeaves(t) /\ Detach(t, FALSE)
    BY DEF CloseSession
<1>3. /\ refs' = [refs EXCEPT ![t] = refs[t] - 1]
      /\ table' = table \/ (refs[t] = 1 /\ table' = table \ {t})
    BY <1>2 DEF Detach
<1>4. refs' \in [Ids -> Nat] /\ table' \subseteq Ids /\ RefsExact'
    BY <1>0, <1>3, LeaveCounts
<1>5. /\ JournalTypes' /\ faults' \in 0 .. MaxFaults
      /\ streams' \in [Ids -> {"fresh", "open", "closed"}]
    <2>1. CASE UNCHANGED <<durable, streams, outcome, faults>>
        BY <2>1 DEF TypeOK, JournalTypes, durable, outcome
    <2>2. CASE Resolve({t}) /\ failed' = failed \ {t} /\ UNCHANGED <<streams, faults>>
        <3>1. {t} \in SUBSET Ids /\ failed' \subseteq Ids BY <1>1, <2>2 DEF TypeOK
        <3>2. JournalTypes' BY <2>2, <3>1, ResolveTypes
        <3> QED BY <2>2, <3>2 DEF TypeOK
    <2>3. CASE RollBackLeaves(t) BY <1>1, <2>3, LeavesTypes
    <2> QED BY <1>2, <2>1, <2>2, <2>3
<1>6. trans' \in [Sessions -> Ids \cup {NoId}] BY <1>0 DEF TypeOK
<1>7. UNCHANGED <<up, completed, made, late, count, creates, opens, crashes>>
    BY DEF CloseSession, work, calls
<1>8. TypeOK' BY <1>4, <1>5, <1>6, <1>7 DEF TypeOK, JournalTypes
<1> QED BY <1>4, <1>7, <1>8 DEF CloseSession, DownHasNone

\* Every request preserves the invariant.
LEMMA RequestStep ==
    ASSUME SInv, NEW s \in Sessions, Request(s) PROVE SInv'
<1> USE DEF SInv
<1>1. ASSUME Operate(s) PROVE SInv'
    <2>1. count' \in Ops /\ count' \in 0 .. MaxOps
        BY <1>1, BoundsAssumption DEF Operate, TypeOK, Ops
    <2>2. pending' \in [Ids -> SUBSET Ops] /\ made' \in [Ids -> SUBSET Ops]
        BY <1>1, <2>1 DEF Operate, TypeOK
    <2>3. /\ streams' \in [Ids -> {"fresh", "open", "closed"}] /\ late' \subseteq Ids
        BY <1>1 DEF Operate, TypeOK
    <2>4. TypeOK' BY <1>1, <2>1, <2>2, <2>3 DEF Operate, TypeOK, outcome
    <2>5. RefsExact' BY <1>1, SameCounts DEF Operate
    <2> QED BY <1>1, <2>4, <2>5 DEF Operate, DownHasNone
<1>2. ASSUME CommitFailsLate(s) PROVE SInv'
    <2>1. faults' \in 0 .. MaxFaults BY <1>2, FailsType DEF CommitFailsLate
    <2>2. stage' \in [Ids -> {"files", "redo", "undo"}]
        BY <1>2 DEF CommitFailsLate, TypeOK
    <2>3. TypeOK'
        BY <1>2, <2>1, <2>2 DEF CommitFailsLate, TypeOK, server, outcome, work, calls
    <2>4. RefsExact' BY <1>2, SameCounts DEF CommitFailsLate, server
    <2> QED BY <1>2, <2>3, <2>4 DEF CommitFailsLate, DownHasNone, server
<1>3. ASSUME RollBackFails(s) PROVE SInv'
    <2>1. trans[s] \in Ids BY <1>3 DEF RollBackFails, TypeOK
    <2>2. /\ JournalTypes' /\ faults' \in 0 .. MaxFaults
          /\ streams' \in [Ids -> {"fresh", "open", "closed"}]
        BY <1>3, <2>1, LeavesTypes DEF RollBackFails
    <2>3. TypeOK' BY <1>3, <2>2 DEF RollBackFails, TypeOK, JournalTypes, work, calls
    <2>4. RefsExact' BY <1>3, SameCounts DEF RollBackFails
    <2> QED BY <1>3, <2>3, <2>4 DEF RollBackFails, DownHasNone
<1> QED BY <1>1, <1>2, <1>3, CreateCounts, OpenCounts, EndCounts, CloseCounts
        DEF Request

\* So does what the server does on its own, and a crash.
LEMMA ServerStep ==
    ASSUME SInv, RollBackAllPending \/ Crash \/ Exit \/ Start PROVE SInv'
<1> USE DEF SInv
<1>1. CASE RollBackAllPending
    <2>1. JournalTypes' /\ faults' \in 0 .. MaxFaults
        BY <1>1, RollBackAllTypes DEF RollBackAllPending
    <2>2. TypeOK'
        BY <1>1, <2>1 DEF RollBackAllPending, TypeOK, JournalTypes, server, work, calls
    <2>3. RefsExact' BY <1>1, SameCounts DEF RollBackAllPending, server
    <2> QED BY <1>1, <2>2, <2>3 DEF RollBackAllPending, DownHasNone, server
<1>2. CASE Crash
    <2>1. crashes' \in 0 .. MaxCrashes BY <1>2, BoundsAssumption DEF Crash, TypeOK
    <2>2. TypeOK'
        BY <1>2, <2>1 DEF Crash, Gone, TypeOK, durable, outcome, work, calls
    <2> QED BY <1>2, <2>2, GoneCounts DEF Crash, Gone, DownHasNone
<1>3. CASE Exit
    <2>1. TypeOK' BY <1>3 DEF Exit, Gone, TypeOK, durable, outcome, work, calls
    <2> QED BY <1>3, <2>1, GoneCounts DEF Exit, Gone, DownHasNone
<1>4. CASE Start
    <2>1. JournalTypes' /\ faults' \in 0 .. MaxFaults
        BY <1>4, RollBackAllTypes DEF Start
    <2>2. TypeOK' BY <1>4, <2>1 DEF Start, TypeOK, JournalTypes, work, calls
    <2>3. RefsExact' BY <1>4, SameCounts DEF Start
    <2> QED BY <1>4, <2>2, <2>3 DEF Start, DownHasNone
<1> QED BY <1>1, <1>2, <1>3, <1>4

\* Every step preserves the invariant.
LEMMA SInvStep == SInv /\ [Next]_vars => SInv'
<1> SUFFICES ASSUME SInv, [Next]_vars PROVE SInv' OBVIOUS
<1>1. CASE Next BY <1>1, RequestStep, ServerStep DEF Next
<1>2. CASE UNCHANGED vars
    <2>1. RefsExact' BY <1>2, SameCounts DEF SInv, vars, server
    <2>2. TypeOK' /\ DownHasNone'
        BY <1>2 DEF SInv, TypeOK, DownHasNone, vars, durable, server, outcome, work, calls
    <2> QED BY <2>1, <2>2 DEF SInv
<1> QED BY <1>1, <1>2

\* In every state of the server its data has the declared types, and every
\* wrapper counts exactly the sessions that use it.
THEOREM ServerInvariance == Spec => []SInv
<1> QED BY SInvInit, SInvStep, PTL DEF Spec

\* The variables of the server keep their types.
THEOREM ServerTypeCorrect == Spec => []TypeOK
<1>1. SInv => TypeOK BY DEF SInv
<1> QED BY <1>1, ServerInvariance, PTL

\* No session is left with a deleted transaction, however sessions open, commit,
\* roll back and close (AttachTransactionL, ReleaseTransactionL, Detach).
THEOREM CountsAreExact == Spec => []RefsExact
<1>1. SInv => RefsExact BY DEF SInv
<1> QED BY <1>1, ServerInvariance, PTL

-------------------------------------------------------------------------------
(***************************************************************************)
(* Who resolves a transaction                                               *)
(***************************************************************************)

\* One step resolves a transaction that sessions hold only for one of them that
\* lets go of it: the last one, or one that asked for it.
LEMMA ResolvedStep ==
    ASSUME SInv, [Next]_vars, NEW t \in Ids,
           pending[t] # {}, pending'[t] = {}, Attached(t) # {}
    PROVE  /\ \E s \in Attached(t) : trans'[s] # t
           /\ Cardinality(Attached(t)) = 1 \/ completed'[t]
<1> USE DEF SInv
<1> DEFINE Goal == /\ \E s \in Attached(t) : trans'[s] # t
                   /\ Cardinality(Attached(t)) = 1 \/ completed'[t]
<1>1. t \in table BY NoWrapper
<1>2. ASSUME NEW s \in Sessions, Request(s) PROVE Goal
    <2>1. ASSUME \/ \E u \in Ids : CreateTransaction(s, u) \/ OpenTransaction(s, u)
                 \/ CommitFailsLate(s) \/ RollBackFails(s)
          PROVE FALSE
        BY <2>1 DEF CreateTransaction, OpenTransaction, CommitFailsLate, RollBackFails,
                    RollBackLeaves, durable
    <2>2. ASSUME Operate(s) PROVE FALSE BY <2>2 DEF Operate, TypeOK
    <2>3. ASSUME Commit(s) \/ RollBack(s) PROVE Goal
        <3>1. trans[s] # NoId /\ Finalise(s) BY <2>3 DEF Commit, RollBack
        <3>2. trans[s] = t
            BY <2>3, <3>1 DEF Commit, RollBack, Resolve, TypeOK
        <3>3. trans'[s] = NoId /\ completed'[t] BY <3>1, <3>2 DEF Finalise, TypeOK
        <3> QED BY <3>2, <3>3, IdsAssumption DEF Attached
    <2>4. ASSUME CloseSession(s) PROVE Goal
        <3>1. trans[s] # NoId /\ trans' = [trans EXCEPT ![s] = NoId]
            BY <2>4 DEF CloseSession
        <3>2. refs[trans[s]] = 1 /\ Resolve({trans[s]})
            BY <2>4 DEF CloseSession, RollBackLeaves, durable
        <3>3. trans[s] = t BY <3>2 DEF Resolve, TypeOK
        <3>4. Cardinality(Attached(t)) = 1 BY <3>2, <3>3 DEF RefsExact
        <3>5. s \in Attached(t) /\ trans'[s] # t
            BY <3>1, <3>3, IdsAssumption DEF Attached, TypeOK
        <3> QED BY <3>4, <3>5
    <2> QED BY <1>2, <2>1, <2>2, <2>3, <2>4 DEF Request
<1>3. ASSUME RollBackAllPending \/ Start PROVE FALSE
    BY <1>1, <1>3 DEF RollBackAllPending, Start, DownHasNone
<1>4. ASSUME Crash \/ Exit \/ UNCHANGED vars PROVE FALSE
    BY <1>4 DEF Crash, Exit, vars, durable
<1> QED BY <1>2, <1>3, <1>4 DEF Next

\* Neither recovery nor the end of one of several sessions resolves a
\* transaction that is still held (RollBackAllPendingL, ReleaseTransactionL).
THEOREM OnlyHoldersResolve == Spec => ResolvedByHolder
<1>1. SInv /\ [Next]_vars =>
         [\A t \in Ids : pending[t] # {} /\ pending'[t] = {} /\ Attached(t) # {}
            => /\ \E s \in Attached(t) : trans'[s] # t
               /\ Cardinality(Attached(t)) = 1 \/ completed'[t]]_vars
    BY ResolvedStep
<1> QED BY <1>1, ServerInvariance, PTL DEF Spec, ResolvedByHolder

-------------------------------------------------------------------------------
(***************************************************************************)
(* All or nothing                                                           *)
(***************************************************************************)

\* Operations are numbered as they are made,
OpsNumbered == /\ \A t \in Ids : made[t] \cup pending[t] \subseteq 1 .. count
               /\ kept \cup undone \subseteq 1 .. count

\* each in one transaction.
OpsApart == \A t, u \in Ids :
    t # u => (made[t] \cup pending[t]) \cap (made[u] \cup pending[u]) = {}

\* A transaction of which an operation is resolved has nothing more to resolve;
\* if its wrapper is still there, it is completed.
ResolvedIsOver ==
    \A t \in Ids \ late : made[t] \cap (kept \cup undone) # {}
        => pending[t] = {} /\ (t \in table => completed[t])

AInv == SInv /\ OpsNumbered /\ OpsApart /\ ResolvedIsOver /\ AllTogether

\* What the invariant says of the transaction t.
OneOutcome(t) == \/ made[t] \cap kept = {}
                 \/ made[t] \cap undone = {}
                 \/ t \in late
OneOver(t) == t \notin late /\ made[t] \cap (kept \cup undone) # {}
                  => pending[t] = {} /\ (t \in table => completed[t])

PendingOf(S) == UNION {pending[t] : t \in S}

\* Nothing is resolved in the step, and the transaction t has no new operation.
LEMMA SameOutcome ==
    ASSUME AInv, NEW t \in Ids,
           UNCHANGED <<kept, undone>>, made'[t] = made[t],
           pending'[t] = pending[t], t \in late' <=> t \in late,
           t \in table' => t \in table /\ (completed[t] => completed'[t])
    PROVE  OneOutcome(t)' /\ OneOver(t)'
BY DEF AInv, AllTogether, ResolvedIsOver, OneOutcome, OneOver

\* The journals of the transactions of T reach their end, those of C with a
\* commit; those of T are completed then, or have no wrapper.
LEMMA NewOutcome ==
    ASSUME AInv, NEW T \in SUBSET Ids, NEW C \in SUBSET T,
           kept' = kept \cup PendingOf(C),
           undone' = undone \cup PendingOf(T \ C),
           pending' = [t \in Ids |-> IF t \in T THEN {} ELSE pending[t]],
           UNCHANGED <<made, late>>,
           \A t \in Ids : t \in table' => t \in table /\ (completed[t] => completed'[t]),
           \A t \in T : t \in table' => completed'[t]
    PROVE  ResolvedIsOver' /\ AllTogether'
<1> SUFFICES ASSUME NEW t \in Ids PROVE OneOutcome(t)' /\ OneOver(t)'
    BY DEF ResolvedIsOver, AllTogether, OneOutcome, OneOver
<1>1. OneOutcome(t) /\ OneOver(t)
    BY DEF AInv, AllTogether, ResolvedIsOver, OneOutcome, OneOver
<1>2. \A S \in SUBSET Ids :
          t \notin S \/ pending[t] = {} => made[t] \cap PendingOf(S) = {}
    <2> SUFFICES ASSUME NEW S \in SUBSET Ids, t \notin S \/ pending[t] = {},
                        NEW u \in S, NEW x \in made[t], x \in pending[u]
                 PROVE  FALSE
        BY DEF PendingOf
    <2> QED BY DEF AInv, OpsApart
<1>3. CASE t \notin T
    <2>1. made[t] \cap PendingOf(C) = {} /\ made[t] \cap PendingOf(T \ C) = {}
        BY <1>2, <1>3
    <2>2. pending'[t] = pending[t] BY <1>3
    <2>3. made[t] \cap kept' = made[t] \cap kept
             /\ made[t] \cap undone' = made[t] \cap undone
        BY <2>1
    <2> QED BY <1>1, <2>2, <2>3 DEF OneOutcome, OneOver
<1>4. CASE t \in T
    <2>1. pending'[t] = {} /\ (t \in table' => completed'[t]) BY <1>4
    <2>2. CASE pending[t] = {}
        <3>1. made[t] \cap PendingOf(C) = {} /\ made[t] \cap PendingOf(T \ C) = {}
            BY <1>2, <2>2
        <3> QED BY <1>1, <2>1, <3>1 DEF OneOutcome, OneOver
    <2>3. CASE pending[t] # {} /\ t \notin late
        <3>1. made[t] \cap kept = {} /\ made[t] \cap undone = {}
            BY <1>1, <2>3 DEF OneOver
        <3>2. made[t] \cap PendingOf(C) = {} \/ made[t] \cap PendingOf(T \ C) = {}
            BY <1>2
        <3> QED BY <2>1, <3>1, <3>2 DEF OneOutcome, OneOver
    <2>4. CASE t \in late BY <2>4 DEF OneOutcome, OneOver
    <2> QED BY <2>2, <2>3, <2>4
<1> QED BY <1>3, <1>4

\* ... which is what a successful roll back does.
LEMMA ResolveOutcome ==
    ASSUME AInv, NEW T \in SUBSET Ids, Resolve(T), UNCHANGED <<made, late>>,
           \A t \in Ids : t \in table' => t \in table /\ (completed[t] => completed'[t]),
           \A t \in T : t \in table' => completed'[t]
    PROVE  ResolvedIsOver' /\ AllTogether'
<1>1. PICK C \in SUBSET T :
         /\ kept' = kept \cup PendingOf(C)
         /\ undone' = undone \cup PendingOf(T \ C)
    <2> DEFINE D == {t \in T : stage[t] = "redo"}
    <2>1. /\ kept' = kept \cup PendingOf(D)
          /\ undone' = undone \cup PendingOf(T \ D)
        BY DEF Resolve, PendingOf
    <2>2. D \in SUBSET T OBVIOUS
    <2> QED BY <2>1, <2>2
<1>2. pending' = [t \in Ids |-> IF t \in T THEN {} ELSE pending[t]] BY DEF Resolve
<1> QED BY <1>1, <1>2, NewOutcome

\* The part of the invariant that only looks at numbers of operations.
LEMMA NumbersKept ==
    ASSUME TypeOK, OpsNumbered, OpsApart, UNCHANGED <<made, count>>,
           \A t \in Ids : pending'[t] \subseteq pending[t],
           kept' \cup undone' \subseteq kept \cup undone \cup PendingOf(Ids)
    PROVE  OpsNumbered' /\ OpsApart'
<1>1. PendingOf(Ids) \subseteq 1 .. count BY DEF OpsNumbered, PendingOf
<1>2. OpsNumbered' BY <1>1 DEF OpsNumbered
<1>3. OpsApart' BY DEF OpsApart
<1> QED BY <1>2, <1>3

LEMMA NumbersResolved ==
    ASSUME AInv, NEW T \in SUBSET Ids, Resolve(T), UNCHANGED <<made, count>>
    PROVE  OpsNumbered' /\ OpsApart'
<1>1. kept' \cup undone' \subseteq kept \cup undone \cup PendingOf(Ids)
    BY DEF Resolve, PendingOf
<1>2. \A u \in Ids : pending'[u] \subseteq pending[u] BY DEF Resolve
<1> QED BY <1>1, <1>2, NumbersKept DEF AInv, SInv

\* A new transaction has no operation of its own yet.
LEMMA CreateOutcome ==
    ASSUME AInv, NEW s \in Sessions, NEW t \in Ids, CreateTransaction(s, t)
    PROVE  OpsNumbered' /\ OpsApart' /\ ResolvedIsOver' /\ AllTogether'
<1>0. TypeOK /\ OpsNumbered /\ OpsApart BY DEF AInv, SInv
<1>1. UNCHANGED <<pending, kept, undone, count>>
    BY DEF CreateTransaction, durable, outcome
<1>2. \A u \in Ids : made'[u] = IF u = t THEN {} ELSE made[u]
    BY <1>0 DEF CreateTransaction, TypeOK
<1>3. OpsNumbered' BY <1>0, <1>1, <1>2 DEF OpsNumbered
<1>4. OpsApart' BY <1>0, <1>1, <1>2 DEF OpsApart
<1>5. ASSUME NEW u \in Ids PROVE OneOutcome(u)' /\ OneOver(u)'
    <2>1. CASE u = t BY <1>2, <2>1 DEF OneOutcome, OneOver
    <2>2. CASE u # t
        <3>1. made'[u] = made[u] /\ (u \in late' <=> u \in late) BY <1>2, <2>2
            DEF CreateTransaction
        <3>2. u \in table' => u \in table /\ (completed[u] => completed'[u])
            BY <1>0, <2>2 DEF CreateTransaction, TypeOK
        <3> QED BY <1>1, <3>1, <3>2, SameOutcome
    <2> QED BY <2>1, <2>2
<1> QED BY <1>3, <1>4, <1>5 DEF ResolvedIsOver, AllTogether, OneOutcome, OneOver

\* An operation is new; its transaction is either not resolved yet, or completed.
LEMMA OperateOutcome ==
    ASSUME AInv, NEW s \in Sessions, Operate(s)
    PROVE  OpsNumbered' /\ OpsApart' /\ ResolvedIsOver' /\ AllTogether'
<1>0. TypeOK /\ RefsExact /\ OpsNumbered /\ OpsApart BY DEF AInv, SInv
<1> DEFINE t == trans[s]
<1>1. t \in Ids /\ t \in table
    BY <1>0 DEF Operate, TypeOK, RefsExact
<1>2. UNCHANGED <<kept, undone, table, completed>> /\ count \in Nat /\ count' = count + 1
    BY <1>0, BoundsAssumption DEF Operate, outcome, TypeOK
<1>3. \A u \in Ids :
          /\ made'[u] = IF u = t THEN made[u] \cup {count'} ELSE made[u]
          /\ pending'[u] = IF u = t THEN pending[u] \cup {count'} ELSE pending[u]
    BY <1>0 DEF Operate, TypeOK
<1>4. /\ count' \notin 1 .. count /\ count' \in 1 .. count'
      /\ 1 .. count \subseteq 1 .. count'
    <2>1. count \in Nat /\ count' = count + 1 BY <1>2
    <2> QED BY <2>1
<1>5. OpsNumbered'
    <2>1. ASSUME NEW u \in Ids PROVE made'[u] \cup pending'[u] \subseteq 1 .. count'
        <3>1. made[u] \cup pending[u] \subseteq 1 .. count BY <1>0 DEF OpsNumbered
        <3>2. made'[u] \cup pending'[u] \subseteq made[u] \cup pending[u] \cup {count'}
            BY <1>3
        <3> QED BY <1>4, <3>1, <3>2
    <2>2. kept' \cup undone' \subseteq 1 .. count'
        BY <1>0, <1>2, <1>4 DEF OpsNumbered
    <2> QED BY <2>1, <2>2 DEF OpsNumbered
<1>6. \A u \in Ids : count' \notin made[u] \cup pending[u] \cup kept \cup undone
    BY <1>0, <1>4 DEF OpsNumbered
<1>7. OpsApart'
    <2> SUFFICES ASSUME NEW u \in Ids, NEW v \in Ids, u # v
                 PROVE  (made'[u] \cup pending'[u]) \cap (made'[v] \cup pending'[v]) = {}
        BY DEF OpsApart
    <2>1. (made[u] \cup pending[u]) \cap (made[v] \cup pending[v]) = {}
        BY <1>0 DEF OpsApart
    <2>2. CASE u = t BY <1>3, <1>6, <2>1, <2>2
    <2>3. CASE v = t BY <1>3, <1>6, <2>1, <2>3
    <2>4. CASE u # t /\ v # t BY <1>3, <2>1, <2>4
    <2> QED BY <2>2, <2>3, <2>4
<1>8. ASSUME NEW u \in Ids PROVE OneOutcome(u)' /\ OneOver(u)'
    <2>0. OneOutcome(u) /\ OneOver(u)
        BY DEF AInv, AllTogether, ResolvedIsOver, OneOutcome, OneOver
    <2>1. /\ made'[u] \cap kept = made[u] \cap kept
          /\ made'[u] \cap undone = made[u] \cap undone
        BY <1>3, <1>6
    <2>2. late \subseteq late' /\ (completed[t] => t \in late') /\ (u # t => pending'[u] = pending[u])
        BY <1>1, <1>3 DEF Operate
    <2>3. CASE u # t
        BY <1>2, <2>0, <2>1, <2>2, <2>3 DEF OneOutcome, OneOver
    <2>4. CASE u = t
        <3>1. u \notin late' => made[u] \cap (kept \cup undone) = {}
            BY <1>1, <2>0, <2>2, <2>4 DEF OneOver
        <3> QED BY <1>2, <2>0, <2>1, <2>2, <3>1 DEF OneOutcome, OneOver
    <2> QED BY <2>3, <2>4
<1> QED BY <1>5, <1>7, <1>8 DEF ResolvedIsOver, AllTogether, OneOutcome, OneOver

\* Sessions that leave their transaction resolve it, or nothing.
LEMMA EndOutcome ==
    ASSUME AInv, NEW s \in Sessions, Commit(s) \/ RollBack(s)
    PROVE  OpsNumbered' /\ OpsApart' /\ ResolvedIsOver' /\ AllTogether'
<1>0. TypeOK /\ OpsNumbered /\ OpsApart BY DEF AInv, SInv
<1> DEFINE t == trans[s]
<1>1. t \in Ids BY <1>0 DEF Commit, RollBack, TypeOK
<1>2. UNCHANGED <<made, late, count>> BY DEF Commit, RollBack, work, calls
<1>3. /\ \A u \in Ids : u \in table' => u \in table /\ (completed[u] => completed'[u])
      /\ completed'[t]
    BY <1>0, <1>1 DEF Commit, RollBack, Finalise, Detach, TypeOK
<1>4. {t} \in SUBSET Ids /\ {t} \in SUBSET {t} BY <1>1
<1>5. CASE Commit(s)
    <2>1. /\ pending' = [u \in Ids |-> IF u \in {t} THEN {} ELSE pending[u]]
          /\ kept' = kept \cup PendingOf({t})
          /\ undone' = undone \cup PendingOf({t} \ {t})
        <3>1. PendingOf({t}) = pending[t] /\ PendingOf({t} \ {t}) = {} BY DEF PendingOf
        <3>2. /\ pending' = [pending EXCEPT ![t] = {}]
              /\ kept' = kept \cup pending[t] /\ undone' = undone
            BY <1>5 DEF Commit
        <3>3. undone' = undone \cup PendingOf({t} \ {t}) BY <3>1, <3>2
        <3> QED BY <1>0, <3>1, <3>2, <3>3 DEF TypeOK
    <2>2. ResolvedIsOver' /\ AllTogether' BY <1>2, <1>3, <1>4, <2>1, NewOutcome
    <2>3. OpsNumbered' /\ OpsApart'
        <3>1. kept' \cup undone' \subseteq kept \cup undone \cup PendingOf(Ids)
            BY <1>1, <2>1 DEF PendingOf
        <3>2. \A u \in Ids : pending'[u] \subseteq pending[u] BY <2>1
        <3> QED BY <1>0, <1>2, <3>1, <3>2, NumbersKept
    <2> QED BY <2>2, <2>3
<1>6. CASE RollBack(s)
    <2>1. Resolve({t}) BY <1>6 DEF RollBack
    <2> QED BY <1>2, <1>3, <1>4, <2>1, NumbersResolved, ResolveOutcome
<1> QED BY <1>5, <1>6

LEMMA CloseOutcome ==
    ASSUME AInv, NEW s \in Sessions, CloseSession(s)
    PROVE  OpsNumbered' /\ OpsApart' /\ ResolvedIsOver' /\ AllTogether'
<1>0. TypeOK /\ OpsNumbered /\ OpsApart BY DEF AInv, SInv
<1> DEFINE t == trans[s]
<1>1. t \in Ids BY <1>0 DEF CloseSession, TypeOK
<1>2. UNCHANGED <<made, late, count, completed>> BY DEF CloseSession, work, calls
<1>3. table' \subseteq table BY DEF CloseSession, Detach
<1>4. CASE UNCHANGED <<pending, kept, undone>>
    <2>1. OpsNumbered' /\ OpsApart' BY <1>0, <1>2, <1>4 DEF OpsNumbered, OpsApart
    <2>2. \A u \in Ids : OneOutcome(u)' /\ OneOver(u)'
        BY <1>2, <1>3, <1>4, SameOutcome
    <2> QED BY <2>1, <2>2 DEF ResolvedIsOver, AllTogether, OneOutcome, OneOver
<1>5. CASE Resolve({t}) /\ t \notin table'
    <2>1. {t} \in SUBSET Ids BY <1>1
    <2> QED BY <1>2, <1>3, <1>5, <2>1, NumbersResolved, ResolveOutcome
<1>6. \/ UNCHANGED <<pending, kept, undone>>
      \/ Resolve({t}) /\ t \notin table'
    BY DEF CloseSession, RollBackLeaves, Detach, durable, outcome
<1> QED BY <1>4, <1>5, <1>6

\* Requests preserve the invariant.
LEMMA AInvRequest == ASSUME AInv, NEW s \in Sessions, Request(s) PROVE AInv'
<1>0. SInv' BY RequestStep DEF AInv
<1>1. ASSUME (\E t \in Ids : OpenTransaction(s, t)) \/ CommitFailsLate(s) \/ RollBackFails(s)
      PROVE  OpsNumbered' /\ OpsApart' /\ ResolvedIsOver' /\ AllTogether'
    <2>1. UNCHANGED <<pending, kept, undone, made, late, count, table, completed>>
        BY <1>1 DEF OpenTransaction, CommitFailsLate, RollBackFails, RollBackLeaves,
                    durable, server, outcome, work, calls
    <2> QED BY <2>1 DEF AInv, OpsNumbered, OpsApart, ResolvedIsOver, AllTogether
<1> QED BY <1>0, <1>1, CreateOutcome, OperateOutcome, EndOutcome, CloseOutcome
        DEF Request, AInv

\* So does the server, which recovers only without a wrapper.
LEMMA AInvServer ==
    ASSUME AInv, RollBackAllPending \/ Crash \/ Exit \/ Start PROVE AInv'
<1>0. SInv' /\ DownHasNone BY ServerStep DEF AInv, SInv
<1>1. CASE Crash \/ Exit
    <2>1. UNCHANGED <<pending, kept, undone, made, late, count>> /\ table' = {}
        BY <1>1 DEF Crash, Exit, Gone, durable, outcome, work, calls
    <2> QED BY <1>0, <2>1 DEF AInv, OpsNumbered, OpsApart, ResolvedIsOver, AllTogether
<1>2. CASE RollBackAllPending \/ Start
    <2>1. /\ RollBackAll /\ table' = {}
          /\ UNCHANGED <<made, late, count>>
        BY <1>0, <1>2 DEF RollBackAllPending, Start, DownHasNone, server, work, calls
    <2>2. PICK T \in SUBSET Unresolved : Resolve(T) BY <2>1 DEF RollBackAll
    <2>3. T \in SUBSET Ids BY DEF Unresolved
    <2>4. ResolvedIsOver' /\ AllTogether' BY <2>1, <2>2, <2>3, ResolveOutcome
    <2>5. OpsNumbered' /\ OpsApart' BY <2>1, <2>2, <2>3, NumbersResolved
    <2> QED BY <1>0, <2>4, <2>5 DEF AInv
<1> QED BY <1>1, <1>2

\* Nothing is made, and so nothing resolved, when the server first starts.
LEMMA AInvInit == Init => AInv
<1> SUFFICES ASSUME Init PROVE AInv OBVIOUS
<1>1. /\ \A t \in Ids : made[t] = {} /\ pending[t] = {}
      /\ kept = {} /\ undone = {}
    BY DEF Init
<1>2. OpsNumbered /\ OpsApart BY <1>1 DEF OpsNumbered, OpsApart
<1>3. ResolvedIsOver /\ AllTogether BY <1>1 DEF ResolvedIsOver, AllTogether
<1> QED BY <1>2, <1>3, SInvInit DEF AInv

LEMMA AInvStep == AInv /\ [Next]_vars => AInv'
<1> SUFFICES ASSUME AInv, [Next]_vars PROVE AInv' OBVIOUS
<1>1. CASE Next BY <1>1, AInvRequest, AInvServer DEF Next
<1>2. CASE UNCHANGED vars
    <2>1. SInv' BY SInvStep DEF AInv
    <2>2. UNCHANGED <<pending, kept, undone, made, late, count, table, completed>>
        BY <1>2 DEF vars, durable, server, outcome, work, calls
    <2> QED BY <2>1, <2>2 DEF AInv, OpsNumbered, OpsApart, ResolvedIsOver, AllTogether
<1> QED BY <1>1, <1>2

\* The operations of a transaction are all kept or all undone, if it is shared
\* too, unless a session operates after another one has completed it: whatever
\* crashes, failed commits, failed roll backs, recoveries and closed sessions come
\* between, and whatever an earlier transaction of the identifier left (sts.h).
THEOREM TransactionsAreAtomic == Spec => []AllTogether
<1>1. AInv => AllTogether BY DEF AInv
<1> QED BY <1>1, AInvInit, AInvStep, PTL DEF Spec

-------------------------------------------------------------------------------
(***************************************************************************)
(* What a transaction leaves, and what it begins with                       *)
(***************************************************************************)

\* A completed transaction has operations again only if a roll back of them has
\* failed, or if they were made after it was completed.
CompletedIsEmpty == \A t \in Ids : completed[t] /\ pending[t] # {} => t \in failed \cup late

LInv == SInv /\ NothingLeftBehind /\ BeginsEmpty /\ CompletedIsEmpty

\* What the invariant says of the transaction t.
OneLeft(t)  == up /\ pending[t] # {} /\ Attached(t) = {} => t \in failed \cup late
OneBegun(t) == t \in table => pending[t] \subseteq made[t] \/ t \in failed \cup late
OneEmpty(t) == completed[t] /\ pending[t] # {} => t \in failed \cup late
OneLInv(t)  == OneLeft(t) /\ OneBegun(t) /\ OneEmpty(t)

LEMMA LInvParts ==
    SInv => (LInv <=> \A t \in Ids : OneLInv(t))
BY DEF LInv, SInv, TypeOK, NothingLeftBehind, BeginsEmpty, CompletedIsEmpty,
       OneLeft, OneBegun, OneEmpty, OneLInv

\* A journal that reached its end leaves nothing.
LEMMA EmptyLeft == ASSUME NEW t \in Ids, pending[t] = {} PROVE OneLInv(t)
BY DEF OneLeft, OneBegun, OneEmpty, OneLInv

\* A transaction that the step does not touch.
LEMMA SameLeft ==
    ASSUME NEW t \in Ids, OneLInv(t), pending'[t] = pending[t], made'[t] = made[t],
           t \in failed \cup late => t \in (failed \cup late)',
           up' => up /\ (Attached(t)' = {} => Attached(t) = {}),
           t \in table' => t \in table, completed'[t] => completed[t]
    PROVE  OneLInv(t)'
BY DEF OneLeft, OneBegun, OneEmpty, OneLInv

\* A wrapper is made for a transaction that begins without operations, or with
\* those that a failed roll back left.
LEMMA CreateLeft ==
    ASSUME LInv, NEW s \in Sessions, NEW t \in Ids, CreateTransaction(s, t), NEW u \in Ids
    PROVE  OneLInv(u)'
<1>0. TypeOK /\ RefsExact /\ OneLInv(u) /\ OneLInv(t) BY LInvParts DEF LInv, SInv
<1>1. Attached(t) = {} BY <1>0, NoWrapper DEF CreateTransaction, FreshId
<1>2. UNCHANGED <<pending, failed, up>> /\ up /\ trans[s] = NoId
    BY DEF CreateTransaction, durable, outcome
<1>3. Attached(u)' = IF u = t THEN Attached(u) \cup {s} ELSE Attached(u) \ {s}
    BY <1>0, AttachedMove DEF CreateTransaction
<1>4. CASE u = t
    <2>1. CASE pending[t] = {} BY <1>2, <1>4, <2>1, EmptyLeft DEF OneLInv, OneLeft, OneBegun, OneEmpty
    <2>2. CASE pending[t] # {}
        <3>1. t \in failed \cup late BY <1>0, <1>1, <1>2, <2>2 DEF OneLInv, OneLeft
        <3>2. late' = late BY <2>2 DEF CreateTransaction
        <3> QED BY <1>2, <1>4, <3>1, <3>2 DEF OneLInv, OneLeft, OneBegun, OneEmpty
    <2> QED BY <2>1, <2>2
<1>5. CASE u # t
    <2>1. s \notin Attached(u) BY <1>2, IdsAssumption DEF Attached
    <2>2. Attached(u)' = Attached(u) BY <1>3, <1>5, <2>1
    <2>3. /\ made'[u] = made[u] /\ completed'[u] = completed[u]
          /\ u \in table' => u \in table
          /\ u \in late => u \in late'
        BY <1>0, <1>5 DEF CreateTransaction, TypeOK
    <2> QED BY <1>0, <1>2, <2>2, <2>3, SameLeft
<1> QED BY <1>4, <1>5

\* A session that goes leaves an operation behind only if the roll back fails, or
\* one was made in the completed transaction.
LEMMA LeaveLeft ==
    ASSUME LInv, NEW s \in Sessions, Commit(s) \/ RollBack(s) \/ CloseSession(s),
           NEW u \in Ids
    PROVE  OneLInv(u)'
<1>0. TypeOK /\ RefsExact /\ OneLInv(u) BY LInvParts DEF LInv, SInv
<1> DEFINE t == trans[s]
<1>1. /\ t # NoId /\ trans' = [trans EXCEPT ![s] = NoId]
      /\ UNCHANGED <<made, late, up>>
    BY DEF Commit, RollBack, CloseSession, Finalise, work
<1>2. t \in Ids BY <1>0, <1>1 DEF TypeOK
<1>3. Attached(u)' = Attached(u) \ {s} BY <1>0, <1>1, AttachedMove, IdsAssumption
<1>4. /\ table' \subseteq table
      /\ u # t => /\ pending'[u] = pending[u] /\ completed'[u] = completed[u]
                  /\ u \in failed => u \in failed'
    <2>1. CASE Commit(s) \/ RollBack(s)
        BY <1>0, <1>2, <2>1
        DEF Commit, RollBack, Finalise, Detach, Resolve, TypeOK
    <2>2. CASE CloseSession(s)
        BY <1>0, <1>2, <2>2
        DEF CloseSession, Detach, Resolve, RollBackLeaves, durable, outcome, TypeOK
    <2> QED BY <2>1, <2>2
<1>5. CASE u # t
    <2>1. Attached(u)' = Attached(u) BY <1>3, <1>5 DEF Attached
    <2> QED BY <1>0, <1>1, <1>4, <1>5, <2>1, SameLeft
<1>6. CASE u = t
    <2>1. CASE Commit(s) \/ RollBack(s)
        <3>1. pending'[u] = {}
            BY <1>0, <1>2, <1>6, <2>1 DEF Commit, RollBack, Resolve, TypeOK
        <3> QED BY <3>1 DEF OneLeft, OneBegun, OneEmpty, OneLInv
    <2>2. ASSUME CloseSession(s), refs[t] > 1 \/ completed[t],
                 UNCHANGED <<durable, outcome>>
          PROVE  OneLInv(u)'
        <3>1. UNCHANGED <<pending, failed, completed>>
            BY <2>2 DEF CloseSession, durable, outcome
        <3>2. CASE completed[u]
            BY <1>0, <1>1, <3>1, <3>2 DEF OneLeft, OneBegun, OneEmpty, OneLInv
        <3>3. CASE refs[u] > 1
            <4>1. Attached(u)' # {}
                <5>0. Cardinality({s}) = 1 BY FS_Singleton
                <5>1. Attached(u) # {s} BY <1>0, <3>3, <5>0 DEF RefsExact
                <5>2. s \in Attached(u) BY <1>6 DEF Attached
                <5> QED BY <1>3, <5>1, <5>2
            <4> QED BY <1>0, <1>1, <1>4, <3>1, <4>1
                    DEF OneLeft, OneBegun, OneEmpty, OneLInv
        <3> QED BY <1>6, <2>2, <3>2, <3>3
    <2>3. ASSUME CloseSession(s), Resolve({t}) PROVE OneLInv(u)'
        <3>1. pending'[u] = {} BY <1>2, <1>6, <2>3 DEF Resolve
        <3> QED BY <3>1 DEF OneLeft, OneBegun, OneEmpty, OneLInv
    <2>4. ASSUME CloseSession(s), RollBackLeaves(t) PROVE OneLInv(u)'
        <3>1. u \in failed' BY <1>6, <2>4 DEF RollBackLeaves
        <3> QED BY <3>1 DEF OneLeft, OneBegun, OneEmpty, OneLInv
    <2> QED BY <2>1, <2>2, <2>3, <2>4 DEF CloseSession
<1> QED BY <1>5, <1>6

\* The other requests add an operation to the transaction of a session, or a
\* session to a transaction, or fail.
LEMMA OtherLeft ==
    ASSUME LInv, NEW s \in Sessions, NEW u \in Ids,
           \/ \E t \in Ids : OpenTransaction(s, t)
           \/ Operate(s) \/ CommitFailsLate(s) \/ RollBackFails(s)
    PROVE  OneLInv(u)'
<1>0. TypeOK /\ RefsExact /\ OneLInv(u) BY LInvParts DEF LInv, SInv
<1>1. ASSUME NEW t \in Ids, OpenTransaction(s, t) PROVE OneLInv(u)'
    <2>1. UNCHANGED <<pending, made, failed, late, up, table, completed>>
        BY <1>1 DEF OpenTransaction, durable, outcome, work
    <2>2. Attached(u)' = IF u = t THEN Attached(u) \cup {s} ELSE Attached(u) \ {s}
        BY <1>0, <1>1, AttachedMove DEF OpenTransaction
    <2>3. s \notin Attached(u) BY <1>1, IdsAssumption DEF OpenTransaction, Attached
    <2>4. Attached(u)' = {} => Attached(u) = {} BY <2>2, <2>3
    <2> QED BY <1>0, <2>1, <2>4, SameLeft
<1>2. CASE Operate(s)
    <2>1. UNCHANGED <<trans, completed, up, failed, table>> /\ late \subseteq late'
        BY <1>2 DEF Operate, outcome
    <2>2. PICK t \in Ids : trans[s] = t BY <1>0, <1>2 DEF Operate, TypeOK
    <2>3. /\ made'[u] = IF u = t THEN made[u] \cup {count'} ELSE made[u]
          /\ pending'[u] = IF u = t THEN pending[u] \cup {count'} ELSE pending[u]
        BY <1>0, <1>2, <2>2 DEF Operate, TypeOK
    <2>4. Attached(u)' = Attached(u) BY <2>1 DEF Attached
    <2>5. CASE u # t BY <1>0, <2>1, <2>3, <2>4, <2>5, SameLeft
    <2>6. CASE u = t
        <3>1. Attached(u) # {} BY <2>2, <2>6 DEF Attached
        <3>2. completed[u] => u \in late' BY <1>2, <2>2, <2>6 DEF Operate
        <3>3. OneBegun(u)' BY <1>0, <2>1, <2>3 DEF OneBegun, OneLInv
        <3> QED BY <2>1, <2>4, <3>1, <3>2, <3>3 DEF OneLeft, OneEmpty, OneLInv
    <2> QED BY <2>5, <2>6
<1>3. CASE CommitFailsLate(s) \/ RollBackFails(s)
    <2>1. /\ UNCHANGED <<trans, completed, up, table, pending, made, late>>
          /\ failed \subseteq failed'
        BY <1>3 DEF CommitFailsLate, RollBackFails, RollBackLeaves, server, outcome, work
    <2>2. Attached(u)' = Attached(u) BY <2>1 DEF Attached
    <2> QED BY <1>0, <2>1, <2>2, SameLeft
<1> QED BY <1>1, <1>2, <1>3

\* The server process leaves behind what it fails to roll back at start, and ends
\* without touching an operation.
LEMMA ServerLeft ==
    ASSUME LInv, RollBackAllPending \/ Crash \/ Exit \/ Start, NEW u \in Ids
    PROVE  OneLInv(u)'
<1>0. TypeOK /\ RefsExact /\ DownHasNone /\ OneLInv(u) BY LInvParts DEF LInv, SInv
<1>1. CASE Crash \/ Exit
    <2>1. up' = FALSE /\ table' = {} /\ completed'[u] = FALSE
        BY <1>1 DEF Crash, Exit, Gone
    <2> QED BY <2>1 DEF OneLeft, OneBegun, OneEmpty, OneLInv
<1>2. CASE RollBackAllPending \/ Start
    <2>1. RollBackAll BY <1>2 DEF RollBackAllPending, Start
    <2>2. PICK T \in SUBSET Unresolved : Resolve(T) /\ failed' = Unresolved \ T
        BY <2>1 DEF RollBackAll
    <2>3. pending'[u] = IF u \in T THEN {} ELSE pending[u] BY <2>2 DEF Resolve
    <2>4. pending'[u] # {} => u \in failed' BY <2>2, <2>3 DEF Unresolved
    <2> QED BY <2>4 DEF OneLeft, OneBegun, OneEmpty, OneLInv
<1> QED BY <1>1, <1>2

\* At first there is no operation at all.
LEMMA LInvInit == Init => LInv
<1> SUFFICES ASSUME Init PROVE LInv OBVIOUS
<1>1. \A t \in Ids : pending[t] = {} BY DEF Init
<1>2. \A t \in Ids : OneLInv(t) BY <1>1, EmptyLeft
<1> QED BY <1>2, SInvInit, LInvParts

\* Every step preserves it.
LEMMA LInvStep == LInv /\ [Next]_vars => LInv'
<1> SUFFICES ASSUME LInv, [Next]_vars PROVE LInv' OBVIOUS
<1>0. SInv' BY SInvStep DEF LInv
<1> SUFFICES ASSUME NEW u \in Ids PROVE OneLInv(u)'
    BY <1>0 DEF LInv, SInv, TypeOK, NothingLeftBehind, BeginsEmpty, CompletedIsEmpty,
                OneLeft, OneBegun, OneEmpty, OneLInv
<1>1. ASSUME NEW s \in Sessions, Request(s) PROVE OneLInv(u)'
    BY <1>1, CreateLeft, LeaveLeft, OtherLeft DEF Request
<1>2. CASE RollBackAllPending \/ Crash \/ Exit \/ Start BY <1>2, ServerLeft
<1>3. CASE UNCHANGED vars
    <2>1. OneLInv(u) BY LInvParts DEF LInv
    <2>2. UNCHANGED <<pending, made, failed, late, table, completed, trans, up>>
        BY <1>3 DEF vars, durable, server, outcome, work
    <2> QED BY <2>1, <2>2 DEF OneLeft, OneBegun, OneEmpty, OneLInv, Attached
<1> QED BY <1>1, <1>2, <1>3 DEF Next

\* What is pending in a running server without a session is what a roll back failed
\* to undo, or was made in a transaction that was completed already; after crashes,
\* failures and restarts too, and whether sessions share transactions or not (sts.h,
\* ReleaseTransactionL, CStsServer::ConstructL).
THEOREM NothingStaysBehind == Spec => []NothingLeftBehind
<1>1. LInv => NothingLeftBehind BY DEF LInv
<1> QED BY <1>1, LInvInit, LInvStep, PTL DEF Spec

\* A transaction holds an operation of an earlier one of its identifier, which the
\* clock yields again, only if a roll back has failed or the earlier one was used
\* after it was completed (CreateTransactionID, CJournal::ConstructL).
THEOREM TransactionsBeginEmpty == Spec => []BeginsEmpty
<1>1. LInv => BeginsEmpty BY DEF LInv
<1> QED BY <1>1, LInvInit, LInvStep, PTL DEF Spec
===============================================================================
