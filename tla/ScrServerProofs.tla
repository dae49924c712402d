--------------------------- MODULE ScrServerProofs ---------------------------
(***************************************************************************)
(* What is proved of ScrServer, for any sessions and components.             *)
(***************************************************************************)
EXTENDS ScrServer, TLAPS

Requests == Implicit \cup Single \cup {"SetScomoState"}

\* What a request needs to find, of the rows of its component.
Meets(f, r) ==
    /\ f = "AddComponent" => r = {}
    /\ f # "AddComponent" => "base" \in r

\* Each statement of a request leaves rows, and there is at least one.
LEMMA StatementsType ==
    ASSUME NEW f \in Requests, NEW r \in SUBSET Row
    PROVE  /\ Len(Statements(f, r)) \in Nat \ {0}
           /\ \A k \in 1 .. Len(Statements(f, r)) : Statements(f, r)[k] \in SUBSET Row
<1>. DEFINE a == <<r \cup {"base"}, r \cup {"base", "text"}>>
            d == <<r \ {"prop"}, r \ {"prop", "file"}, r \ {"prop", "file", "text"}, {}>>
            g == <<r \cup {"file"}, r \cup {"file", "drive"}>>
            u == <<r \ {"file"}, r \ {"file", "drive"}>>
            p == <<r \cup {"prop"}>>
            m == <<r \ {"prop"}>>
<1>1. CASE f = "AddComponent"
  <2>1. Statements(f, r) = a  BY <1>1 DEF Statements
  <2>2. a[1] \in SUBSET Row /\ a[2] \in SUBSET Row  BY DEF Row
  <2>3. Len(a) = 2  OBVIOUS
  <2>. HIDE DEF a
  <2>4. \A k \in 1 .. 2 : k = 1 \/ k = 2  OBVIOUS
  <2>. QED  BY <2>1, <2>2, <2>3, <2>4
<1>2. CASE f = "DeleteComponent"
  <2>1. Statements(f, r) = d  BY <1>2 DEF Statements
  <2>2. d[1] \in SUBSET Row /\ d[2] \in SUBSET Row /\ d[3] \in SUBSET Row /\ d[4] \in SUBSET Row  BY DEF Row
  <2>3. Len(d) = 4  OBVIOUS
  <2>. HIDE DEF d
  <2>4. \A k \in 1 .. 4 : k = 1 \/ k = 2 \/ k = 3 \/ k = 4  OBVIOUS
  <2>. QED  BY <2>1, <2>2, <2>3, <2>4
<1>3. CASE f = "RegisterComponentFile"
  <2>1. Statements(f, r) = g  BY <1>3 DEF Statements
  <2>2. g[1] \in SUBSET Row /\ g[2] \in SUBSET Row  BY DEF Row
  <2>3. Len(g) = 2  OBVIOUS
  <2>. HIDE DEF g
  <2>4. \A k \in 1 .. 2 : k = 1 \/ k = 2  OBVIOUS
  <2>. QED  BY <2>1, <2>2, <2>3, <2>4
<1>4. CASE f = "UnregisterComponentFile"
  <2>1. Statements(f, r) = u  BY <1>4 DEF Statements
  <2>2. u[1] \in SUBSET Row /\ u[2] \in SUBSET Row  BY DEF Row
  <2>3. Len(u) = 2  OBVIOUS
  <2>. HIDE DEF u
  <2>4. \A k \in 1 .. 2 : k = 1 \/ k = 2  OBVIOUS
  <2>. QED  BY <2>1, <2>2, <2>3, <2>4
<1>5. CASE f \in {"SetComponentProperty", "SetScomoState"}
  <2>1. Statements(f, r) = p  BY <1>5 DEF Statements
  <2>2. p[1] \in SUBSET Row  BY DEF Row
  <2>3. Len(p) = 1  OBVIOUS
  <2>. HIDE DEF p
  <2>4. \A k \in 1 .. 1 : k = 1  OBVIOUS
  <2>. QED  BY <2>1, <2>2, <2>3, <2>4
<1>6. CASE f = "DeleteComponentProperty"
  <2>1. Statements(f, r) = m  BY <1>6 DEF Statements
  <2>2. m[1] \in SUBSET Row  BY DEF Row
  <2>3. Len(m) = 1  OBVIOUS
  <2>. HIDE DEF m
  <2>4. \A k \in 1 .. 1 : k = 1  OBVIOUS
  <2>. QED  BY <2>1, <2>2, <2>3, <2>4
<1>. QED  BY <1>1, <1>2, <1>3, <1>4, <1>5, <1>6 DEF Requests, Implicit, Single

\* All statements of a request together keep a component whole.
LEMMA LastWhole ==
    ASSUME NEW f \in Requests, NEW r \in SUBSET Row, Meets(f, r), Whole(r)
    PROVE  Whole(Statements(f, r)[Len(Statements(f, r))])
<1>. DEFINE a == <<r \cup {"base"}, r \cup {"base", "text"}>>
            d == <<r \ {"prop"}, r \ {"prop", "file"}, r \ {"prop", "file", "text"}, {}>>
            g == <<r \cup {"file"}, r \cup {"file", "drive"}>>
            u == <<r \ {"file"}, r \ {"file", "drive"}>>
            p == <<r \cup {"prop"}>>
            m == <<r \ {"prop"}>>
<1>1. CASE f = "AddComponent"
  <2>1. Statements(f, r) = a  BY <1>1 DEF Statements
  <2>. QED  BY <1>1, <2>1 DEF Whole, Meets
<1>2. CASE f = "DeleteComponent"
  <2>1. Statements(f, r) = d  BY <1>2 DEF Statements
  <2>. QED  BY <2>1 DEF Whole
<1>3. CASE f = "RegisterComponentFile"
  <2>1. Statements(f, r) = g  BY <1>3 DEF Statements
  <2>. QED  BY <2>1 DEF Whole
<1>4. CASE f = "UnregisterComponentFile"
  <2>1. Statements(f, r) = u  BY <1>4 DEF Statements
  <2>. QED  BY <2>1 DEF Whole
<1>5. CASE f \in {"SetComponentProperty", "SetScomoState"}
  <2>1. Statements(f, r) = p  BY <1>5 DEF Statements
  <2>. QED  BY <2>1 DEF Whole
<1>6. CASE f = "DeleteComponentProperty"
  <2>1. Statements(f, r) = m  BY <1>6 DEF Statements
  <2>. QED  BY <2>1 DEF Whole
<1>. QED  BY <1>1, <1>2, <1>3, <1>4, <1>5, <1>6 DEF Requests, Implicit, Single

Registry == [Components -> SUBSET Row]

\* What a request leaves, complete or not, is a registry again, and differs in the
\* rows of its component only.
LEMMA WrittenType ==
    ASSUME work \in Registry, NEW f \in Requests, NEW c \in Components,
           NEW w \in {Done(f, c)} \cup Failed(f, c)
    PROVE  w \in Registry /\ \A d \in Components \ {c} : w[d] = work[d]
<1>. DEFINE steps == Statements(f, work[c])
<1>1. work[c] \in SUBSET Row  BY DEF Registry
<1>2. /\ Len(steps) \in Nat \ {0}
      /\ \A k \in 1 .. Len(steps) : steps[k] \in SUBSET Row
  BY <1>1, StatementsType
<1>. HIDE DEF steps
<1>3. \A k \in 1 .. Len(steps) :
         /\ [work EXCEPT ![c] = steps[k]] \in Registry
         /\ \A d \in Components \ {c} : [work EXCEPT ![c] = steps[k]][d] = work[d]
  BY <1>2 DEF Registry
<1>4. CASE w = Done(f, c)
  <2>1. w = [work EXCEPT ![c] = steps[Len(steps)]]  BY <1>4 DEF Done, steps
  <2>2. Len(steps) \in 1 .. Len(steps)  BY <1>2
  <2>. QED  BY <2>1, <2>2, <1>3
<1>5. CASE w \in Failed(f, c)
  <2>1. w = work \/ \E k \in 1 .. Len(steps) : w = [work EXCEPT ![c] = steps[k]]
    BY <1>5, <1>2 DEF Failed, steps
  <2>. QED  BY <2>1, <1>3
<1>. QED  BY <1>4, <1>5

\* A request that is carried out keeps its component whole.
LEMMA DoneWhole ==
    ASSUME work \in Registry, NEW f \in Requests, NEW c \in Components, Applies(f, c),
           Whole(work[c])
    PROVE  Whole(Done(f, c)[c])
<1>1. work[c] \in SUBSET Row  BY DEF Registry
<1>2. Meets(f, work[c])  BY DEF Applies, Meets
<1>3. Done(f, c)[c] = Statements(f, work[c])[Len(Statements(f, work[c]))]
  BY DEF Done, Registry
<1>. QED  BY <1>1, <1>2, <1>3, LastWhole

-----------------------------------------------------------------------------
(* The inductive invariant.                                                  *)

Kept(rows) == \A c \in Components : Whole(rows[c]) \/ c \in excused

\* What will reach the database file is whole: the file, what an earlier connection
\* still commits, and what this one sees, except in a transaction nobody owns.
RowsKept == Kept(disk) /\ Kept(late) /\ (auto \/ owner # NoSession => Kept(work))

\* An earlier connection that can still commit or blocks all writes leaves no
\* transaction to this one, and a session that owns one has found none.
LeakAlone ==
    /\ leak \in {"writer", "late"} => auto
    /\ owner # NoSession => leak \in {"none", "readers"}

IInv == TypeOK /\ OwnerConnected /\ OnlyOwnerWrites /\ LeakAlone /\ RowsKept

LEMMA InitIInv == ASSUME Init PROVE IInv
<1>1. \A c \in Components : Whole(disk[c])  BY DEF Init, NoRows, Whole
<1>2. \A c \in Components : Whole(late[c])  BY DEF Init, NoRows, Whole
<1>3. disk \in Registry /\ late \in Registry  BY DEF Init, NoRows, Registry, Row
<1>4. TypeOK  BY <1>3 DEF Init, TypeOK, Registry, ViewState
<1>5. RowsKept  BY <1>1, <1>2 DEF Init, RowsKept, Kept
<1>. QED  BY <1>4, <1>5, ScrAssumption DEF Init, IInv, OwnerConnected, OnlyOwnerWrites, LeakAlone

-----------------------------------------------------------------------------
(* Type correctness.                                                         *)

Views == [Sessions -> ViewState]

LEMMA AbortedType ==
    ASSUME view \in Views, NEW e
    PROVE  Aborted(e) \in Views
BY DEF Aborted, Views, ViewState

\* The connection after a statement has been finalized.
LEMMA FinalizedType ==
    ASSUME TypeOK, NEW s \in Sessions
    PROVE  /\ Finalized(s).view \in Views
           /\ Finalized(s).auto \in BOOLEAN
           /\ Finalized(s).stuck \in BOOLEAN
           /\ Finalized(s).work \in Registry
           /\ Finalized(s).disk \in Registry
<1>1. view \in Views /\ "none" \in ViewState  BY DEF TypeOK, Views, ViewState
<1>2. Aborted(s) \in Views  BY <1>1, AbortedType
<1>3. /\ work \in Registry /\ disk \in Registry /\ auto \in BOOLEAN
      /\ stuck \in BOOLEAN /\ impl \in BOOLEAN
  BY DEF TypeOK, Registry
<1>4. Halted(s) \in Registry  BY <1>3 DEF Halted
<1>5. (stuck \/ Blocked(s)) \in BOOLEAN  OBVIOUS
<1>6. /\ [Aborted(s) EXCEPT ![s] = "none"] \in Views
      /\ [view EXCEPT ![s] = "none"] \in Views
  BY <1>1, <1>2 DEF Views
<1>7. CASE view[s] \in Refused  BY <1>7, <1>3, <1>6 DEF Finalized
<1>8. CASE view[s] \notin Refused  BY <1>8, <1>3, <1>4, <1>5, <1>6 DEF Finalized
<1>. QED  BY <1>7, <1>8

\* The locks of earlier connections after a subsession is closed.
LEMMA LeakAfterType ==
    ASSUME TypeOK, NEW s \in Sessions, LeakAfter(s)
    PROVE  /\ leak' \in {"none", "readers", "writer", "late"}
           /\ late' \in Registry
           /\ disk' \in Registry
           /\ WorkAfter(s) \in Registry
<1>1. /\ Finalized(s).disk \in Registry /\ Finalized(s).work \in Registry
      /\ late \in Registry /\ disk \in Registry /\ NoRows \in Registry
      /\ leak \in {"none", "readers", "writer", "late"}
  BY FinalizedType DEF TypeOK, Registry, NoRows
<1>2. /\ leak' \in {"none", "readers", "writer", "late"}
      /\ late' \in Registry /\ disk' \in Registry
  BY <1>1 DEF LeakAfter, lost
<1>. QED  BY <1>1, <1>2 DEF WorkAfter

LEMMA TypeStep == ASSUME TypeOK, Next PROVE TypeOK'
<1>. USE DEF Registry
<1>1. /\ view \in Views /\ work \in Registry /\ disk \in Registry /\ late \in Registry
      /\ "none" \in ViewState /\ "open" \in ViewState /\ "rows" \in ViewState
      /\ "busy" \in ViewState /\ "done" \in ViewState /\ "stale" \in ViewState
      /\ NoRows \in Registry
  BY DEF TypeOK, Views, ViewState, NoRows
<1>2. \A e : Aborted(e) \in Views  BY <1>1, AbortedType
<1>. HIDE DEF Registry
<1>3. ASSUME NEW s \in Sessions, Connect(s) PROVE TypeOK'
  BY <1>3 DEF Connect, TypeOK, db, lost, seen
<1>4. ASSUME NEW s \in Sessions, CreateTransaction(s) PROVE TypeOK'
  BY <1>4 DEF CreateTransaction, TypeOK, lost, seen
<1>5. ASSUME NEW s \in Sessions, CommitTransaction(s) PROVE TypeOK'
  BY <1>5 DEF CommitTransaction, TypeOK, lost
<1>6. ASSUME NEW s \in Sessions, RollbackTransaction(s) PROVE TypeOK'
  BY <1>6 DEF RollbackTransaction, TypeOK, lost
<1>7. ASSUME NEW s \in Sessions, CommitError(s) \/ MutateError(s) PROVE TypeOK'
  BY <1>7, <1>2 DEF CommitError, MutateError, RollBackAll, TypeOK, Views, lost, seen
<1>8. ASSUME NEW s \in Sessions, NEW anyTime \in BOOLEAN, OpenView(s, anyTime) PROVE TypeOK'
  BY <1>8, <1>1 DEF OpenView, TypeOK, db, lost, seen
<1>9. ASSUME NEW s \in Sessions, NextRow(s) PROVE TypeOK'
  <2>1. disk' \in Registry  BY <1>9, <1>1 DEF NextRow, Halted
  <2>2. view' \in Views  BY <1>9, <1>1 DEF NextRow, Views
  <2>. QED  BY <1>9, <2>1, <2>2 DEF NextRow, TypeOK, lost, seen, Registry, Views
<1>10. ASSUME NEW s \in Sessions, NextRowError(s) PROVE TypeOK'
  <2>1. view' \in Views  BY <1>10, <1>1, <1>2 DEF NextRowError, Views
  <2>. QED  BY <1>10, <2>1 DEF NextRowError, RollBackAll, TypeOK, Views, lost, seen
<1>11. ASSUME NEW s \in Sessions, CloseView(s) PROVE TypeOK'
  <2>1. LeakAfter(s)  BY <1>11 DEF CloseView
  <2>. QED  BY <1>11, <2>1, FinalizedType, LeakAfterType DEF CloseView, TypeOK, seen, Views, Registry
<1>12. ASSUME NEW s \in Sessions, CloseSession(s) PROVE TypeOK'
  <2>1. LeakAfter(s)  BY <1>12 DEF CloseSession
  <2>. QED  BY <1>12, <2>1, FinalizedType, LeakAfterType DEF CloseSession, TypeOK, Views, Registry
<1>13. ASSUME NEW s \in Sessions, CloseSessionReconnects(s) PROVE TypeOK'
  <2>1. view' \in Views  BY <1>13, <1>1 DEF CloseSessionReconnects, Reconnect, Views
  <2>2. disk' = Finalized(s).disk /\ disk' \in Registry /\ Finalized(s).work \in Registry
    BY <1>13, FinalizedType DEF CloseSessionReconnects, Reconnect
  <2>3. leak' \in {"none", "readers", "writer", "late"}
    BY <1>13 DEF CloseSessionReconnects, Reconnect
  <2>4. late' \in Registry  BY <1>13, <2>2, <1>1 DEF CloseSessionReconnects, Reconnect
  <2>. QED  BY <1>13, <2>1, <2>2, <2>3, <2>4
            DEF CloseSessionReconnects, Reconnect, TypeOK, Registry, Views
<1>14. ASSUME NEW s \in Sessions, NEW c \in Components, SetScomoState(s, c) PROVE TypeOK'
  <2>1. Done("SetScomoState", c) \in Registry  BY <1>1, WrittenType DEF Requests
  <2>2. work' \in Registry /\ disk' \in Registry  BY <1>14, <2>1, <1>1 DEF SetScomoState, Write
  <2>. QED  BY <1>14, <2>2 DEF SetScomoState, Write, Wrote, TypeOK, Registry, lost
<1>15. ASSUME NEW s \in Sessions, NEW c \in Components, NEW f \in Implicit \cup Single,
              MutateExplicit(s, f, c)
       PROVE  TypeOK'
  <2>1. \A w \in {Done(f, c)} \cup Failed(f, c) : w \in Registry
    BY <1>1, WrittenType DEF Requests
  <2>2. work' \in Registry /\ disk' \in Registry
    BY <1>15, <2>1, <1>1 DEF MutateExplicit, Write
  <2>. QED  BY <1>15, <2>2 DEF MutateExplicit, Write, Wrote, TypeOK, Registry, lost
<1>16. ASSUME NEW s \in Sessions, NEW c \in Components, NEW f \in Implicit \cup Single,
              MutateImplicit(s, f, c)
       PROVE  TypeOK'
  <2>1. \A w \in {Done(f, c)} \cup Failed(f, c) : w \in Registry
    BY <1>1, WrittenType DEF Requests
  <2>2. work' \in Registry /\ disk' \in Registry /\ auto' \in BOOLEAN
    BY <1>16, <2>1, <1>1 DEF MutateImplicit
  <2>. QED  BY <1>16, <2>2 DEF MutateImplicit, TypeOK, Registry, lost, seen
<1>17. ASSUME NEW s \in Sessions, NEW c \in Components, NEW f \in Implicit \cup Single,
              MutateSingle(s, f, c)
       PROVE  TypeOK'
  <2>1. Done(f, c) \in Registry  BY <1>1, WrittenType DEF Requests
  <2>2. work' \in Registry /\ disk' \in Registry  BY <1>17, <2>1, <1>1 DEF MutateSingle, Write
  <2>. QED  BY <1>17, <2>2 DEF MutateSingle, Write, Wrote, TypeOK, Registry, lost
<1>18. ASSUME NEW s \in Sessions, NEW c \in Components, NEW f \in Implicit \cup Single,
              ServerEndsInRequest(s, f, c)
       PROVE  TypeOK'
  <2>. DEFINE steps == Statements(f, work[c])
  <2>1. work[c] \in SUBSET Row  BY <1>1 DEF Registry
  <2>2. /\ Len(steps) \in Nat \ {0}
        /\ \A k \in 1 .. Len(steps) : steps[k] \in SUBSET Row
    BY <2>1, StatementsType DEF Requests
  <2>3. \E k \in 1 .. Len(steps) - 1 : disk' = [work EXCEPT ![c] = steps[k]]
    BY <1>18 DEF ServerEndsInRequest
  <2>. HIDE DEF steps
  <2>4. disk' \in Registry  BY <2>2, <2>3, <1>1 DEF Registry
  <2>5. view' \in Views  BY <1>18, <1>1 DEF ServerEndsInRequest, Restart, Views
  <2>. QED  BY <1>18, <2>4, <2>5, <1>1 DEF ServerEndsInRequest, Restart, TypeOK, Registry, Views
<1>19. CASE ServerEnds
  <2>1. view' \in Views  BY <1>19, <1>1 DEF ServerEnds, Restart, Views
  <2>. QED  BY <1>19, <2>1, <1>1 DEF ServerEnds, Restart, TypeOK, Registry, Views
<1>. QED  BY <1>3, <1>4, <1>5, <1>6, <1>7, <1>8, <1>9, <1>10, <1>11, <1>12, <1>13, <1>14, <1>15,
             <1>16, <1>17, <1>18, <1>19 DEF Next

-----------------------------------------------------------------------------
(* Owners and the locks of earlier connections.                              *)

LEMMA OwnerStep ==
    ASSUME TypeOK, OwnerConnected, OnlyOwnerWrites, LeakAlone, Next
    PROVE  OwnerConnected' /\ OnlyOwnerWrites' /\ LeakAlone'
<1>. USE ScrAssumption DEF OwnerConnected, OnlyOwnerWrites, LeakAlone, CanWrite
<1>1. ASSUME NEW s \in Sessions,
             Connect(s) \/ CreateTransaction(s) \/ CommitTransaction(s) \/ RollbackTransaction(s)
      PROVE  OwnerConnected' /\ OnlyOwnerWrites' /\ LeakAlone'
  BY <1>1 DEF Connect, CreateTransaction, CommitTransaction, RollbackTransaction, CanBegin,
              db, lost, seen
<1>2. ASSUME NEW s \in Sessions, CommitError(s) \/ MutateError(s) \/ NextRowError(s) \/ NextRow(s)
      PROVE  OwnerConnected' /\ OnlyOwnerWrites' /\ LeakAlone'
  BY <1>2 DEF CommitError, MutateError, NextRowError, NextRow, RollBackAll, lost, seen
<1>3. ASSUME NEW s \in Sessions, NEW anyTime \in BOOLEAN, OpenView(s, anyTime)
      PROVE  OwnerConnected' /\ OnlyOwnerWrites' /\ LeakAlone'
  BY <1>3 DEF OpenView, db, lost, seen
<1>4. ASSUME NEW s \in Sessions, LeakAfter(s)
      PROVE  /\ leak' \in {"writer", "late"} => leak \in {"writer", "late"}
             /\ leak \in {"none", "readers"} => leak' \in {"none", "readers"}
  BY <1>4 DEF LeakAfter, lost
<1>5. \A s \in Sessions : auto => Finalized(s).auto  BY DEF Finalized
<1>6. ASSUME NEW s \in Sessions, CloseView(s)
      PROVE  OwnerConnected' /\ OnlyOwnerWrites' /\ LeakAlone'
  BY <1>6, <1>4, <1>5 DEF CloseView, seen
<1>7. ASSUME NEW s \in Sessions, CloseSession(s)
      PROVE  OwnerConnected' /\ OnlyOwnerWrites' /\ LeakAlone'
  <2>1. CASE IsTransactionOwner(s)
    BY <1>7, <2>1, <1>4 DEF CloseSession
  <2>2. CASE ~IsTransactionOwner(s)
    BY <1>7, <2>2, <1>4, <1>5 DEF CloseSession, IsTransactionOwner
  <2>. QED  BY <2>1, <2>2
<1>8. ASSUME NEW s \in Sessions, CloseSessionReconnects(s)
      PROVE  OwnerConnected' /\ OnlyOwnerWrites' /\ LeakAlone'
  BY <1>8 DEF CloseSessionReconnects, Reconnect
<1>9. ASSUME NEW s \in Sessions, NEW c \in Components, SetScomoState(s, c)
      PROVE  OwnerConnected' /\ OnlyOwnerWrites' /\ LeakAlone'
  BY <1>9 DEF SetScomoState, Write, Wrote, lost
<1>10. ASSUME NEW s \in Sessions, NEW c \in Components, NEW f \in Implicit \cup Single,
              MutateExplicit(s, f, c) \/ MutateSingle(s, f, c)
       PROVE  OwnerConnected' /\ OnlyOwnerWrites' /\ LeakAlone'
  <2>1. auto' = auto  BY <1>10 DEF MutateExplicit, MutateSingle, Write
  <2>2. foreign' = foreign
    BY <1>10 DEF MutateExplicit, MutateSingle, Wrote, ApplyTransactionConstraint
  <2>. QED  BY <1>10, <2>1, <2>2 DEF MutateExplicit, MutateSingle, lost
<1>11. ASSUME NEW s \in Sessions, NEW c \in Components, NEW f \in Implicit \cup Single,
              MutateImplicit(s, f, c)
       PROVE  OwnerConnected' /\ OnlyOwnerWrites' /\ LeakAlone'
  BY <1>11 DEF MutateImplicit, CanBegin, lost, seen
<1>12. ASSUME Restart PROVE OwnerConnected' /\ OnlyOwnerWrites' /\ LeakAlone'
  BY <1>12 DEF Restart
<1>. QED  BY <1>1, <1>2, <1>3, <1>6, <1>7, <1>8, <1>9, <1>10, <1>11, <1>12
          DEF Next, ServerEnds, ServerEndsInRequest

-----------------------------------------------------------------------------
(* Whole components.                                                         *)

\* A statement that is finalized brings nothing new into the file.
LEMMA FinalizedKept ==
    ASSUME NEW s \in Sessions, RowsKept
    PROVE  /\ Kept(Finalized(s).disk)
           /\ Finalized(s).auto \/ owner # NoSession => Kept(Finalized(s).work)
<1>1. Kept(disk) /\ (auto \/ owner # NoSession => Kept(work))  BY DEF RowsKept
<1>2. CASE view[s] \in Refused
  <2>1. Finalized(s).disk = disk /\ Finalized(s).work = disk  BY <1>2 DEF Finalized
  <2>. QED  BY <2>1, <1>1
<1>3. CASE view[s] \notin Refused
  <2>1. /\ Finalized(s).disk = Halted(s) /\ Finalized(s).work = work
        /\ Finalized(s).auto = auto
    BY <1>3 DEF Finalized
  <2>2. Halted(s) = disk \/ (auto /\ Halted(s) = work)  BY DEF Halted
  <2>. QED  BY <2>1, <2>2, <1>1
<1>. QED  BY <1>2, <1>3

LEMMA LeakAfterKept ==
    ASSUME NEW s \in Sessions, RowsKept, LeakAlone, LeakAfter(s)
    PROVE  /\ Kept(disk') /\ Kept(late')
           /\ Finalized(s).auto \/ owner # NoSession => Kept(WorkAfter(s))
<1>1. Kept(disk) /\ Kept(late)  BY DEF RowsKept
<1>2. Kept(NoRows)  BY DEF Kept, NoRows, Whole
<1>3. Kept(disk') /\ Kept(late')
  BY <1>1, <1>2, FinalizedKept DEF LeakAfter, lost
<1>. QED  BY <1>3, FinalizedKept DEF WorkAfter

\* One request of a client in its own transaction, or of a single statement.
LEMMA WrittenKept ==
    ASSUME TypeOK, NEW f \in Requests, NEW c \in Components, Applies(f, c), Kept(work)
    PROVE  Kept(Done(f, c))
<1>1. work \in Registry  BY DEF TypeOK, Registry
<1>2. \A d \in Components \ {c} : Done(f, c)[d] = work[d]  BY <1>1, WrittenType
<1>3. Whole(work[c]) => Whole(Done(f, c)[c])  BY <1>1, DoneWhole
<1>. QED  BY <1>2, <1>3 DEF Kept

LEMMA KeptStep == ASSUME TypeOK, LeakAlone, RowsKept, Next PROVE RowsKept'
<1>0. Kept(disk) /\ Kept(late) /\ (auto \/ owner # NoSession => Kept(work))  BY DEF RowsKept
<1>. USE DEF IsTransactionInProgress, IsTransactionOwner
<1>1. ASSUME NEW s \in Sessions,
             Connect(s) \/ CreateTransaction(s) \/ CommitTransaction(s) \/ RollbackTransaction(s)
      PROVE  RowsKept'
  <2>1. excused' = excused /\ late' = late
    BY <1>1 DEF Connect, CreateTransaction, CommitTransaction, RollbackTransaction, lost, seen
  <2>2. CASE Connect(s)
    BY <2>1, <2>2, <1>0 DEF Connect, db, RowsKept, Kept
  <2>3. CASE CreateTransaction(s)
    BY <2>1, <2>3, <1>0 DEF CreateTransaction, CanBegin, RowsKept, Kept
  <2>4. CASE CommitTransaction(s)
    <3>1. Kept(work)  BY <2>4, <1>0, ScrAssumption DEF CommitTransaction
    <3>. QED  BY <3>1, <2>1, <2>4, <1>0 DEF CommitTransaction, RowsKept, Kept
  <2>5. CASE RollbackTransaction(s)
    BY <2>1, <2>5, <1>0 DEF RollbackTransaction, RowsKept, Kept
  <2>. QED  BY <1>1, <2>2, <2>3, <2>4, <2>5
<1>2. ASSUME NEW s \in Sessions, CommitError(s) \/ MutateError(s) \/ NextRowError(s)
      PROVE  RowsKept'
  BY <1>2, <1>0 DEF CommitError, MutateError, NextRowError, RollBackAll, RowsKept, Kept, lost, seen
<1>3. ASSUME NEW s \in Sessions, NEW anyTime \in BOOLEAN, OpenView(s, anyTime)
      PROVE  RowsKept'
  BY <1>3, <1>0 DEF OpenView, RowsKept, Kept, db, lost, seen
<1>4. ASSUME NEW s \in Sessions, NextRow(s) PROVE RowsKept'
  <2>1. disk' = disk \/ (auto /\ disk' = work)  BY <1>4 DEF NextRow, Halted
  <2>. QED  BY <2>1, <1>4, <1>0 DEF NextRow, RowsKept, Kept, lost, seen
<1>5. ASSUME NEW s \in Sessions, CloseView(s) PROVE RowsKept'
  <2>1. LeakAfter(s) /\ excused' = excused /\ owner' = owner  BY <1>5 DEF CloseView, seen
  <2>2. Kept(disk') /\ Kept(late') /\ (auto' \/ owner' # NoSession => Kept(work'))
    BY <1>5, <2>1, LeakAfterKept DEF CloseView
  <2>. QED  BY <2>1, <2>2 DEF RowsKept, Kept
<1>6. ASSUME NEW s \in Sessions, CloseSession(s) PROVE RowsKept'
  <2>1. LeakAfter(s) /\ excused' = excused  BY <1>6 DEF CloseSession
  <2>2. Kept(disk') /\ Kept(late')  BY <2>1, LeakAfterKept
  <2>3. auto' \/ owner' # NoSession => Kept(work')
    BY <1>6, <2>1, <2>2, LeakAfterKept DEF CloseSession
  <2>. QED  BY <2>1, <2>2, <2>3 DEF RowsKept, Kept
<1>7. ASSUME NEW s \in Sessions, CloseSessionReconnects(s) PROVE RowsKept'
  <2>1. excused' = excused /\ Reconnect(s)  BY <1>7 DEF CloseSessionReconnects
  <2>2. owner # NoSession  BY <1>7, ScrAssumption DEF CloseSessionReconnects
  <2>3. disk' = Finalized(s).disk /\ work' = disk'  BY <2>1 DEF Reconnect
  <2>4. Kept(disk') /\ Kept(Finalized(s).work)  BY <2>2, <2>3, FinalizedKept
  <2>5. late' \in {NoRows, disk', Finalized(s).work}  BY <2>1 DEF Reconnect
  <2>6. Kept(late')  BY <2>4, <2>5 DEF Kept, NoRows, Whole
  <2>. QED  BY <2>1, <2>3, <2>4, <2>6 DEF RowsKept, Kept
<1>8. ASSUME NEW s \in Sessions, NEW c \in Components, NEW f \in Requests, Applies(f, c),
             Write(Done(f, c)), UNCHANGED <<owner, excused, late>>
      PROVE  RowsKept'
  <2>1. Kept(work) => Kept(Done(f, c))  BY <1>8, WrittenKept
  <2>. QED  BY <1>8, <2>1, <1>0 DEF Write, RowsKept, Kept
<1>9. ASSUME NEW s \in Sessions, NEW c \in Components, SetScomoState(s, c) PROVE RowsKept'
  <2>1. "SetScomoState" \in Requests  BY DEF Requests
  <2>. QED  BY <1>8, <1>9, <2>1 DEF SetScomoState, lost
<1>10. ASSUME NEW s \in Sessions, NEW c \in Components, NEW f \in Implicit \cup Single,
              MutateSingle(s, f, c)
       PROVE  RowsKept'
  BY <1>8, <1>10 DEF MutateSingle, lost, Requests
<1>11. ASSUME NEW s \in Sessions, NEW c \in Components, NEW f \in Implicit \cup Single,
              MutateExplicit(s, f, c)
       PROVE  RowsKept'
  <2>1. /\ owner # NoSession /\ owner' = owner /\ late' = late /\ f \in Requests
        /\ Applies(f, c)
    BY <1>11 DEF MutateExplicit, lost, Requests
  <2>2. CASE Write(Done(f, c)) /\ UNCHANGED excused
    BY <1>8, <2>1, <2>2
  <2>3. CASE \E w \in Failed(f, c) :
                /\ Write(w)
                /\ excused' = IF Whole(w[c]) THEN excused ELSE excused \cup {c}
    <3>1. PICK w \in Failed(f, c) :
                /\ Write(w)
                /\ excused' = IF Whole(w[c]) THEN excused ELSE excused \cup {c}
      BY <2>3
    <3>2. \A d \in Components \ {c} : w[d] = work[d]
      BY <2>1, WrittenType DEF TypeOK, Registry
    <3>3. \A d \in Components : Whole(w[d]) \/ d \in excused'
      BY <3>1, <3>2, <2>1, <1>0 DEF Kept
    <3>4. excused \subseteq excused' /\ work' = w /\ disk' \in {w, disk}
      BY <3>1 DEF Write
    <3>. QED  BY <3>3, <3>4, <2>1, <1>0 DEF RowsKept, Kept
  <2>. QED  BY <1>11, <2>2, <2>3 DEF MutateExplicit
<1>12. ASSUME NEW s \in Sessions, NEW c \in Components, NEW f \in Implicit \cup Single,
              MutateImplicit(s, f, c)
       PROVE  RowsKept'
  <2>1. /\ owner' = NoSession /\ auto /\ late' = late /\ excused' = excused
        /\ Applies(f, c) /\ f \in Requests
    BY <1>12 DEF MutateImplicit, CanBegin, lost, seen, Requests
  <2>2. Kept(Done(f, c))  BY <2>1, <1>0, WrittenKept
  <2>3. \/ ~auto' /\ disk' = disk
        \/ work' = disk' /\ disk' \in {Done(f, c), disk}
    BY <1>12 DEF MutateImplicit
  <2>. QED  BY <2>1, <2>2, <2>3, <1>0 DEF RowsKept, Kept
<1>13. CASE ServerEnds
  BY <1>13, <1>0 DEF ServerEnds, Restart, RowsKept, Kept, NoRows, Whole
<1>14. ASSUME NEW s \in Sessions, NEW c \in Components, NEW f \in Implicit \cup Single,
              ServerEndsInRequest(s, f, c)
       PROVE  RowsKept'
  <2>1. Kept(work)  BY <1>14, <1>0 DEF ServerEndsInRequest
  <2>2. /\ work' = disk' /\ late' = NoRows /\ excused' = excused \cup {c}
        /\ \E r : disk' = [work EXCEPT ![c] = r]
    BY <1>14 DEF ServerEndsInRequest, Restart
  <2>3. \A d \in Components \ {c} : disk'[d] = work[d]  BY <2>2 DEF TypeOK
  <2>. QED  BY <2>1, <2>2, <2>3 DEF RowsKept, Kept, NoRows, Whole
<1>. QED  BY <1>1, <1>2, <1>3, <1>4, <1>5, <1>6, <1>7, <1>9, <1>10, <1>11, <1>12, <1>13, <1>14
          DEF Next

-----------------------------------------------------------------------------
(* The theorems.                                                             *)

LEMMA IInvStep == ASSUME IInv, [Next]_vars PROVE IInv'
<1>1. CASE Next
  BY <1>1, TypeStep, OwnerStep, KeptStep DEF IInv
<1>2. CASE UNCHANGED vars
  BY <1>2 DEF IInv, vars, TypeOK, OwnerConnected, OnlyOwnerWrites, LeakAlone, RowsKept, Kept
<1>. QED  BY <1>1, <1>2

\* The inductive invariant holds of every behaviour of the server.
THEOREM Invariance == Spec => []IInv
<1>1. Init => IInv  BY InitIInv
<1>2. IInv /\ [Next]_vars => IInv'  BY IInvStep
<1>. QED  BY <1>1, <1>2, PTL DEF Spec

\* Type correctness.
THEOREM TypeCorrect == Spec => []TypeOK
<1>1. IInv => TypeOK  BY DEF IInv
<1>. QED  BY <1>1, Invariance, PTL

\* iTransactionOwningSession never points at a session that has gone.
THEOREM OwnerIsConnected == Spec => []OwnerConnected
<1>1. IInv => OwnerConnected  BY DEF IInv
<1>. QED  BY <1>1, Invariance, PTL

\* A component is in the file with all of its rows or not at all, unless a request of
\* a client's own transaction failed half way.
THEOREM ComponentsWhole == Spec => []WholeOnDisk
<1>1. IInv => WholeOnDisk  BY DEF IInv, RowsKept, Kept, WholeOnDisk
<1>. QED  BY <1>1, Invariance, PTL

\* What the owner of a transaction commits is its own.
THEOREM OwnerWritesAlone == Spec => []OnlyOwnerWrites
<1>1. IInv => OnlyOwnerWrites  BY DEF IInv
<1>. QED  BY <1>1, Invariance, PTL

\* In a transaction, nothing reaches the file except by a commit of its owner.
LEMMA OpenTransaction ==
    ASSUME IInv, Next, ~auto
    PROVE  disk' = disk \/ \E s \in Sessions : owner = s /\ CommitTransaction(s)
<1>1. leak \notin {"writer", "late"}  BY DEF IInv, LeakAlone
<1>2. \A s \in Sessions : Halted(s) = disk  BY DEF Halted
<1>3. \A s \in Sessions : Finalized(s).disk = disk  BY <1>2 DEF Finalized
<1>4. \A s \in Sessions : LeakAfter(s) => disk' = disk  BY <1>1, <1>3 DEF LeakAfter
<1>5. ASSUME NEW w, Write(w) PROVE disk' = disk  BY <1>5 DEF Write
<1>6. ASSUME NEW s \in Sessions,
             \/ Connect(s) \/ CreateTransaction(s) \/ RollbackTransaction(s) \/ CommitError(s)
             \/ MutateError(s) \/ NextRowError(s)
      PROVE  disk' = disk
  BY <1>6 DEF Connect, CreateTransaction, RollbackTransaction, CommitError, MutateError,
              NextRowError, RollBackAll, db
<1>7. ASSUME NEW s \in Sessions, CommitTransaction(s)
      PROVE  \E t \in Sessions : owner = t /\ CommitTransaction(t)
  BY <1>7 DEF CommitTransaction, IsTransactionOwner
<1>8. ASSUME NEW s \in Sessions, NextRow(s) PROVE disk' = disk
  BY <1>8, <1>2 DEF NextRow
<1>9. ASSUME NEW s \in Sessions, CloseView(s) \/ CloseSession(s) PROVE disk' = disk
  BY <1>9, <1>4 DEF CloseView, CloseSession
<1>10. ASSUME NEW s \in Sessions, CloseSessionReconnects(s) PROVE disk' = disk
  BY <1>10, <1>3 DEF CloseSessionReconnects, Reconnect
<1>11. ASSUME NEW s \in Sessions, NEW anyTime \in BOOLEAN, OpenView(s, anyTime)
       PROVE  disk' = disk
  BY <1>11 DEF OpenView, db
<1>12. ASSUME NEW s \in Sessions, NEW c \in Components, SetScomoState(s, c) PROVE disk' = disk
  BY <1>12, <1>5 DEF SetScomoState
<1>13. ASSUME NEW s \in Sessions, NEW c \in Components, NEW f \in Implicit \cup Single,
              \/ MutateExplicit(s, f, c) \/ MutateImplicit(s, f, c)
              \/ MutateSingle(s, f, c) \/ ServerEndsInRequest(s, f, c)
       PROVE  disk' = disk
  BY <1>13, <1>5
     DEF MutateExplicit, MutateImplicit, MutateSingle, ServerEndsInRequest, CanBegin
<1>14. CASE ServerEnds  BY <1>14 DEF ServerEnds
<1>. QED  BY <1>6, <1>7, <1>8, <1>9, <1>10, <1>11, <1>12, <1>13, <1>14 DEF Next

\* As long as a session owns an open transaction, nothing reaches the file until that
\* session commits.
THEOREM HiddenUntilCommit == Spec => TransactionHides
<1>. DEFINE Hides ==
       \A s \in Sessions : IsTransactionOwner(s) /\ ~auto => disk' = disk \/ CommitTransaction(s)
<1>1. IInv /\ [Next]_vars => [Hides]_vars
  BY OpenTransaction DEF IsTransactionOwner, vars
<1>2. Spec => [][Hides]_vars  BY <1>1, Invariance, PTL DEF Spec
<1>. QED  BY <1>2 DEF TransactionHides

\* What is left in a transaction nobody owns never reaches the file.
THEOREM OrphansStay == Spec => OrphanNeverLands
<1>. DEFINE Stays == ~IsTransactionInProgress /\ ~auto => disk' = disk
<1>1. IInv /\ [Next]_vars => [Stays]_vars
  BY OpenTransaction, ScrAssumption DEF IsTransactionInProgress, vars
<1>2. Spec => [][Stays]_vars  BY <1>1, Invariance, PTL DEF Spec
<1>. QED  BY <1>2 DEF OrphanNeverLands

\* What a client has been told of the end of its transaction is true of the file.
THEOREM ToldOfTheEnd == Spec => EndsClean
<1>. DEFINE Clean ==
       \A s \in Sessions :
          IsTransactionOwner(s) /\ owner' = NoSession /\ s \in open' =>
              work' = disk' /\ auto' /\ disk' \in {disk, work}
<1>1. ASSUME IInv, Next, NEW s \in Sessions, owner = s, owner' = NoSession, s \in open'
      PROVE  \E t \in Sessions : CommitTransaction(t) \/ RollbackTransaction(t)
  <2>. USE ScrAssumption DEF IsTransactionOwner, IsTransactionInProgress
  <2>1. ASSUME NEW t \in Sessions,
               \/ Connect(t) \/ CreateTransaction(t) \/ CommitError(t) \/ MutateError(t)
               \/ NextRow(t) \/ NextRowError(t) \/ CloseView(t)
        PROVE  FALSE
    BY <1>1, <2>1 DEF Connect, CreateTransaction, CommitError, MutateError, NextRow,
                      NextRowError, CloseView
  <2>2. ASSUME NEW t \in Sessions, CloseSession(t) \/ CloseSessionReconnects(t) PROVE FALSE
    BY <1>1, <2>2 DEF CloseSession, CloseSessionReconnects
  <2>3. ASSUME NEW t \in Sessions, NEW anyTime \in BOOLEAN, OpenView(t, anyTime) PROVE FALSE
    BY <1>1, <2>3 DEF OpenView
  <2>4. ASSUME NEW t \in Sessions, NEW c \in Components, SetScomoState(t, c) PROVE FALSE
    BY <1>1, <2>4 DEF SetScomoState
  <2>5. ASSUME NEW t \in Sessions, NEW c \in Components, NEW f \in Implicit \cup Single,
               \/ MutateExplicit(t, f, c) \/ MutateImplicit(t, f, c)
               \/ MutateSingle(t, f, c) \/ ServerEndsInRequest(t, f, c)
        PROVE  FALSE
    BY <1>1, <2>5 DEF MutateExplicit, MutateImplicit, MutateSingle, ServerEndsInRequest, Restart
  <2>6. CASE ServerEnds  BY <1>1, <2>6 DEF ServerEnds, Restart
  <2>. QED  BY <1>1, <2>1, <2>2, <2>3, <2>4, <2>5, <2>6 DEF Next
<1>2. ASSUME NEW t \in Sessions, CommitTransaction(t) \/ RollbackTransaction(t)
      PROVE  work' = disk' /\ auto' /\ disk' \in {disk, work}
  BY <1>2 DEF CommitTransaction, RollbackTransaction
<1>3. IInv /\ [Next]_vars => [Clean]_vars
  BY <1>1, <1>2, ScrAssumption DEF IsTransactionOwner, vars
<1>4. Spec => [][Clean]_vars  BY <1>3, Invariance, PTL DEF Spec
<1>. QED  BY <1>4 DEF EndsClean
=============================================================================
