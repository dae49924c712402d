------------------------ MODULE SifNotificationProofs ------------------------
(***************************************************************************)
(* Theorems about SifNotification for any installers and any number of keys:  *)
(* type correctness, no two operations share a key, and a notifier that        *)
(* keeps up knows the operations that run and has told of each of them once.   *)
(***************************************************************************)
EXTENDS SifNotification, SequenceTheorems, FiniteSetTheorems, WellFoundedInduction, TLAPS

\* A non-empty set of natural numbers has a least element.
LEMMA LeastNatural ==
    ASSUME NEW T, T \subseteq Nat, T # {}
    PROVE  \E n \in T : \A m \in T : n <= m
<1>1. PICK n \in T : \A m \in T : <<m, n>> \notin OpToRel(<, Nat)
  BY WFMin, NatLessThanWellFounded, Zenon
<1>2. ASSUME NEW m \in T PROVE ~ (m < n)
  BY <1>1, Zenon DEF OpToRel
<1> QED BY <1>2

\* The part of TypeOK that the publishers keep.
PublishedType ==
    /\ prop \in [Keys -> [type : {"undefined", "blank", "start", "end"},
                          op : Publishers \cup {Nobody}]]
    /\ prog \subseteq Keys
    /\ list \in Seq(Keys)
    /\ pc \in [Publishers -> PublisherState]
    /\ mine \in [Publishers -> Keys \cup {0}]
    /\ copy \in [Publishers -> Seq(Keys)]

\* A publisher that looks for a key has one to try, before it defines its key it has
\* picked one, and one that holds a key has defined it: nobody else can, as long as it
\* is defined.
OwnKey ==
    \A p \in Publishers :
        /\ pc[p] = "new" => mine[p] < KeyCount
        /\ pc[p] # "new" => mine[p] # 0
        /\ Holds(p) => prop[mine[p]].op = p /\ prop[mine[p]].type # "undefined"

IInv == PublishedType /\ OwnKey

LEMMA InitIInv == ASSUME Init PROVE IInv
<1>1. PICK lost \in SUBSET Keys :
         prop = [k \in Keys |-> [NoData EXCEPT !.type = IF k \in lost THEN "blank" ELSE @]]
  BY DEF Init
<1>2. prop \in [Keys -> [type : {"undefined", "blank", "start", "end"},
                         op : Publishers \cup {Nobody}]]
  BY <1>1 DEF NoData
<1>3. PublishedType  BY <1>2 DEF Init, PublishedType, PublisherState, Over
<1>. QED  BY <1>3, NotificationAssumption DEF Init, IInv, OwnKey, Holds

-----------------------------------------------------------------------------
(* The operators.                                                             *)

\* The removal of a key that is there leaves a list of keys.
LEMMA WithoutType ==
    ASSUME NEW s \in Seq(Keys), NEW k \in Elements(s)
    PROVE  Without(s, k) \in Seq(Keys)
<1>. DEFINE places == {i \in DOMAIN s : s[i] = k}
            isFirst(i) == s[i] = k /\ \A j \in 1 .. i - 1 : s[j] # k
            first == CHOOSE i \in DOMAIN s : isFirst(i)
<1>1. places \subseteq Nat /\ places # {} /\ DOMAIN s = 1 .. Len(s) /\ Len(s) \in Nat
  BY DEF Elements
<1>2. PICK n \in places : \A m \in places : n <= m
  <2>. HIDE DEF places
  <2>. QED  BY <1>1, LeastNatural
<1>3. n \in DOMAIN s /\ isFirst(n)
  <2>1. ASSUME NEW j \in 1 .. n - 1 PROVE s[j] # k
    BY <1>1, <1>2, <2>1
  <2>. QED  BY <1>2, <2>1
<1>4. first \in DOMAIN s
  <2>. HIDE DEF isFirst
  <2>. QED  BY <1>3
<1>5. Without(s, k) = SubSeq(s, 1, first - 1) \o SubSeq(s, first + 1, Len(s))
  BY DEF Without
<1>. HIDE DEF first
<1>6. /\ \A i \in 1 .. first - 1 : s[i] \in Keys
      /\ \A i \in first + 1 .. Len(s) : s[i] \in Keys
  BY <1>1, <1>4
<1>7. SubSeq(s, 1, first - 1) \in Seq(Keys) /\ SubSeq(s, first + 1, Len(s)) \in Seq(Keys)
  BY <1>1, <1>4, <1>6
<1>. QED  BY <1>5, <1>7

-----------------------------------------------------------------------------
(* Every step of a publisher.                                                 *)

Data == [type : {"undefined", "blank", "start", "end"}, op : Publishers \cup {Nobody}]

\* They keep their types.
LEMMA PublishType ==
    ASSUME IInv, NEW p \in Publishers, Publish(p) \/ Fault(p) \/ Dies(p)
    PROVE  PublishedType'
<1>. USE DEF Goto
<1>0. /\ {"new", "picked", "defined", "set", "progress", "copied", "running", "looking", "found",
          "ended", "due", "removed", "failed", "deleted", "gone", "abandoned", "cut"}
             \subseteq PublisherState
      /\ <<>> \in Seq(Keys)
  BY DEF PublisherState, Over
<1>1. /\ prop \in [Keys -> Data] /\ prog \subseteq Keys /\ list \in Seq(Keys)
      /\ pc \in [Publishers -> PublisherState] /\ mine \in [Publishers -> Keys \cup {0}]
      /\ copy \in [Publishers -> Seq(Keys)]
  BY DEF IInv, PublishedType, Data
<1>2. /\ \A t \in {"blank", "start", "end"} : [type |-> t, op |-> p] \in Data
      /\ NoData \in Data
  BY DEF Data, NoData
<1>3. \A d \in Data : [prop EXCEPT ![mine[p]] = d] \in [Keys -> Data]
  <2>. HIDE DEF Data
  <2>. QED  BY <1>1
<1>4. \A s \in PublisherState : [pc EXCEPT ![p] = s] \in [Publishers -> PublisherState]
  <2>. HIDE DEF PublisherState
  <2>. QED  BY <1>1
<1>5. \A s \in Seq(Keys) : [copy EXCEPT ![p] = s] \in [Publishers -> Seq(Keys)]
  BY <1>1
<1>6. CASE AvailableKey(p)
  <2>1. pc' \in [Publishers -> PublisherState]  BY <1>0, <1>4, <1>6 DEF AvailableKey
  <2>0. mine[p] \in Nat /\ mine[p] < KeyCount
    BY <1>1, <1>6 DEF AvailableKey, IInv, OwnKey, Keys
  <2>2. PICK k \in Keys \cup {0} : mine' = [mine EXCEPT ![p] = k]
    <3>1. mine[p] + 1 \in Keys  BY <2>0, NotificationAssumption DEF Keys
    <3>. QED  BY <1>6, <3>1 DEF AvailableKey
  <2>3. mine' \in [Publishers -> Keys \cup {0}]  BY <1>1, <2>2
  <2>4. UNCHANGED <<prop, prog, list, copy>>  BY <1>6 DEF AvailableKey, properties
  <2>. QED  BY <1>1, <2>1, <2>3, <2>4 DEF PublishedType, Data
<1>7. CASE DefineKey(p)
  <2>1. prop' \in [Keys -> Data]  BY <1>1, <1>2, <1>3, <1>7 DEF DefineKey
  <2>2. mine' \in [Publishers -> Keys \cup {0}]  BY <1>1, <1>7 DEF DefineKey
  <2>3. pc' \in [Publishers -> PublisherState]  BY <1>0, <1>4, <1>7 DEF DefineKey
  <2>. QED  BY <1>1, <1>7, <2>1, <2>2, <2>3 DEF DefineKey, PublishedType, Data
<1>8. CASE SetStart(p) \/ SetEnd(p)
  <2>1. prop' \in [Keys -> Data]  BY <1>2, <1>3, <1>8 DEF SetStart, SetEnd, SetData
  <2>2. pc' \in [Publishers -> PublisherState]  BY <1>0, <1>4, <1>8 DEF SetStart, SetEnd
  <2>. QED  BY <1>1, <1>8, <2>1, <2>2 DEF SetStart, SetEnd, PublishedType, Data
<1>9. CASE DefineProgress(p) \/ DeleteProgress(p)
  <2>1. prog' \subseteq Keys
    <3>1. pc[p] # "new"  BY <1>9 DEF DefineProgress, DeleteProgress
    <3>2. mine[p] \in Keys  BY <1>1, <3>1 DEF IInv, OwnKey
    <3>. QED  BY <1>1, <1>9, <3>2 DEF DefineProgress, DeleteProgress
  <2>2. pc' \in [Publishers -> PublisherState]
    BY <1>0, <1>4, <1>9 DEF DefineProgress, DeleteProgress
  <2>. QED  BY <1>1, <1>9, <2>1, <2>2 DEF DefineProgress, DeleteProgress, PublishedType, Data
<1>10. CASE ReadList(p) \/ LookUp(p) \/ TimerReads(p)
  <2>1. copy' \in [Publishers -> Seq(Keys)]
    BY <1>1, <1>5, <1>10 DEF ReadList, LookUp, TimerReads
  <2>2. pc' \in [Publishers -> PublisherState]
    BY <1>0, <1>4, <1>10 DEF ReadList, LookUp, TimerReads
  <2>. QED  BY <1>1, <1>10, <2>1, <2>2
            DEF ReadList, LookUp, TimerReads, PublishedType, Data, properties
<1>11. CASE AppendKey(p) \/ TimerRemoves(p)
  <2>1. list' \in Seq(Keys)
    <3>1. CASE AppendKey(p)
      <4>1. mine[p] \in Keys  BY <1>1, <3>1 DEF IInv, OwnKey, AppendKey
      <4>2. list' = Append(copy[p], mine[p])  BY <3>1 DEF AppendKey, SetList
      <4>. QED  BY <1>1, <4>1, <4>2
    <3>2. CASE TimerRemoves(p)
      <4>1. copy[p] \in Seq(Keys) /\ mine[p] \in Elements(copy[p])
        BY <1>1, <3>2 DEF TimerRemoves
      <4>2. list' = Without(copy[p], mine[p])  BY <3>2 DEF TimerRemoves, SetList
      <4>. QED  BY <4>1, <4>2, WithoutType
    <3>. QED  BY <1>11, <3>1, <3>2
  <2>2. pc' \in [Publishers -> PublisherState] /\ copy' \in [Publishers -> Seq(Keys)]
    BY <1>0, <1>4, <1>5, <1>11 DEF AppendKey, TimerRemoves
  <2>. QED  BY <1>1, <1>11, <2>1, <2>2 DEF AppendKey, TimerRemoves, PublishedType, Data
<1>12. CASE LookAtKey(p)
  <2>1. pc' \in [Publishers -> PublisherState]  BY <1>0, <1>4, <1>12 DEF LookAtKey
  <2>2. copy[p] # <<>> => Head(copy[p]) \in Keys /\ Tail(copy[p]) \in Seq(Keys)  BY <1>1
  <2>3. mine' = mine \/ (copy[p] # <<>> /\ mine' = [mine EXCEPT ![p] = Head(copy[p])])
    BY <1>12 DEF LookAtKey, NoData
  <2>4. mine' \in [Publishers -> Keys \cup {0}]  BY <1>1, <2>2, <2>3
  <2>5. \/ copy' = [copy EXCEPT ![p] = <<>>]
        \/ copy[p] # <<>> /\ copy' = [copy EXCEPT ![p] = Tail(copy[p])]
    BY <1>1, <1>12 DEF LookAtKey, NoData
  <2>6. copy' \in [Publishers -> Seq(Keys)]  BY <1>0, <1>5, <2>2, <2>5
  <2>. QED  BY <1>1, <1>12, <2>1, <2>4, <2>6 DEF LookAtKey, PublishedType, Data, properties
<1>13. CASE DeleteKey(p)
  <2>1. prop' \in [Keys -> Data]  BY <1>2, <1>3, <1>13 DEF DeleteKey
  <2>2. pc' \in [Publishers -> PublisherState]  BY <1>0, <1>4, <1>13 DEF DeleteKey
  <2>. QED  BY <1>1, <1>13, <2>1, <2>2 DEF DeleteKey, PublishedType, Data
<1>14. CASE TimerPanics(p) \/ Fault(p) \/ Dies(p)
  <2>1. pc' \in [Publishers -> PublisherState] /\ copy' \in [Publishers -> Seq(Keys)]
    BY <1>0, <1>4, <1>5, <1>14 DEF TimerPanics, Fault, Dies
  <2>. QED  BY <1>1, <1>14, <2>1 DEF TimerPanics, Fault, Dies, PublishedType, Data, properties
<1>. QED
  BY <1>6, <1>7, <1>8, <1>9, <1>10, <1>11, <1>12, <1>13, <1>14 DEF Publish

\* They leave the other publishers alone, and write no key but their own or a free one.
LEMMA PublishFrame ==
    ASSUME IInv, NEW p \in Publishers, Publish(p) \/ Fault(p) \/ Dies(p)
    PROVE  /\ \A q \in Publishers \ {p} : pc'[q] = pc[q] /\ mine'[q] = mine[q]
           /\ \A k \in Keys : \/ prop'[k] = prop[k]
                              \/ k = mine[p] /\ (Holds(p) \/ prop[k].type = "undefined")
<1>. USE DEF Goto, properties
<1>1. /\ prop \in [Keys -> Data] /\ pc \in [Publishers -> PublisherState]
      /\ mine \in [Publishers -> Keys \cup {0}]
  BY DEF IInv, PublishedType, Data
<1>2. CASE AvailableKey(p)
  BY <1>1, <1>2 DEF AvailableKey
<1>3. CASE DefineKey(p)
  BY <1>1, <1>3 DEF DefineKey
<1>4. CASE SetStart(p) \/ SetEnd(p) \/ DeleteKey(p)
  <2>1. Holds(p)  BY <1>4 DEF SetStart, SetEnd, DeleteKey, Holds, Over
  <2>. QED  BY <1>1, <1>4, <2>1 DEF SetStart, SetEnd, DeleteKey, SetData
<1>5. CASE LookAtKey(p)
  BY <1>1, <1>5 DEF LookAtKey
<1>6. CASE \/ DefineProgress(p) \/ DeleteProgress(p) \/ ReadList(p) \/ LookUp(p)
           \/ TimerReads(p)
  BY <1>1, <1>6 DEF DefineProgress, DeleteProgress, ReadList, LookUp, TimerReads
<1>7. CASE \/ AppendKey(p) \/ TimerRemoves(p) \/ TimerPanics(p) \/ Fault(p) \/ Dies(p)
  BY <1>1, <1>7 DEF AppendKey, TimerRemoves, TimerPanics, Fault, Dies
<1>. QED
  BY <1>2, <1>3, <1>4, <1>5, <1>6, <1>7 DEF Publish

\* Each publisher still has its own key.
LEMMA PublishOwn ==
    ASSUME IInv, NEW p \in Publishers, Publish(p) \/ Fault(p) \/ Dies(p)
    PROVE  OwnKey'
<1>1. /\ prop \in [Keys -> Data] /\ pc \in [Publishers -> PublisherState]
      /\ mine \in [Publishers -> Keys \cup {0}] /\ copy \in [Publishers -> Seq(Keys)]
  BY DEF IInv, PublishedType, Data
<1>2. ASSUME NEW q \in Publishers \ {p}
      PROVE  /\ pc'[q] = "new" => mine'[q] < KeyCount
             /\ pc'[q] # "new" => mine'[q] # 0
             /\ Holds(q)' => prop'[mine'[q]].op = q /\ prop'[mine'[q]].type # "undefined"
  <2>1. pc'[q] = pc[q] /\ mine'[q] = mine[q]  BY PublishFrame
  <2>2. /\ pc[q] = "new" => mine[q] < KeyCount
        /\ pc[q] # "new" => mine[q] # 0
    BY DEF IInv, OwnKey
  <2>3. ASSUME Holds(q)
        PROVE  prop'[mine[q]].op = q /\ prop'[mine[q]].type # "undefined"
    <3>1. mine[q] \in Keys /\ prop[mine[q]].op = q /\ prop[mine[q]].type # "undefined"
      BY <1>1, <2>2, <2>3 DEF IInv, OwnKey, Holds
    <3>2. ~ (mine[q] = mine[p] /\ Holds(p))  BY <3>1 DEF IInv, OwnKey
    <3>3. prop'[mine[q]] = prop[mine[q]]  BY <3>1, <3>2, PublishFrame
    <3>. QED  BY <3>1, <3>3
  <2>. QED  BY <2>1, <2>2, <2>3 DEF Holds
<1>3. /\ pc'[p] = "new" => mine'[p] < KeyCount
      /\ pc'[p] # "new" => mine'[p] # 0
      /\ Holds(p)' => prop'[mine'[p]].op = p /\ prop'[mine'[p]].type # "undefined"
  <2>. USE DEF Goto, properties
  <2>1. 0 \notin Keys /\ 0 < KeyCount  BY NotificationAssumption DEF Keys
  <2>2. /\ pc[p] # "new" => mine[p] \in Keys
        /\ Holds(p) => prop[mine[p]].op = p /\ prop[mine[p]].type # "undefined"
    BY <1>1 DEF IInv, OwnKey
  <2>3. CASE AvailableKey(p)
    <3>1. mine[p] \in Nat /\ mine[p] < KeyCount
      BY <1>1, <2>3 DEF AvailableKey, IInv, OwnKey, Keys
    <3>2. /\ pc'[p] = "new" => mine'[p] < KeyCount
          /\ pc'[p] \in {"new", "picked"} /\ (pc'[p] # "new" => mine'[p] # 0)
      BY <1>1, <2>1, <2>3, <3>1, NotificationAssumption DEF AvailableKey
    <3>. QED  BY <3>2 DEF Holds
  <2>4. CASE DefineKey(p)
    BY <1>1, <2>1, <2>2, <2>4 DEF DefineKey, Holds
  <2>5. CASE SetStart(p) \/ SetEnd(p)
    BY <1>1, <2>1, <2>2, <2>5 DEF SetStart, SetEnd, SetData
  <2>6. CASE DeleteKey(p) \/ DeleteProgress(p) \/ TimerPanics(p) \/ Dies(p)
    <3>1. ~ Holds(p)' /\ pc'[p] # "new"
      BY <1>1, <2>6 DEF DeleteKey, DeleteProgress, TimerPanics, Dies, Holds, Over
    <3>2. mine'[p] = mine[p] /\ pc[p] # "new"
      BY <2>6 DEF DeleteKey, DeleteProgress, TimerPanics, Dies
    <3>. QED  BY <2>1, <2>2, <3>1, <3>2
  <2>7. CASE LookAtKey(p)
    <3>. DEFINE data == IF copy[p] = <<>> THEN NoData ELSE prop[Head(copy[p])]
    <3>1. Holds(p) /\ pc'[p] # "new"  BY <1>1, <2>7 DEF LookAtKey, Holds, Over
    <3>2. pc[p] # "new" /\ prop' = prop  BY <2>7 DEF LookAtKey
    <3>3. \/ mine'[p] = mine[p]
          \/ /\ copy[p] # <<>> /\ mine'[p] = Head(copy[p])
             /\ prop[Head(copy[p])] = [type |-> "start", op |-> p]
      BY <1>1, <2>7 DEF LookAtKey, NoData
    <3>4. copy[p] # <<>> => Head(copy[p]) \in Keys  BY <1>1
    <3>. QED  BY <2>1, <2>2, <3>1, <3>2, <3>3, <3>4
  <2>8. CASE \/ DefineProgress(p) \/ ReadList(p) \/ LookUp(p) \/ TimerReads(p)
             \/ AppendKey(p) \/ TimerRemoves(p) \/ Fault(p)
    <3>1. Holds(p) /\ pc'[p] # "new"
      BY <1>1, <2>8 DEF DefineProgress, ReadList, LookUp, TimerReads, AppendKey, TimerRemoves, Fault,
                  Holds, Over
    <3>2. pc[p] # "new" /\ prop' = prop /\ mine' = mine
      BY <2>8 DEF DefineProgress, ReadList, LookUp, TimerReads, AppendKey, TimerRemoves, Fault
    <3>. QED  BY <2>1, <2>2, <3>1, <3>2
  <2>. QED
    BY <2>3, <2>4, <2>5, <2>6, <2>7, <2>8 DEF Publish
<1>. QED  BY <1>2, <1>3 DEF OwnKey

-----------------------------------------------------------------------------
(* The invariant and the theorems.                                            *)

LEMMA IInvStep == ASSUME IInv, [Next]_vars PROVE IInv'
<1>1. ASSUME NEW p \in Publishers, Publish(p) \/ Fault(p) \/ Dies(p) PROVE IInv'
  BY <1>1, PublishType, PublishOwn DEF IInv
<1>2. CASE \/ Run \/ Announce \/ UNCHANGED vars
           \/ \E k \in Keys : Subscribe(k) \/ NotifierRun(k) \/ CancelSubscribe(k)
  <2>1. UNCHANGED <<prop, prog, list, pc, mine, copy>>
    BY <1>2 DEF Run, Announce, Subscribe, NotifierRun, CancelSubscribe, vars, properties, publisher
  <2>. QED  BY <2>1 DEF IInv, PublishedType, OwnKey, Holds
<1>. QED  BY <1>1, <1>2 DEF Next

\* The strengthening is an invariant: what the publishers keep has its type, and each
\* of them has defined the key it holds.
THEOREM Invariance == Spec => []IInv
<1>1. Init => IInv  BY InitIInv
<1>2. IInv /\ [Next]_vars => IInv'  BY IInvStep
<1>. QED  BY <1>1, <1>2, PTL DEF Spec

\* No two operations share a key and the data under it is its owner's, for any
\* installers, any number of keys, and whichever calls leave or processes die:
\* AvailableKeyL and RProperty::Define are two calls, but Define decides.
THEOREM KeysAreDisjoint == Spec => []KeysDisjoint
<1>1. IInv => KeysDisjoint
  BY DEF IInv, OwnKey, KeysDisjoint, Occupies, Holds
<1>. QED  BY <1>1, Invariance, PTL

-----------------------------------------------------------------------------
(* What the notifier removes from the keys it knows.  Kept and Removed are recursive *)
(* functions; what they do follows from the least index where they would do else.     *)

\* w[i] is what is kept of the first i keys of s.
Keeps(s, gone, w, n) ==
    /\ w \in [0 .. n -> Seq(Keys)]
    /\ w[0] = <<>>
    /\ \A i \in 1 .. n : w[i] = IF i \in gone THEN w[i - 1] ELSE Append(w[i - 1], s[i])

LEMMA KeptExists ==
    ASSUME NEW s \in Seq(Keys), NEW gone, NEW n \in 0 .. Len(s)
    PROVE  \E w : Keeps(s, gone, w, n)
<1>. DEFINE None == {m \in 0 .. Len(s) : ~ \E w : Keeps(s, gone, w, m)}
<1>. SUFFICES ASSUME None # {} PROVE FALSE  OBVIOUS
<1>1. PICK m \in None : \A k \in None : m <= k
  <2>1. None \subseteq Nat  OBVIOUS
  <2>. HIDE DEF None
  <2>. QED  BY <2>1, LeastNatural
<1>2. CASE m = 0
  <2>1. Keeps(s, gone, [i \in 0 .. 0 |-> <<>>], 0)  BY DEF Keeps
  <2>. QED  BY <1>2, <2>1
<1>3. CASE m # 0
  <2>0. m - 1 \in 0 .. Len(s) /\ m \in 1 .. Len(s) /\ m \in Nat  BY <1>3
  <2>1. m - 1 \notin None  BY <1>1, <2>0
  <2>2. PICK w : Keeps(s, gone, w, m - 1)  BY <2>0, <2>1
  <2>. DEFINE last == IF m \in gone THEN w[m - 1] ELSE Append(w[m - 1], s[m])
              v == [i \in 0 .. m |-> IF i = m THEN last ELSE w[i]]
  <2>3. last \in Seq(Keys)
    <3>1. s[m] \in Keys /\ w[m - 1] \in Seq(Keys)  BY <2>0, <2>2 DEF Keeps
    <3>. QED  BY <3>1
  <2>4. v \in [0 .. m -> Seq(Keys)]
    <3>1. \A i \in 0 .. m : i = m \/ i \in 0 .. m - 1  BY <2>0
    <3>. QED  BY <2>2, <2>3, <3>1 DEF Keeps
  <2>5. v[0] = <<>>  BY <2>0, <2>2 DEF Keeps
  <2>6. ASSUME NEW i \in 1 .. m
        PROVE  v[i] = IF i \in gone THEN v[i - 1] ELSE Append(v[i - 1], s[i])
    <3>1. i - 1 \in 0 .. m /\ i - 1 # m /\ i \in 0 .. m  BY <2>0
    <3>2. v[i - 1] = w[i - 1]  BY <3>1
    <3>3. CASE i = m  BY <3>1, <3>2, <3>3
    <3>4. CASE i # m
      <4>1. i \in 1 .. m - 1  BY <2>0, <3>4
      <4>. QED  BY <2>2, <3>1, <3>2, <3>4, <4>1 DEF Keeps
    <3>. QED  BY <3>3, <3>4
  <2>. HIDE DEF v
  <2>7. Keeps(s, gone, v, m)  BY <2>4, <2>5, <2>6 DEF Keeps
  <2>. QED  BY <2>7
<1>. QED  BY <1>2, <1>3

\* There is one such function.
LEMMA KeepsOnce ==
    ASSUME NEW s \in Seq(Keys), NEW gone, NEW v, NEW w,
           Keeps(s, gone, v, Len(s)), Keeps(s, gone, w, Len(s))
    PROVE  v = w
<1>. DEFINE Odd == {i \in 0 .. Len(s) : v[i] # w[i]}
<1>1. Odd = {}
  <2>. SUFFICES ASSUME Odd # {} PROVE FALSE  OBVIOUS
  <2>1. PICK m \in Odd : \A k \in Odd : m <= k
    <3>1. Odd \subseteq Nat  OBVIOUS
    <3>. HIDE DEF Odd
    <3>. QED  BY <3>1, LeastNatural
  <2>2. m # 0  BY DEF Keeps
  <2>3. m \in 1 .. Len(s) /\ m - 1 \in 0 .. Len(s) /\ ~(m <= m - 1)  BY <2>2
  <2>4. v[m - 1] = w[m - 1]  BY <2>1, <2>3
  <2>. QED  BY <2>3, <2>4 DEF Keeps
<1>. QED  BY <1>1 DEF Keeps

\* Kept is the end of that function.
LEMMA KeptSteps ==
    ASSUME NEW s \in Seq(Keys), NEW gone
    PROVE  \E w : Keeps(s, gone, w, Len(s)) /\ Kept(s, gone) = w[Len(s)]
<1>. DEFINE Rec(w) == w = [i \in 0 .. Len(s) |-> IF i = 0 THEN <<>>
                             ELSE IF i \in gone THEN w[i - 1] ELSE Append(w[i - 1], s[i])]
            K == CHOOSE w : Rec(w)
<1>0. Len(s) \in Nat /\ Len(s) \in 0 .. Len(s)  OBVIOUS
<1>1. PICK w : Keeps(s, gone, w, Len(s))
  <2>. HIDE DEF K
  <2>. QED  BY <1>0, KeptExists
<1>2. ASSUME NEW v, Rec(v)
      PROVE  v = w
  <2>1. DOMAIN v = 0 .. Len(s) /\ v[0] = <<>>
    <3>1. 0 \in 0 .. Len(s)  BY <1>0
    <3>. QED  BY <1>2, <3>1
  <2>2. \A i \in 1 .. Len(s) : v[i] = IF i \in gone THEN v[i - 1] ELSE Append(v[i - 1], s[i])
    <3>1. \A i \in 1 .. Len(s) : i \in 0 .. Len(s) /\ i # 0  BY <1>0
    <3>. QED  BY <1>2, <3>1
  <2>3. v = [i \in 0 .. Len(s) |-> v[i]]  BY <1>2
  <2>. HIDE DEF Rec
  <2>. DEFINE Odd == {i \in 0 .. Len(s) : v[i] # w[i]}
  <2>4. Odd = {}
    <3>. SUFFICES ASSUME Odd # {} PROVE FALSE  OBVIOUS
    <3>1. PICK m \in Odd : \A k \in Odd : m <= k
      <4>1. Odd \subseteq Nat  OBVIOUS
      <4>. HIDE DEF Odd
      <4>. QED  BY <4>1, LeastNatural
    <3>2. m # 0  BY <1>1, <2>1 DEF Keeps
    <3>3. m \in 1 .. Len(s) /\ m - 1 \in 0 .. Len(s) /\ ~(m <= m - 1)  BY <3>2
    <3>4. v[m - 1] = w[m - 1]  BY <3>1, <3>3
    <3>. QED  BY <1>1, <2>2, <3>3, <3>4 DEF Keeps
  <2>. QED  BY <1>1, <2>3, <2>4 DEF Keeps
<1>3. Rec(w)
  <2>1. ASSUME NEW i \in 0 .. Len(s)
        PROVE  w[i] = IF i = 0 THEN <<>>
                      ELSE IF i \in gone THEN w[i - 1] ELSE Append(w[i - 1], s[i])
    <3>1. i = 0 \/ i \in 1 .. Len(s)  BY <1>0
    <3>. QED  BY <1>1, <3>1 DEF Keeps
  <2>. QED  BY <1>1, <2>1 DEF Keeps
<1>. HIDE DEF Rec
<1>4. K = w  BY <1>2, <1>3
<1>5. Kept(s, gone) = K[Len(s)]  BY Zenon DEF Kept, K, Rec
<1>. QED  BY <1>1, <1>4, <1>5

-----------------------------------------------------------------------------
(* Lists of keys without duplicates, to which a key is added or of which one is taken. *)

Distinct(s) == \A i, j \in DOMAIN s : s[i] = s[j] => i = j
WithoutNth(s, n) == SubSeq(s, 1, n - 1) \o SubSeq(s, n + 1, Len(s))

LEMMA NthFacts ==
    ASSUME NEW s \in Seq(Keys), NEW n \in 1 .. Len(s)
    PROVE  /\ WithoutNth(s, n) \in Seq(Keys) /\ Len(WithoutNth(s, n)) = Len(s) - 1
           /\ \A i \in 1 .. Len(s) - 1 :
                 WithoutNth(s, n)[i] = IF i < n THEN s[i] ELSE s[i + 1]
<1>. DEFINE a == SubSeq(s, 1, n - 1)
           b == SubSeq(s, n + 1, Len(s))
<1>0. Len(s) \in Nat /\ n \in Nat /\ 1 <= n /\ n <= Len(s)  OBVIOUS
<1>1. /\ \A i \in 1 .. n - 1 : s[i] \in Keys
      /\ \A i \in n + 1 .. Len(s) : s[i] \in Keys
  BY <1>0
<1>2. /\ a \in Seq(Keys) /\ Len(a) = n - 1
      /\ \A i \in 1 .. n - 1 : a[i] = s[i]
  BY <1>0, <1>1
<1>3. /\ b \in Seq(Keys) /\ Len(b) = Len(s) - n
      /\ \A i \in 1 .. Len(s) - n : b[i] = s[i + n]
  BY <1>0, <1>1
<1>. HIDE DEF a, b
<1>4. /\ a \o b \in Seq(Keys) /\ Len(a \o b) = Len(s) - 1
  <2>1. a \o b \in Seq(Keys) /\ Len(a \o b) = Len(a) + Len(b)
    BY <1>2, <1>3, ConcatProperties
  <2>. QED  BY <1>0, <1>2, <1>3, <2>1
<1>5. ASSUME NEW i \in 1 .. Len(s) - 1 PROVE (a \o b)[i] = IF i < n THEN s[i] ELSE s[i + 1]
  <2>1. CASE i < n  BY <1>0, <1>2, <1>3, <2>1
  <2>2. CASE ~(i < n)
    <3>1. (a \o b)[i] = b[i - (n - 1)]  BY <1>0, <1>2, <1>3, <2>2
    <3>2. i - (n - 1) \in 1 .. Len(s) - n /\ (i - (n - 1)) + n = i + 1  BY <1>0, <2>2
    <3>. QED  BY <1>3, <2>2, <3>1, <3>2
  <2>. QED  BY <2>1, <2>2
<1>. QED  BY <1>4, <1>5 DEF WithoutNth, a, b

\* Without takes one key out of its place.
LEMMA WithoutIsNth ==
    ASSUME NEW s \in Seq(Keys), NEW k \in Elements(s)
    PROVE  \E n \in 1 .. Len(s) : s[n] = k /\ Without(s, k) = WithoutNth(s, n)
<1>. DEFINE places == {i \in DOMAIN s : s[i] = k}
            isFirst(i) == s[i] = k /\ \A j \in 1 .. i - 1 : s[j] # k
            first == CHOOSE i \in DOMAIN s : isFirst(i)
<1>1. places \subseteq Nat /\ places # {} /\ DOMAIN s = 1 .. Len(s) /\ Len(s) \in Nat
  BY DEF Elements
<1>2. PICK n \in places : \A m \in places : n <= m
  <2>. HIDE DEF places
  <2>. QED  BY <1>1, LeastNatural
<1>3. n \in DOMAIN s /\ isFirst(n)
  <2>1. ASSUME NEW j \in 1 .. n - 1 PROVE s[j] # k
    BY <1>1, <1>2, <2>1
  <2>. QED  BY <1>2, <2>1
<1>4. first \in DOMAIN s /\ isFirst(first)
  <2>. HIDE DEF isFirst
  <2>. QED  BY <1>3
<1>5. Without(s, k) = WithoutNth(s, first)  BY DEF Without, WithoutNth
<1>. HIDE DEF first
<1>. QED  BY <1>1, <1>4, <1>5

LEMMA NthElements ==
    ASSUME NEW s \in Seq(Keys), Distinct(s), NEW n \in 1 .. Len(s)
    PROVE  Distinct(WithoutNth(s, n)) /\ Elements(WithoutNth(s, n)) = Elements(s) \ {s[n]}
<1>. DEFINE t == WithoutNth(s, n)
<1>1. t \in Seq(Keys) /\ Len(t) = Len(s) - 1 /\ Len(s) \in Nat
      /\ \A i \in 1 .. Len(s) - 1 : t[i] = IF i < n THEN s[i] ELSE s[i + 1]
  BY NthFacts
<1>. HIDE DEF t
<1>2. DOMAIN t = 1 .. Len(s) - 1 /\ DOMAIN s = 1 .. Len(s)  BY <1>1
<1>3. Distinct(t)
  <2>1. ASSUME NEW i \in 1 .. Len(s) - 1, NEW j \in 1 .. Len(s) - 1, t[i] = t[j]
        PROVE  i = j
    <3>. DEFINE a == IF i < n THEN i ELSE i + 1
               b == IF j < n THEN j ELSE j + 1
    <3>1. a \in 1 .. Len(s) /\ b \in 1 .. Len(s) /\ s[a] = s[b]  BY <1>1, <2>1
    <3>2. a = b  BY <1>2, <3>1 DEF Distinct
    <3>. QED  BY <3>2
  <2>. QED  BY <1>2, <2>1 DEF Distinct
<1>4. ASSUME NEW i \in 1 .. Len(s) - 1 PROVE t[i] \in Elements(s) \ {s[n]}
  <2>. DEFINE a == IF i < n THEN i ELSE i + 1
  <2>1. a \in 1 .. Len(s) /\ a # n /\ t[i] = s[a]  BY <1>1
  <2>2. s[a] # s[n]  BY <1>2, <2>1 DEF Distinct
  <2>. QED  BY <1>2, <2>1, <2>2 DEF Elements
<1>5. ASSUME NEW i \in 1 .. Len(s), s[i] # s[n] PROVE s[i] \in Elements(t)
  <2>. DEFINE a == IF i < n THEN i ELSE i - 1
  <2>1. a \in 1 .. Len(s) - 1 /\ t[a] = s[i]  BY <1>1, <1>5
  <2>. QED  BY <1>2, <2>1 DEF Elements
<1>6. Elements(t) = Elements(s) \ {s[n]}
  BY <1>2, <1>4, <1>5 DEF Elements
<1>. QED  BY <1>3, <1>6 DEF t

LEMMA AppendElements ==
    ASSUME NEW s \in Seq(Keys), NEW k \in Keys
    PROVE  /\ Elements(Append(s, k)) = Elements(s) \cup {k}
           /\ Distinct(s) /\ k \notin Elements(s) => Distinct(Append(s, k))
<1>. DEFINE t == Append(s, k)
<1>1. /\ Len(s) \in Nat /\ DOMAIN s = 1 .. Len(s) /\ DOMAIN t = 1 .. Len(s) + 1
      /\ \A i \in 1 .. Len(s) : t[i] = s[i]
      /\ t[Len(s) + 1] = k
  OBVIOUS
<1>2. \A i \in DOMAIN t : i \in DOMAIN s \/ i = Len(s) + 1  BY <1>1
<1>3. Len(s) + 1 \in DOMAIN t /\ DOMAIN s \subseteq DOMAIN t  BY <1>1
<1>. HIDE DEF t
<1>4. Elements(t) = Elements(s) \cup {k}  BY <1>1, <1>2, <1>3 DEF Elements
<1>5. Distinct(s) /\ k \notin Elements(s) => Distinct(t)
  BY <1>1, <1>2 DEF Elements, Distinct
<1>. QED  BY <1>4, <1>5 DEF t

\* A list without duplicates fits into the buffer.
LEMMA DistinctFits ==
    ASSUME NEW s \in Seq(Keys), Distinct(s) PROVE Len(s) <= KeyCount
<1>1. Len(s) \in Nat /\ DOMAIN s = 1 .. Len(s) /\ KeyCount \in Nat
  BY NotificationAssumption
<1>2. s \in [1 .. Len(s) -> Keys]  BY <1>1
<1>3. s \in Injection(1 .. Len(s), Keys)  BY <1>1, <1>2 DEF Distinct, Injection, IsInjective
<1>4. /\ IsFiniteSet(Keys) /\ Cardinality(Keys) = KeyCount
      /\ Cardinality(1 .. Len(s)) = Len(s)
  <2>1. \A m \in Nat : IsFiniteSet(1 .. m) /\ Cardinality(1 .. m) = m
    <3>1. ASSUME NEW m \in Nat PROVE IsFiniteSet(1 .. m) /\ Cardinality(1 .. m) = m
      <4>1. /\ IsFiniteSet(1 .. m)
            /\ Cardinality(1 .. m) = IF 1 > m THEN 0 ELSE m - 1 + 1
        BY FS_Interval
      <4>. QED  BY <4>1
    <3>. QED  BY <3>1
  <2>. QED  BY <1>1, <2>1 DEF Keys
<1>5. Cardinality(1 .. Len(s)) <= Cardinality(Keys)
  BY <1>3, <1>4, FS_Injection
<1>. QED  BY <1>4, <1>5

\* The loop of RunL removes a single key that is not in the list any more ...
LEMMA RemovedOne ==
    ASSUME NEW s \in Seq(Keys), Distinct(s), NEW n \in 1 .. Len(s)
    PROVE  Removed(s, WithoutNth(s, n)) = {n}
<1>. DEFINE t == WithoutNth(s, n)
           Rec(w) == w = [i \in 0 .. Len(s) |-> i > 0 /\ s[i] \notin Elements(t) /\ ~w[i - 1]]
           r == [i \in 0 .. Len(s) |-> i = n]
           R == CHOOSE w : Rec(w)
<1>0. Len(s) \in Nat /\ DOMAIN s = 1 .. Len(s)  OBVIOUS
<1>1. \A i \in 1 .. Len(s) : s[i] \notin Elements(t) <=> i = n
  <2>1. Elements(t) = Elements(s) \ {s[n]}  BY NthElements
  <2>. HIDE DEF t
  <2>2. \A i \in 1 .. Len(s) : s[i] \in Elements(s) /\ (s[i] = s[n] => i = n)
    BY <1>0 DEF Elements, Distinct
  <2>. QED  BY <2>1, <2>2
<1>. HIDE DEF t
<1>2. Rec(r)
  <2>1. ASSUME NEW i \in 0 .. Len(s)
        PROVE  i = n <=> i > 0 /\ s[i] \notin Elements(t) /\ ~r[i - 1]
    <3>1. CASE i = 0  BY <1>0, <3>1
    <3>2. CASE i # 0
      <4>1. i \in 1 .. Len(s) /\ i > 0 /\ i - 1 \in 0 .. Len(s)  BY <3>2
      <4>2. r[i - 1] <=> i - 1 = n  BY <4>1
      <4>3. i = n => ~ r[i - 1]  BY <4>1, <4>2
      <4>. HIDE DEF r
      <4>. QED  BY <1>1, <4>1, <4>3
    <3>. QED  BY <3>1, <3>2
  <2>. QED  BY <2>1
<1>3. Rec(R)
  <2>. HIDE DEF Rec, r
  <2>. QED  BY <1>2
<1>. HIDE DEF R
<1>4. \A i \in 0 .. Len(s) : R[i] = (i > 0 /\ s[i] \notin Elements(t) /\ ~R[i - 1])
  BY <1>3
<1>5. \A i \in 1 .. Len(s) : i # n => ~R[i]
  <2>1. ASSUME NEW i \in 1 .. Len(s), i # n PROVE ~R[i]
    <3>1. i \in 0 .. Len(s) /\ s[i] \in Elements(t)  BY <1>1, <2>1
    <3>. QED  BY <1>4, <3>1
  <2>. QED  BY <2>1
<1>6. ~R[n - 1]
  <2>1. CASE n - 1 = 0
    <3>1. 0 \in 0 .. Len(s) /\ ~(0 > 0)  BY <1>0
    <3>2. ~R[0]  BY <1>4, <3>1
    <3>. QED  BY <2>1, <3>2
  <2>2. CASE n - 1 # 0
    <3>1. n - 1 \in 1 .. Len(s) /\ n - 1 # n  BY <2>2
    <3>. QED  BY <1>5, <3>1
  <2>. QED  BY <2>1, <2>2
<1>7. R[n]
  <2>1. n \in 0 .. Len(s) /\ n > 0 /\ s[n] \notin Elements(t)  BY <1>1
  <2>. QED  BY <1>4, <1>6, <2>1
<1>8. Removed(s, t) = {i \in DOMAIN s : R[i]}  BY Zenon DEF Removed, R, Rec
<1>. QED  BY <1>0, <1>5, <1>7, <1>8 DEF t

\* ... and what is kept is the rest.
LEMMA KeptOne ==
    ASSUME NEW s \in Seq(Keys), NEW n \in 1 .. Len(s)
    PROVE  Kept(s, {n}) = WithoutNth(s, n)
<1>0. Len(s) \in Nat /\ n \in Nat /\ n <= Len(s)  OBVIOUS
<1>1. PICK w : Keeps(s, {n}, w, Len(s)) /\ Kept(s, {n}) = w[Len(s)]  BY KeptSteps
<1>. DEFINE Like(u, i) ==
        /\ Len(u) = IF i < n THEN i ELSE i - 1
        /\ \A j \in 1 .. Len(u) : u[j] = IF j < n THEN s[j] ELSE s[j + 1]
           Odd == {i \in 0 .. Len(s) : ~Like(w[i], i)}
<1>2. Odd = {}
  <2>. SUFFICES ASSUME Odd # {} PROVE FALSE  OBVIOUS
  <2>1. PICK m \in Odd : \A k \in Odd : m <= k
    <3>1. Odd \subseteq Nat  OBVIOUS
    <3>. HIDE DEF Odd
    <3>. QED  BY <3>1, LeastNatural
  <2>2. m # 0
    <3>1. w[0] = <<>> /\ Len(<<>>) = 0 /\ 0 < n  BY <1>1 DEF Keeps
    <3>. QED  BY <3>1
  <2>3. m \in 1 .. Len(s) /\ m - 1 \in 0 .. Len(s) /\ ~(m <= m - 1)  BY <2>2
  <2>4. Like(w[m - 1], m - 1)
    <3>. HIDE DEF Like
    <3>. QED  BY <2>1, <2>3
  <2>5. w[m - 1] \in Seq(Keys) /\ s[m] \in Keys
    <3>1. s[m] \in Keys  BY <2>3, ElementOfSeq
    <3>2. w \in [0 .. Len(s) -> Seq(Keys)]  BY <1>1 DEF Keeps
    <3>. QED  BY <2>3, <3>1, <3>2
  <2>6. CASE m = n
    <3>1. w[m] = w[m - 1]  BY <1>1, <2>3, <2>6 DEF Keeps
    <3>. QED  BY <2>3, <2>4, <2>6, <3>1
  <2>7. CASE m # n
    <3>1. w[m] = Append(w[m - 1], s[m])  BY <1>1, <2>3, <2>7 DEF Keeps
    <3>. DEFINE u == w[m - 1]
               v == Append(u, s[m])
    <3>2. /\ Len(v) = Len(u) + 1 /\ Len(u) \in Nat /\ v[Len(u) + 1] = s[m]
          /\ \A j \in 1 .. Len(u) : v[j] = u[j]
      BY <2>5
    <3>3. Like(u, m - 1)  BY <2>4
    <3>. HIDE DEF u, v
    <3>4. Len(v) = IF m < n THEN m ELSE m - 1  BY <2>3, <2>7, <3>2, <3>3
    <3>5. ASSUME NEW j \in 1 .. Len(v) PROVE v[j] = IF j < n THEN s[j] ELSE s[j + 1]
      <4>1. CASE j \in 1 .. Len(u)  BY <3>2, <3>3, <4>1
      <4>2. CASE j \notin 1 .. Len(u)
        <5>1. j = Len(u) + 1
          <6>1. j \in Nat /\ j <= Len(u) + 1 /\ 1 <= j  BY <3>2
          <6>. QED  BY <3>2, <4>2, <6>1
        <5>2. v[j] = s[m]  BY <3>2, <5>1
        <5>3. Len(u) = IF m - 1 < n THEN m - 1 ELSE (m - 1) - 1  BY <3>3
        <5>4. IF j < n THEN j = m ELSE j + 1 = m  BY <2>3, <2>7, <5>1, <5>3
        <5>. QED  BY <5>2, <5>4
      <4>. QED  BY <4>1, <4>2
    <3>. QED  BY <3>1, <3>4, <3>5 DEF u, v
  <2>. QED  BY <2>6, <2>7
<1>3. Like(w[Len(s)], Len(s)) /\ w[Len(s)] \in Seq(Keys)
  <2>1. Len(s) \in 0 .. Len(s)  BY <1>0
  <2>. QED  BY <1>1, <1>2, <2>1 DEF Keeps
<1>. DEFINE k == w[Len(s)]
           t == WithoutNth(s, n)
<1>4. /\ t \in Seq(Keys) /\ Len(t) = Len(s) - 1
      /\ \A i \in 1 .. Len(s) - 1 : t[i] = IF i < n THEN s[i] ELSE s[i + 1]
  BY NthFacts
<1>5. k \in Seq(Keys) /\ Like(k, Len(s))  BY <1>3
<1>. HIDE DEF k, t
<1>6. Len(k) = Len(t) /\ \A i \in 1 .. Len(t) : k[i] = t[i]  BY <1>0, <1>4, <1>5
<1>7. k = t  BY <1>4, <1>5, <1>6, SeqEqual
<1>. QED  BY <1>1, <1>7 DEF k, t

-----------------------------------------------------------------------------
(* The list of the publishers, and what the notifier has seen of it.                  *)

\* The rest of TypeOK.
NotifierType ==
    /\ known \in Seq(Keys)
    /\ todo \in Seq(Keys)
    /\ state \in {"first", "greeting", "idle", "adding"}
    /\ dirty \in BOOLEAN
    /\ watch \in [Keys -> {"none", "told", "waiting", "set", "deleted", "dead"}]
    /\ started \in [Publishers -> 0 .. 2]
    /\ ended \subseteq Publishers
    /\ quiet \subseteq Publishers
    /\ disturbed \in BOOLEAN
    /\ behind \in BOOLEAN

\* The operation under a key is the one of the publisher that uses it.
Owned ==
    /\ \A k \in Keys, p \in Publishers :
          prop[k].op = p => mine[p] = k /\ pc[p] \notin {"new", "picked", "deleted", "gone"}
    /\ \A p \in Publishers :
          pc[p] \in {"set", "progress", "copied"} => prop[mine[p]].type = "start"
    /\ \A k \in Keys : prop[k].type \in {"start", "end"} => prop[k].op # Nobody

Early  == {"new", "picked", "defined", "set", "progress", "copied"}
InList == {"running", "looking", "found", "ended", "due", "abandoned", "cut"}

\* The list has no duplicates, and holds the keys of operations that have been listed
\* and of those that still are.
ListRight ==
    ~disturbed =>
        /\ Distinct(list)
        /\ \A k \in Elements(list) : /\ prop[k].type \in {"start", "end"}
                                     /\ prop[k].op \in Publishers
                                     /\ pc[prop[k].op] \in InList
        /\ \A p \in Publishers : Listed(p) => mine[p] \in Elements(list)

\* The list as the notifier has seen it: the keys it knows and those it has to look at.
Seen == IF state = "adding" THEN known \o todo ELSE known

OneChange(s, t) ==
    \/ \E k \in Keys \ Elements(s) : t = Append(s, k)
    \/ \E n \in 1 .. Len(s) : t = WithoutNth(s, n)

Follows(seen, rest, keys) ==
    /\ Elements(rest) \subseteq Elements(keys) /\ Distinct(rest)
    /\ Distinct(seen) /\ Elements(rest) \subseteq Elements(seen)

\* One that keeps up is one change behind, at most.
SeenRight ==
    ~disturbed /\ ~behind =>
        /\ state = "first" => dirty
        /\ Follows(Seen, todo, list)
        /\ state # "first" => IF dirty THEN OneChange(Seen, list) ELSE Seen = list

ToldOf(k) == state # "first" /\ k \notin Elements(todo) /\ k \in Elements(Seen)

\* It has told of the operations it has seen and looked at, once.
StartedRight ==
    ~disturbed /\ ~behind =>
        /\ \A p \in Publishers : pc[p] \in Early => started[p] = 0
        /\ \A k \in Elements(list) : prop[k].type = "start" =>
              started[prop[k].op] = IF ToldOf(k) THEN 1 ELSE 0

\* It has keys to look at while it is in its loop.
Looks == todo = <<>> <=> state \in {"first", "idle"}

JInv == IInv /\ NotifierType /\ Looks /\ Owned /\ ListRight /\ SeenRight /\ StartedRight

-----------------------------------------------------------------------------
(* Steps of publishers.                                                       *)

LEMMA PublishNotifierType ==
    ASSUME IInv, NotifierType, NEW p \in Publishers, Publish(p) \/ Fault(p) \/ Dies(p)
    PROVE  NotifierType'
<1>. USE DEF NotifierType, notifier
<1>1. ASSUME NEW k, NEW how \in {"set", "deleted"}, Completes(k, how)
      PROVE  watch' \in [Keys -> {"none", "told", "waiting", "set", "deleted", "dead"}]
  BY <1>1 DEF Completes
<1>2. CASE SetStart(p) \/ SetEnd(p)
  BY <1>1, <1>2 DEF SetStart, SetEnd, SetData
<1>3. CASE DeleteKey(p)
  BY <1>1, <1>3 DEF DeleteKey
<1>4. CASE AppendKey(p) \/ TimerRemoves(p)
  BY <1>4 DEF AppendKey, TimerRemoves, SetList
<1>5. CASE \/ AvailableKey(p) \/ DefineKey(p) \/ DefineProgress(p) \/ ReadList(p)
           \/ LookUp(p) \/ LookAtKey(p) \/ TimerReads(p) \/ TimerPanics(p)
           \/ DeleteProgress(p) \/ Fault(p) \/ Dies(p)
  BY <1>5 DEF AvailableKey, DefineKey, DefineProgress, ReadList, LookUp, LookAtKey,
              TimerReads, TimerPanics, DeleteProgress, Fault, Dies
<1>. QED  BY <1>2, <1>3, <1>4, <1>5 DEF Publish

\* What a publisher's step changes of its own: where it is, what it is called and what
\* the data under its key says.
LEMMA PublishMoves ==
    ASSUME IInv, Owned, NEW p \in Publishers, Publish(p) \/ Fault(p) \/ Dies(p)
    PROVE  /\ disturbed => disturbed'
           /\ UNCHANGED <<known, todo, state, started>>
           /\ pc'[p] \in Early => pc[p] \in Early
           /\ ~ (AppendKey(p) \/ TimerRemoves(p)) =>
                 /\ UNCHANGED <<list, dirty, behind>>
                 /\ Listed(p)' => Listed(p)
                 /\ pc[p] \in InList /\ ~disturbed' => pc'[p] \in InList
           /\ Listed(p)' => mine'[p] = mine[p]
           /\ \A k \in Keys : prop'[k] # prop[k] =>
                 \/ prop'[k] = [type |-> "blank", op |-> p]
                    /\ k = mine[p] /\ pc[p] = "picked" /\ mine' = mine /\ pc'[p] = "defined"
                 \/ prop'[k] = [type |-> "start", op |-> p]
                    /\ k = mine[p] /\ pc[p] = "defined" /\ mine' = mine /\ pc'[p] = "set"
                 \/ prop'[k] = [type |-> "end", op |-> p]
                    /\ k = mine[p] /\ pc[p] = "found" /\ mine' = mine /\ pc'[p] = "ended"
                 \/ prop'[k] = NoData
                    /\ k = mine[p] /\ pc[p] \in {"removed", "failed"} /\ mine' = mine
                    /\ pc'[p] = "deleted"
           /\ pc'[p] \in {"deleted"} =>
                 pc[p] \in {"removed", "failed"} /\ prop'[mine[p]] = NoData
           /\ pc'[p] \in {"new", "picked", "gone"} => pc[p] \in {"new", "picked", "deleted"}
           /\ pc'[p] \in {"set"} => prop'[mine[p]].type = "start" /\ mine' = mine
           /\ pc'[p] \in {"progress", "copied"} =>
                 pc[p] \in {"set", "progress"} /\ mine' = mine /\ prop' = prop
           /\ pc[p] \notin {"new", "picked"} => mine'[p] = mine[p]
<1>. USE DEF Goto, properties, notifier, Early, InList, Listed, Runs, Holds, Over
<1>1. /\ prop \in [Keys -> Data] /\ pc \in [Publishers -> PublisherState]
      /\ mine \in [Publishers -> Keys \cup {0}] /\ copy \in [Publishers -> Seq(Keys)]
      /\ pc[p] # "new" => mine[p] \in Keys
  BY DEF IInv, PublishedType, Data, OwnKey
<1>2. CASE AvailableKey(p)
  BY <1>1, <1>2 DEF AvailableKey
<1>3. CASE DefineKey(p)
  BY <1>1, <1>3 DEF DefineKey
<1>4. CASE SetStart(p)
  BY <1>1, <1>4 DEF SetStart, SetData
<1>5. CASE DefineProgress(p)
  BY <1>1, <1>5 DEF DefineProgress
<1>6. CASE ReadList(p)
  BY <1>1, <1>6 DEF ReadList
<1>7. CASE AppendKey(p)
  BY <1>1, <1>7 DEF AppendKey, SetList
<1>8. CASE LookUp(p)
  BY <1>1, <1>8 DEF LookUp
<1>9. CASE LookAtKey(p)
  <2>. DEFINE data == IF copy[p] = <<>> THEN NoData ELSE prop[Head(copy[p])]
  <2>1. mine'[p] = mine[p]
    <3>1. \/ mine'[p] = mine[p]
          \/ /\ copy[p] # <<>> /\ mine'[p] = Head(copy[p])
             /\ prop[Head(copy[p])] = [type |-> "start", op |-> p]
      BY <1>1, <1>9 DEF LookAtKey, NoData
    <3>2. copy[p] # <<>> => Head(copy[p]) \in Keys  BY <1>1
    <3>. QED  BY <3>1, <3>2 DEF Owned
  <2>2. pc[p] = "looking" /\ pc'[p] \in {"running", "found", "looking"} /\ prop' = prop
        /\ UNCHANGED <<disturbed, list, dirty, behind, known, todo, state, started>>
    BY <1>1, <1>9 DEF LookAtKey
  <2>. QED  BY <2>1, <2>2
<1>10. CASE SetEnd(p)
  BY <1>1, <1>10 DEF SetEnd, SetData
<1>11. CASE TimerReads(p)
  BY <1>1, <1>11 DEF TimerReads
<1>12. CASE TimerRemoves(p)
  BY <1>1, <1>12 DEF TimerRemoves, SetList
<1>13. CASE TimerPanics(p)
  BY <1>1, <1>13 DEF TimerPanics
<1>14. CASE DeleteKey(p)
  BY <1>1, <1>14 DEF DeleteKey
<1>15. CASE DeleteProgress(p)
  BY <1>1, <1>15 DEF DeleteProgress
<1>16. CASE Fault(p)
  BY <1>1, <1>16 DEF Fault
<1>17. CASE Dies(p)
  BY <1>1, <1>17 DEF Dies
<1>. QED
  BY <1>2, <1>3, <1>4, <1>5, <1>6, <1>7, <1>8, <1>9, <1>10, <1>11, <1>12, <1>13, <1>14, <1>15,
     <1>16, <1>17 DEF Publish

LEMMA OwnedStep ==
    ASSUME IInv, Owned, NEW p \in Publishers, Publish(p) \/ Fault(p) \/ Dies(p)
    PROVE  Owned'
<1>1. /\ prop \in [Keys -> Data] /\ pc \in [Publishers -> PublisherState]
      /\ mine \in [Publishers -> Keys \cup {0}] /\ Nobody \notin Publishers
      /\ \A q \in Publishers : pc[q] # "new" => mine[q] \in Keys
  BY NotificationAssumption DEF IInv, PublishedType, Data, OwnKey
<1>2. \A q \in Publishers \ {p} : pc'[q] = pc[q] /\ mine'[q] = mine[q]  BY PublishFrame
<1>3. ASSUME NEW k \in Keys, NEW q \in Publishers, prop'[k].op = q
      PROVE  mine'[q] = k /\ pc'[q] \notin {"new", "picked", "deleted", "gone"}
  <2>1. CASE prop'[k] = prop[k]
    <3>1. mine[q] = k /\ pc[q] \notin {"new", "picked", "deleted", "gone"}
      BY <1>3, <2>1 DEF Owned
    <3>2. CASE q # p  BY <1>2, <3>1, <3>2
    <3>3. CASE q = p
      <4>1. pc'[p] \notin {"new", "picked", "gone"} /\ mine'[p] = mine[p]
        BY <3>1, <3>3, PublishMoves
      <4>2. pc'[p] # "deleted"
        <5>. SUFFICES ASSUME pc'[p] = "deleted" PROVE FALSE  OBVIOUS
        <5>1. prop'[k] = NoData  BY <3>1, <3>3, PublishMoves
        <5>. QED  BY <1>1, <1>3, <5>1 DEF NoData
      <4>. QED  BY <3>1, <3>3, <4>1, <4>2
    <3>. QED  BY <3>2, <3>3
  <2>2. CASE prop'[k] # prop[k]
    <3>1. \/ prop'[k] = [type |-> "blank", op |-> p]
             /\ k = mine[p] /\ mine' = mine /\ pc'[p] = "defined"
          \/ prop'[k] = [type |-> "start", op |-> p]
             /\ k = mine[p] /\ mine' = mine /\ pc'[p] = "set"
          \/ prop'[k] = [type |-> "end", op |-> p]
             /\ k = mine[p] /\ mine' = mine /\ pc'[p] = "ended"
          \/ prop'[k] = NoData
      BY <2>2, PublishMoves
    <3>2. prop'[k] # NoData  BY <1>1, <1>3 DEF NoData
    <3>3. prop'[k].op = p /\ k = mine[p] /\ mine' = mine
          /\ pc'[p] \in {"defined", "set", "ended"}
      BY <3>1, <3>2
    <3>4. q = p  BY <1>3, <3>3
    <3>. QED  BY <3>3, <3>4
  <2>. QED  BY <2>1, <2>2
<1>4. ASSUME NEW q \in Publishers, pc'[q] \in {"set", "progress", "copied"}
      PROVE  prop'[mine'[q]].type = "start"
  <2>1. CASE q = p
    <3>1. CASE pc'[p] = "set"  BY <2>1, <3>1, PublishMoves
    <3>2. CASE pc'[p] \in {"progress", "copied"}
      <4>1. pc[p] \in {"set", "progress"} /\ mine' = mine /\ prop' = prop
        BY <3>2, PublishMoves
      <4>. QED  BY <2>1, <4>1 DEF Owned
    <3>. QED  BY <1>4, <2>1, <3>1, <3>2
  <2>2. CASE q # p
    <3>1. pc[q] \in {"set", "progress", "copied"} /\ mine'[q] = mine[q]
      BY <1>2, <1>4, <2>2
    <3>2. mine[q] \in Keys /\ prop[mine[q]].op = q
      BY <1>1, <3>1 DEF IInv, OwnKey, Holds, Over
    <3>3. ~ (mine[q] = mine[p] /\ Holds(p)) /\ prop[mine[q]].type = "start"
      BY <2>2, <3>1, <3>2 DEF IInv, OwnKey, Owned
    <3>4. prop'[mine[q]] = prop[mine[q]]  BY <3>2, <3>3, PublishFrame
    <3>. QED  BY <3>1, <3>3, <3>4
  <2>. QED  BY <2>1, <2>2
<1>5. ASSUME NEW k \in Keys, prop'[k].type \in {"start", "end"} PROVE prop'[k].op # Nobody
  <2>1. CASE prop'[k] = prop[k]  BY <1>5, <2>1 DEF Owned
  <2>2. CASE prop'[k] # prop[k]
    <3>1. \/ prop'[k] = [type |-> "blank", op |-> p]
          \/ prop'[k] = [type |-> "start", op |-> p]
          \/ prop'[k] = [type |-> "end", op |-> p]
          \/ prop'[k] = NoData
      BY <2>2, PublishMoves
    <3>. QED  BY <1>1, <1>5, <3>1 DEF NoData
  <2>. QED  BY <2>1, <2>2
<1>. QED  BY <1>3, <1>4, <1>5 DEF Owned

\* A key of the list keeps its start data unless its publisher ends the operation; and
\* a publisher that comes to the list is not in it.
LEMMA ListedData ==
    ASSUME IInv, Owned, ListRight, ~disturbed, NEW p \in Publishers,
           Publish(p) \/ Fault(p) \/ Dies(p)
    PROVE  /\ \A k \in Elements(list) :
                 \/ prop'[k] = prop[k]
                 \/ prop'[k] = [type |-> "end", op |-> p] /\ prop[k].op = p
           /\ Holds(p) /\ pc[p] \notin InList => mine[p] \notin Elements(list)
           /\ \A q \in Publishers : Listed(q) => mine[q] \in Elements(list)
           /\ Elements(list) \subseteq Keys
<1>1. Elements(list) \subseteq Keys
  <2>1. list \in Seq(Keys)  BY DEF IInv, PublishedType
  <2>. QED  BY <2>1 DEF Elements
<1>2. Holds(p) => prop[mine[p]].op = p /\ mine[p] # 0  BY DEF IInv, OwnKey, Holds
<1>3. Holds(p) /\ pc[p] \notin InList => mine[p] \notin Elements(list)
  BY <1>2 DEF ListRight
<1>4. ASSUME NEW k \in Elements(list), prop'[k] # prop[k]
      PROVE  prop'[k] = [type |-> "end", op |-> p] /\ prop[k].op = p
  <2>1. pc[p] = "picked" => prop[k].op # p
    BY <1>1, <1>4 DEF Owned
  <2>2. pc[p] = "picked" /\ k = mine[p] => prop[k].type = "undefined"
    BY <1>1, <1>4, PublishFrame DEF Holds
  <2>3. pc[p] \in {"defined", "removed", "failed"} /\ k = mine[p] => FALSE
    BY <1>3, <1>4 DEF Holds, InList, Over
  <2>4. pc[p] = "picked" /\ k = mine[p] => FALSE  BY <1>4, <2>2 DEF ListRight
  <2>5. prop'[k] = [type |-> "end", op |-> p] /\ k = mine[p] /\ pc[p] = "found"
    BY <1>1, <1>4, <2>3, <2>4, PublishMoves
  <2>6. prop[k].op = p  BY <1>2, <2>5 DEF Holds, Over
  <2>. QED  BY <2>5, <2>6
<1>5. \A k \in Elements(list) :
         \/ prop'[k] = prop[k]
         \/ prop'[k] = [type |-> "end", op |-> p] /\ prop[k].op = p
  BY <1>4
<1>6. \A q \in Publishers : Listed(q) => mine[q] \in Elements(list)  BY DEF ListRight
<1>. QED  BY <1>1, <1>3, <1>5, <1>6

\* What the two steps do that write the list.
LEMMA ListWritten ==
    ASSUME IInv, Owned, ListRight, ~disturbed', NEW p \in Publishers,
           AppendKey(p) \/ TimerRemoves(p)
    PROVE  /\ ~disturbed /\ list \in Seq(Keys) /\ mine[p] \in Keys
           /\ UNCHANGED <<prop, mine, known, todo, state, started>> /\ dirty' = TRUE
           /\ ~behind' => /\ ~behind /\ mine[p] \notin Elements(todo)
                          /\ state # "first" => ~dirty
           /\ AppendKey(p) =>
                 /\ mine[p] \notin Elements(list) /\ list' = Append(list, mine[p])
                 /\ pc[p] = "copied" /\ pc'[p] = "running"
           /\ TimerRemoves(p) =>
                 /\ mine[p] \in Elements(list) /\ pc[p] = "due" /\ pc'[p] = "removed"
                 /\ \E n \in 1 .. Len(list) : list[n] = mine[p] /\ list' = WithoutNth(list, n)
<1>. USE DEF Goto
<1>1. /\ list \in Seq(Keys) /\ pc \in [Publishers -> PublisherState]
      /\ pc[p] # "new" => mine[p] \in Keys
  BY DEF IInv, PublishedType, OwnKey
<1>2. /\ disturbed' = (disturbed \/ list # copy[p]) /\ dirty' = TRUE
      /\ behind' = (behind \/ Late(mine[p]))
      /\ UNCHANGED <<prop, mine, known, todo, state, started>>
      /\ pc[p] # "new"
  BY DEF AppendKey, TimerRemoves, SetList
<1>3. ~disturbed /\ list = copy[p]  BY <1>2
<1>4. ~behind' => /\ ~behind /\ mine[p] \notin Elements(todo) /\ (state # "first" => ~dirty)
  BY <1>2 DEF Late
<1>5. CASE AppendKey(p)
  <2>1. pc[p] = "copied" /\ pc'[p] = "running" /\ list' = Append(list, mine[p])
    BY <1>1, <1>3, <1>5 DEF AppendKey, SetList
  <2>2. mine[p] \notin Elements(list)
    <3>1. Holds(p) /\ pc[p] \notin InList  BY <2>1 DEF Holds, InList, Over
    <3>. QED  BY <1>3, <1>5, <3>1, ListedData DEF Publish
  <2>3. ~TimerRemoves(p)  BY <2>1 DEF TimerRemoves
  <2>. QED  BY <1>1, <1>2, <1>3, <1>4, <2>1, <2>2, <2>3
<1>6. CASE TimerRemoves(p)
  <2>1. /\ pc[p] = "due" /\ pc'[p] = "removed" /\ mine[p] \in Elements(list)
        /\ list' = Without(list, mine[p])
    BY <1>1, <1>3, <1>6 DEF TimerRemoves, SetList
  <2>2. \E n \in 1 .. Len(list) : list[n] = mine[p] /\ list' = WithoutNth(list, n)
    BY <1>1, <2>1, WithoutIsNth
  <2>3. ~AppendKey(p)  BY <2>1 DEF AppendKey
  <2>. QED  BY <1>1, <1>2, <1>3, <1>4, <2>1, <2>2, <2>3
<1>. QED  BY <1>5, <1>6

LEMMA ListRightStep ==
    ASSUME IInv, Owned, ListRight, NEW p \in Publishers, Publish(p) \/ Fault(p) \/ Dies(p)
    PROVE  ListRight'
<1>. SUFFICES ASSUME ~disturbed'
              PROVE  /\ Distinct(list')
                     /\ \A k \in Elements(list') : /\ prop'[k].type \in {"start", "end"}
                                                   /\ prop'[k].op \in Publishers
                                                   /\ pc'[prop'[k].op] \in InList
                     /\ \A q \in Publishers : Listed(q)' => mine'[q] \in Elements(list')
  BY DEF ListRight, Distinct, Elements
<1>1. /\ ~disturbed /\ Distinct(list)
      /\ \A k \in Elements(list) : /\ prop[k].type \in {"start", "end"}
                                   /\ prop[k].op \in Publishers
                                   /\ pc[prop[k].op] \in InList
      /\ \A q \in Publishers : Listed(q) => mine[q] \in Elements(list)
  BY PublishMoves DEF ListRight
<1>2. \A q \in Publishers \ {p} : pc'[q] = pc[q] /\ mine'[q] = mine[q] /\ (Listed(q)' <=> Listed(q))
  BY PublishFrame DEF Listed, Runs
<1>3. CASE ~ (AppendKey(p) \/ TimerRemoves(p))
  <2>1. /\ list' = list /\ (pc[p] \in InList => pc'[p] \in InList)
        /\ Listed(p)' => Listed(p) /\ mine'[p] = mine[p]
    BY <1>3, PublishMoves
  <2>2. ASSUME NEW k \in Elements(list)
        PROVE  /\ prop'[k].type \in {"start", "end"} /\ prop'[k].op = prop[k].op
               /\ pc'[prop[k].op] \in InList
    <3>1. \/ prop'[k] = prop[k]
          \/ prop'[k] = [type |-> "end", op |-> p] /\ prop[k].op = p
      BY <1>1, ListedData
    <3>2. prop'[k].type \in {"start", "end"} /\ prop'[k].op = prop[k].op  BY <1>1, <3>1
    <3>3. pc'[prop[k].op] \in InList  BY <1>1, <1>2, <2>1
    <3>. QED  BY <3>2, <3>3
  <2>3. \A q \in Publishers : Listed(q)' => mine'[q] \in Elements(list)
    BY <1>1, <1>2, <2>1
  <2>. QED  BY <1>1, <2>1, <2>2, <2>3
<1>4. CASE AppendKey(p)
  <2>1. /\ mine[p] \notin Elements(list) /\ list' = Append(list, mine[p])
        /\ pc[p] = "copied" /\ pc'[p] = "running"
        /\ list \in Seq(Keys) /\ mine[p] \in Keys /\ prop' = prop /\ mine' = mine
    BY <1>4, ListWritten
  <2>2. Elements(list') = Elements(list) \cup {mine[p]} /\ Distinct(list')
    BY <1>1, <2>1, AppendElements
  <2>3. prop[mine[p]] .op = p /\ prop[mine[p]].type = "start"
    BY <2>1 DEF IInv, OwnKey, Owned, Holds, Over
  <2>4. ASSUME NEW k \in Elements(list)
        PROVE  pc'[prop[k].op] \in InList
    <3>1. prop[k].op # p  BY <1>1, <2>1 DEF InList
    <3>. QED  BY <1>1, <1>2, <3>1
  <2>5. \A k \in Elements(list') : /\ prop'[k].type \in {"start", "end"}
                                   /\ prop'[k].op \in Publishers
                                   /\ pc'[prop'[k].op] \in InList
    BY <1>1, <2>1, <2>2, <2>3, <2>4 DEF InList
  <2>6. \A q \in Publishers : Listed(q)' => mine'[q] \in Elements(list')
    BY <1>1, <1>2, <2>1, <2>2
  <2>. QED  BY <2>2, <2>5, <2>6
<1>5. CASE TimerRemoves(p)
  <2>1. /\ mine[p] \in Elements(list) /\ pc[p] = "due" /\ pc'[p] = "removed"
        /\ list \in Seq(Keys) /\ mine[p] \in Keys /\ prop' = prop /\ mine' = mine
        /\ \E n \in 1 .. Len(list) : list[n] = mine[p] /\ list' = WithoutNth(list, n)
    BY <1>5, ListWritten
  <2>2. Elements(list') = Elements(list) \ {mine[p]} /\ Distinct(list')
    BY <1>1, <2>1, NthElements
  <2>3. ASSUME NEW k \in Elements(list') PROVE prop[k].op # p
    <3>1. k \in Keys  BY <1>1, <2>2, ListedData
    <3>. QED  BY <2>2, <3>1 DEF Owned
  <2>4. \A k \in Elements(list') : /\ prop'[k].type \in {"start", "end"}
                                   /\ prop'[k].op \in Publishers
                                   /\ pc'[prop'[k].op] \in InList
    BY <1>1, <1>2, <2>1, <2>2, <2>3
  <2>5. ASSUME NEW q \in Publishers, Listed(q)' PROVE mine'[q] \in Elements(list')
    <3>1. q # p  BY <2>1, <2>5 DEF Listed, Runs
    <3>2. Listed(q) /\ mine[q] \in Elements(list)  BY <1>1, <1>2, <2>5, <3>1
    <3>3. mine[q] # mine[p]
      BY <2>1, <3>1, <3>2 DEF IInv, OwnKey, Holds, Listed, Runs, Over
    <3>. QED  BY <2>1, <2>2, <3>2, <3>3
  <2>. QED  BY <2>2, <2>4, <2>5
<1>. QED  BY <1>3, <1>4, <1>5

LEMMA SeenPublishStep ==
    ASSUME IInv, NotifierType, Owned, ListRight, SeenRight, StartedRight,
           NEW p \in Publishers, Publish(p) \/ Fault(p) \/ Dies(p)
    PROVE  SeenRight' /\ StartedRight'
<1>. SUFFICES ASSUME ~disturbed', ~behind' PROVE SeenRight' /\ StartedRight'
  BY DEF SeenRight, StartedRight
<1>1. UNCHANGED <<known, todo, state, started>> /\ Seen' = Seen
  BY PublishMoves DEF Seen
<1>2. ~disturbed /\ ~behind
  BY PublishMoves, ListWritten
<1>3. /\ state = "first" => dirty
      /\ Follows(Seen, todo, list)
      /\ state # "first" => IF dirty THEN OneChange(Seen, list) ELSE Seen = list
  BY <1>2 DEF SeenRight
<1>4. /\ \A q \in Publishers : pc[q] \in Early => started[q] = 0
      /\ \A k \in Elements(list) : prop[k].type = "start" =>
            started[prop[k].op] = IF ToldOf(k) THEN 1 ELSE 0
  BY <1>2 DEF StartedRight
<1>5. \A k : ToldOf(k)' <=> ToldOf(k)  BY <1>1 DEF ToldOf, Elements
<1>6. \A q \in Publishers : pc'[q] \in Early => started'[q] = 0
  <2>1. pc'[p] \in Early => pc[p] \in Early  BY PublishMoves
  <2>2. \A q \in Publishers \ {p} : pc'[q] = pc[q]  BY PublishFrame
  <2>. QED  BY <1>1, <1>4, <2>1, <2>2
<1>7. \A k \in Elements(list) : prop'[k].type = "start" =>
         started'[prop'[k].op] = IF ToldOf(k)' THEN 1 ELSE 0
  <2>1. ASSUME NEW k \in Elements(list), prop'[k].type = "start"
        PROVE  started'[prop'[k].op] = IF ToldOf(k)' THEN 1 ELSE 0
    <3>1. \/ prop'[k] = prop[k]
          \/ prop'[k] = [type |-> "end", op |-> p]
      BY <1>2, ListedData
    <3>2. prop'[k] = prop[k]  BY <2>1, <3>1
    <3>. QED  BY <1>1, <1>4, <1>5, <2>1, <3>2
  <2>. QED  BY <2>1
<1>8. CASE ~ (AppendKey(p) \/ TimerRemoves(p))
  <2>1. UNCHANGED <<list, dirty, behind>>  BY <1>8, PublishMoves
  <2>2. SeenRight'
    <3>1. Follows(Seen, todo, list)' /\ (OneChange(Seen, list)' <=> OneChange(Seen, list))
      BY <1>1, <1>3, <2>1
    <3>. QED  BY <1>1, <1>3, <2>1, <3>1 DEF SeenRight
  <2>3. StartedRight'  BY <1>6, <1>7, <2>1 DEF StartedRight, Elements
  <2>. QED  BY <2>2, <2>3
<1>9. CASE AppendKey(p) \/ TimerRemoves(p)
  <2>1. /\ list \in Seq(Keys) /\ mine[p] \in Keys /\ prop' = prop /\ mine' = mine
        /\ dirty' = TRUE /\ mine[p] \notin Elements(todo)
        /\ state # "first" => Seen = list
        /\ Distinct(list)
    BY <1>2, <1>3, <1>9, ListWritten DEF ListRight
  <2>2. CASE AppendKey(p)
    <3>1. mine[p] \notin Elements(list) /\ list' = Append(list, mine[p]) /\ pc[p] = "copied"
      BY <2>2, ListWritten
    <3>2. Elements(list') = Elements(list) \cup {mine[p]}  BY <2>1, <3>1, AppendElements
    <3>3. state # "first" => OneChange(Seen, list')
      BY <2>1, <3>1 DEF OneChange
    <3>4. SeenRight'
      <4>1. Follows(Seen, todo, list')  BY <1>3, <3>2 DEF Follows
      <4>2. Follows(Seen, todo, list)' /\ (state # "first" => OneChange(Seen, list)')
        BY <1>1, <3>3, <4>1
      <4>. QED  BY <1>1, <1>3, <2>1, <4>2 DEF SeenRight
    <3>5. started'[p] = 0 /\ ~ToldOf(mine[p])' /\ prop[mine[p]].op = p
      <4>1. started'[p] = 0  BY <1>1, <1>4, <3>1 DEF Early
      <4>2. ~ToldOf(mine[p])  BY <2>1, <3>1 DEF ToldOf
      <4>3. prop[mine[p]].op = p  BY <3>1 DEF IInv, OwnKey, Holds, Over
      <4>4. ~ToldOf(mine[p])'  BY <1>1, <2>1, <4>2 DEF ToldOf
      <4>. QED  BY <4>1, <4>3, <4>4
    <3>6. StartedRight'
      <4>1. \A k \in Elements(list)' : prop'[k].type = "start" =>
               started'[prop'[k].op] = IF ToldOf(k)' THEN 1 ELSE 0
        BY <1>7, <2>1, <3>2, <3>5 DEF Elements
      <4>. QED  BY <1>6, <4>1 DEF StartedRight
    <3>. QED  BY <3>4, <3>6
  <2>3. CASE TimerRemoves(p)
    <3>1. PICK n \in 1 .. Len(list) : list[n] = mine[p] /\ list' = WithoutNth(list, n)
      BY <2>3, ListWritten
    <3>2. Elements(list') = Elements(list) \ {mine[p]}  BY <2>1, <3>1, NthElements
    <3>3. state # "first" => OneChange(Seen, list')
      BY <2>1, <3>1 DEF OneChange
    <3>4. SeenRight'
      <4>1. Follows(Seen, todo, list')  BY <1>3, <2>1, <3>2 DEF Follows
      <4>2. Follows(Seen, todo, list)' /\ (state # "first" => OneChange(Seen, list)')
        BY <1>1, <3>3, <4>1
      <4>. QED  BY <1>1, <1>3, <2>1, <4>2 DEF SeenRight
    <3>5. StartedRight'
      <4>1. \A k \in Elements(list)' : prop'[k].type = "start" =>
               started'[prop'[k].op] = IF ToldOf(k)' THEN 1 ELSE 0
        BY <1>7, <2>1, <3>2 DEF Elements
      <4>. QED  BY <1>6, <4>1 DEF StartedRight
    <3>. QED  BY <3>4, <3>5
  <2>. QED  BY <1>9, <2>2, <2>3
<1>. QED  BY <1>8, <1>9

-----------------------------------------------------------------------------
(* Steps of the notifier.                                                     *)

LEMMA NotifierTypeStep ==
    ASSUME IInv, NotifierType, Looks, Owned,
           Run \/ Announce \/ (\E k \in Keys : Subscribe(k) \/ NotifierRun(k) \/ CancelSubscribe(k))
    PROVE  NotifierType' /\ Looks'
<1>. USE DEF publisher
<1>1. list \in Seq(Keys) /\ prop \in [Keys -> Data] /\ <<>> \in Seq(Keys)
  BY DEF IInv, PublishedType, Data
<1>2. CASE Run
  <2>. DEFINE new == IF Fits THEN list ELSE known
             gone == Removed(known, new)
             rest == SubSeq(new, Len(known) + 1, Len(new))
  <2>1. new \in Seq(Keys) /\ known \in Seq(Keys)  BY <1>1 DEF NotifierType
  <2>2. Kept(known, gone) \in Seq(Keys)
    <3>1. PICK w : Keeps(known, gone, w, Len(known)) /\ Kept(known, gone) = w[Len(known)]
      BY <2>1, KeptSteps
    <3>2. Len(known) \in 0 .. Len(known)  BY <2>1
    <3>. QED  BY <3>1, <3>2 DEF Keeps
  <2>3. Grown(new) => rest \in Seq(Keys) /\ rest # <<>>
    <3>. HIDE DEF new
    <3>1. Len(new) \in Nat /\ Len(known) \in Nat  BY <2>1
    <3>2. \A i \in Len(known) + 1 .. Len(new) : new[i] \in Keys  BY <2>1, <3>1, ElementOfSeq
    <3>3. rest \in Seq(Keys)  BY <3>1, <3>2
    <3>4. Grown(new) => Len(rest) # 0  BY <3>1, <3>2 DEF Grown
    <3>. HIDE DEF rest
    <3>. QED  BY <3>3, <3>4
  <2>4. \/ state = "first" /\ known' = new /\ todo' = new /\ watch' = watch
           /\ state' = IF new = <<>> THEN "idle" ELSE "greeting"
        \/ state = "idle" /\ Grown(new) /\ known' = known /\ todo' = rest /\ watch' = watch
           /\ state' = "adding"
        \/ /\ state = "idle" /\ todo' = todo /\ state' = state
           /\ \/ known' = known /\ watch' = watch
              \/ /\ known' = Kept(known, gone)
                 /\ watch' = [k \in Keys |-> IF \E i \in gone : known[i] = k
                                            THEN "none" ELSE watch[k]]
    BY <1>2 DEF Run
  <2>5. UNCHANGED <<started, ended, quiet, disturbed, behind>> /\ dirty' = FALSE
    BY <1>2 DEF Run
  <2>. HIDE DEF new, gone, rest
  <2>6. known' \in Seq(Keys) /\ todo' \in Seq(Keys)
    BY <2>1, <2>2, <2>3, <2>4 DEF NotifierType
  <2>7. watch' \in [Keys -> {"none", "told", "waiting", "set", "deleted", "dead"}]
    BY <2>4 DEF NotifierType
  <2>8. Looks' /\ state' \in {"first", "greeting", "idle", "adding"}
    BY <2>3, <2>4 DEF Looks, NotifierType
  <2>. QED  BY <2>5, <2>6, <2>7, <2>8 DEF NotifierType
<1>3. CASE Announce
  <2>. DEFINE k == Head(todo)
             data == prop[k]
             rest == IF data.type \in {"undefined", "blank"} THEN <<>> ELSE Tail(todo)
  <2>1. /\ k \in Keys /\ rest \in Seq(Keys) /\ Append(known, k) \in Seq(Keys)
        /\ known \in Seq(Keys)
    <3>1. todo \in Seq(Keys) /\ todo # <<>> /\ known \in Seq(Keys)
      BY <1>3 DEF Announce, Looks, NotifierType
    <3>. QED  BY <3>1
  <2>2. /\ todo' = rest /\ state' = (IF rest = <<>> THEN "idle" ELSE state)
        /\ state \in {"greeting", "adding"}
        /\ UNCHANGED <<dirty, ended, quiet, disturbed>>
    BY <1>3 DEF Announce
  <2>3. \/ /\ started' = [started EXCEPT ![data.op] = IF @ < 2 THEN @ + 1 ELSE @]
           /\ known' = known \/ known' = Append(known, k)
           /\ watch' = [watch EXCEPT ![k] = "told"]
           /\ behind' = behind
        \/ /\ behind' \in BOOLEAN
           /\ UNCHANGED <<started, known, watch>>
    BY <1>3 DEF Announce, NotifierType
  <2>. HIDE DEF k, data, rest
  <2>4. started' \in [Publishers -> 0 .. 2]  BY <2>3 DEF NotifierType
  <2>5. watch' \in [Keys -> {"none", "told", "waiting", "set", "deleted", "dead"}]
    BY <2>3 DEF NotifierType
  <2>6. known' \in Seq(Keys) /\ behind' \in BOOLEAN  BY <2>1, <2>3 DEF NotifierType
  <2>7. Looks'  BY <2>2 DEF Looks
  <2>. QED  BY <2>1, <2>2, <2>4, <2>5, <2>6, <2>7 DEF NotifierType
<1>4. ASSUME NEW k \in Keys, Subscribe(k) \/ NotifierRun(k) \/ CancelSubscribe(k)
       PROVE  NotifierType' /\ Looks'
  <2>1. /\ UNCHANGED <<known, todo, state, dirty, started, disturbed>>
        /\ behind' \in BOOLEAN
        /\ watch' \in [Keys -> {"none", "told", "waiting", "set", "deleted", "dead"}]
    BY <1>4 DEF Subscribe, NotifierRun, CancelSubscribe, NotifierType
  <2>2. prop[k].op \in Publishers \cup {Nobody}  BY <1>1 DEF Data
  <2>3. CASE NotifierRun(k)
    <3>1. ended' = ended \/ (prop[k].type = "end" /\ ended' = ended \cup {prop[k].op})
      BY <2>3 DEF NotifierRun
    <3>2. prop[k].type = "end" => prop[k].op # Nobody  BY DEF Owned
    <3>. QED  BY <2>1, <2>2, <2>3, <3>1, <3>2 DEF NotifierRun, NotifierType, Looks
  <2>4. CASE CancelSubscribe(k)
    <3>1. quiet' \subseteq Publishers  BY <2>2, <2>4 DEF CancelSubscribe, NotifierType
    <3>. QED  BY <2>1, <2>4, <3>1 DEF CancelSubscribe, NotifierType, Looks
  <2>5. CASE Subscribe(k)
    BY <2>1, <2>5 DEF Subscribe, NotifierType, Looks
  <2>. QED  BY <1>4, <2>3, <2>4, <2>5
<1>. QED  BY <1>2, <1>3, <1>4

\* A run of the notifier takes over the one change it has not seen.
LEMMA RunStep ==
    ASSUME IInv, NotifierType, Looks, ListRight, SeenRight, StartedRight, Run
    PROVE  SeenRight' /\ StartedRight'
<1>. SUFFICES ASSUME ~disturbed', ~behind' PROVE SeenRight' /\ StartedRight'
  BY DEF SeenRight, StartedRight
<1>1. /\ UNCHANGED <<list, prop, pc, started, disturbed, behind>> /\ dirty' = FALSE
      /\ dirty /\ state \in {"first", "idle"}
  BY DEF Run, properties, publisher
<1>2. /\ ~disturbed /\ ~behind /\ Follows(Seen, todo, list) /\ Seen = known /\ todo = <<>>
      /\ state # "first" => OneChange(known, list)
  BY <1>1 DEF SeenRight, Seen, Looks
<1>3. list \in Seq(Keys) /\ known \in Seq(Keys) /\ Distinct(list) /\ Len(list) \in Nat
      /\ Len(known) \in Nat
  BY <1>2 DEF IInv, PublishedType, NotifierType, ListRight
<1>4. Fits  BY <1>3, DistinctFits DEF Fits
<1>5. /\ \A q \in Publishers : pc[q] \in Early => started[q] = 0
      /\ \A k \in Elements(list) : prop[k].type = "start" =>
            started[prop[k].op] = IF ToldOf(k) THEN 1 ELSE 0
  BY <1>2 DEF StartedRight
<1>6. Distinct(<<>>) /\ Elements(<<>>) = {}  BY DEF Distinct, Elements
<1>7. ASSUME Seen' = list, Follows(list, todo', list),
             \A k \in Elements(list) : ToldOf(k)' <=> ToldOf(k), state' # "first"
      PROVE  SeenRight' /\ StartedRight'
  <2>1. Follows(Seen, todo, list)'  BY <1>1, <1>7
  <2>2. SeenRight'  BY <1>1, <1>7, <2>1 DEF SeenRight
  <2>3. \A k \in Elements(list)' : k \in Elements(list)  BY <1>1
  <2>4. StartedRight'  BY <1>1, <1>5, <1>7, <2>3 DEF StartedRight
  <2>. QED  BY <2>2, <2>4
<1>8. CASE state = "first"
  <2>1. known' = list /\ todo' = list /\ state' = IF list = <<>> THEN "idle" ELSE "greeting"
    BY <1>4, <1>8 DEF Run
  <2>2. Seen' = list  BY <2>1 DEF Seen
  <2>3. Follows(list, todo', list)  BY <1>3, <2>1 DEF Follows
  <2>4. \A k \in Elements(list) : ~ToldOf(k)' /\ ~ToldOf(k)  BY <1>8, <2>1 DEF ToldOf
  <2>. QED  BY <1>7, <2>1, <2>2, <2>3, <2>4
<1>9. CASE state = "idle" /\ \E k \in Keys \ Elements(known) : list = Append(known, k)
  <2>1. PICK k \in Keys : k \notin Elements(known) /\ list = Append(known, k)  BY <1>9
  <2>2. Len(list) = Len(known) + 1 /\ list[Len(known) + 1] = k  BY <1>3, <2>1
  <2>3. SubSeq(list, Len(known) + 1, Len(list)) = <<k>>
    <3>. DEFINE n == Len(known) + 1
               t == SubSeq(list, n, n)
    <3>1. n \in 1 .. Len(list) /\ Len(list) = n  BY <1>3, <2>2
    <3>. HIDE DEF n
    <3>2. t \in Seq(Keys) /\ Len(t) = 1 /\ t[1] = list[n]
      BY <1>3, <3>1
    <3>3. t = <<k>>
      <4>1. list[n] = k  BY <2>2 DEF n
      <4>. HIDE DEF t
      <4>. QED  BY <3>2, <4>1
    <3>. QED  BY <3>1, <3>3 DEF n
  <2>4. known' = known /\ todo' = <<k>> /\ state' = "adding"
    <3>1. Grown(list)  BY <1>3, <2>2 DEF Grown
    <3>. QED  BY <1>4, <1>9, <2>3, <3>1 DEF Run
  <2>5. Seen' = list  BY <1>3, <2>1, <2>4 DEF Seen
  <2>6. /\ Elements(<<k>>) = {k} /\ Distinct(<<k>>)
        /\ Elements(list) = Elements(known) \cup {k}
    BY <1>3, <2>1, AppendElements DEF Elements, Distinct
  <2>7. Follows(list, todo', list)  BY <1>3, <2>4, <2>6 DEF Follows
  <2>8. ASSUME NEW m \in Elements(list) PROVE ToldOf(m)' <=> ToldOf(m)
    <3>1. ToldOf(m) <=> m \in Elements(known)  BY <1>2, <1>6, <1>9 DEF ToldOf
    <3>2. ToldOf(m)' <=> m # k  BY <2>4, <2>5, <2>6 DEF ToldOf
    <3>. QED  BY <2>1, <2>6, <3>1, <3>2
  <2>. QED  BY <1>7, <2>4, <2>5, <2>7, <2>8
<1>10. CASE state = "idle" /\ \E n \in 1 .. Len(known) : list = WithoutNth(known, n)
  <2>1. PICK n \in 1 .. Len(known) : list = WithoutNth(known, n)  BY <1>10
  <2>2. Distinct(known)  BY <1>2 DEF Follows
  <2>3. /\ Len(list) = Len(known) - 1 /\ Removed(known, list) = {n} /\ Kept(known, {n}) = list
        /\ Elements(list) \subseteq Elements(known)
    BY <1>3, <2>1, <2>2, NthFacts, RemovedOne, KeptOne, NthElements
  <2>4. known' = list /\ todo' = todo /\ state' = state
    <3>1. ~Grown(list) /\ Len(known) > Len(list)  BY <1>3, <2>3 DEF Grown
    <3>. QED  BY <1>4, <1>10, <2>3, <3>1 DEF Run
  <2>5. Seen' = list  BY <1>10, <2>4 DEF Seen
  <2>6. Follows(list, todo', list)  BY <1>2, <1>3, <1>6, <2>4 DEF Follows
  <2>7. \A k \in Elements(list) : ToldOf(k)' /\ ToldOf(k)
    BY <1>2, <1>6, <1>10, <2>3, <2>4, <2>5 DEF ToldOf
  <2>. QED  BY <1>7, <1>10, <2>4, <2>5, <2>6, <2>7
<1>. QED  BY <1>1, <1>2, <1>8, <1>9, <1>10 DEF OneChange

\* Each key it looks at is one it has not told of yet.
LEMMA AnnounceStep ==
    ASSUME IInv, NotifierType, Looks, Owned, ListRight, SeenRight, StartedRight, Announce
    PROVE  SeenRight' /\ StartedRight'
<1>. SUFFICES ASSUME ~disturbed', ~behind' PROVE SeenRight' /\ StartedRight'
  BY DEF SeenRight, StartedRight
<1>. DEFINE k == Head(todo)
           rest == Tail(todo)
           q == prop[k].op
<1>1. /\ UNCHANGED <<list, prop, pc, dirty, disturbed>>
      /\ state \in {"greeting", "adding"} /\ todo # <<>>
      /\ \/ behind' = behind
         \/ behind' = TRUE
         \/ behind' = (behind \/ prop[k].type \in {"undefined", "blank"} \/ state = "adding")
  BY DEF Announce, properties, publisher, Looks
<1>2. /\ ~disturbed /\ ~behind
  BY DEF Announce, publisher, NotifierType
<1>3. /\ Follows(Seen, todo, list)
      /\ IF dirty THEN OneChange(Seen, list) ELSE Seen = list
  BY <1>1, <1>2 DEF SeenRight
<1>4. /\ todo \in Seq(Keys) /\ known \in Seq(Keys) /\ k \in Keys /\ rest \in Seq(Keys)
      /\ k \in Elements(todo) /\ k \notin Elements(rest) /\ Elements(todo) = Elements(rest) \cup {k}
      /\ Distinct(rest)
  <2>1. todo \in Seq(Keys) /\ known \in Seq(Keys)  BY DEF NotifierType
  <2>2. /\ k \in Keys /\ rest \in Seq(Keys) /\ k = todo[1] /\ Len(todo) \in Nat /\ Len(todo) >= 1
        /\ DOMAIN todo = 1 .. Len(todo) /\ DOMAIN rest = 1 .. Len(todo) - 1
        /\ \A i \in 1 .. Len(todo) - 1 : rest[i] = todo[i + 1]
    BY <1>1, <2>1
  <2>3. Distinct(todo)  BY <1>3 DEF Follows
  <2>. HIDE DEF k, rest
  <2>4. Distinct(rest)  BY <2>2, <2>3 DEF Distinct
  <2>5. k \in Elements(todo) /\ k \notin Elements(rest)  BY <2>2, <2>3 DEF Distinct, Elements
  <2>6. Elements(todo) = Elements(rest) \cup {k}
    <3>1. ASSUME NEW i \in 1 .. Len(todo) PROVE todo[i] \in Elements(rest) \cup {k}
      <4>1. i = 1 \/ (i - 1 \in 1 .. Len(todo) - 1 /\ (i - 1) + 1 = i)  BY <2>2
      <4>. QED  BY <2>2, <4>1 DEF Elements
    <3>2. ASSUME NEW i \in 1 .. Len(todo) - 1 PROVE rest[i] \in Elements(todo)
      <4>1. i + 1 \in DOMAIN todo  BY <2>2
      <4>2. rest[i] = todo[i + 1]  BY <2>2
      <4>. QED  BY <4>1, <4>2 DEF Elements
    <3>3. Elements(todo) \subseteq Elements(rest) \cup {k}
      <4>1. \A e \in Elements(todo) : \E i \in 1 .. Len(todo) : e = todo[i]
        BY <2>2 DEF Elements
      <4>. QED  BY <3>1, <4>1
    <3>4. Elements(rest) \subseteq Elements(todo)
      <4>1. \A e \in Elements(rest) : \E i \in 1 .. Len(todo) - 1 : e = rest[i]
        BY <2>2 DEF Elements
      <4>. QED  BY <3>2, <4>1
    <3>. QED  BY <2>5, <3>3, <3>4
  <2>. QED  BY <2>1, <2>2, <2>4, <2>5, <2>6
<1>5. /\ k \in Elements(list) /\ k \in Elements(Seen) /\ q \in Publishers /\ pc[q] \in InList
      /\ prop[k].type \in {"start", "end"}
  BY <1>2, <1>3, <1>4 DEF Follows, ListRight
<1>6. todo' = rest /\ state' = (IF rest = <<>> THEN "idle" ELSE state)
  BY <1>5 DEF Announce
<1>7. /\ \A p \in Publishers : pc[p] \in Early => started[p] = 0
      /\ \A m \in Elements(list) : prop[m].type = "start" =>
            started[prop[m].op] = IF ToldOf(m) THEN 1 ELSE 0
  BY <1>2 DEF StartedRight
<1>8. Seen' = Seen
  <2>. HIDE DEF k, rest
  <2>1. CASE state = "greeting"
    <3>1. known' = known  BY <2>1 DEF Announce
    <3>. QED  BY <1>6, <2>1, <3>1 DEF Seen
  <2>2. CASE state = "adding"
    <3>1. prop[k].type = "start"
      BY <1>5, <2>2 DEF Announce, k
    <3>2. known' = Append(known, k)  BY <2>2, <3>1 DEF Announce, k
    <3>3. todo = <<k>> \o rest  BY <1>1, <1>4 DEF k, rest
    <3>4. Append(known, k) \o rest = known \o todo
      <4>1. Append(known, k) = known \o <<k>> /\ <<k>> \in Seq(Keys)  BY <1>4
      <4>2. (known \o <<k>>) \o rest = known \o (<<k>> \o rest)
        BY <1>4, <4>1, ConcatAssociative
      <4>. QED  BY <3>3, <4>1, <4>2
    <3>5. rest = <<>> => Append(known, k) \o rest = Append(known, k)  BY <1>4
    <3>. QED  BY <1>6, <2>2, <3>2, <3>4, <3>5 DEF Seen
  <2>. QED  BY <1>1, <2>1, <2>2
<1>9. SeenRight'
  <2>1. Follows(Seen, rest, list)  BY <1>3, <1>4 DEF Follows
  <2>2. Follows(Seen, todo, list)' /\ (OneChange(Seen, list)' <=> OneChange(Seen, list))
    BY <1>1, <1>6, <1>8, <2>1
  <2>3. state' # "first"  BY <1>1, <1>6
  <2>. QED  BY <1>1, <1>3, <1>8, <2>2, <2>3 DEF SeenRight
<1>10. ASSUME NEW m \in Elements(list)
       PROVE  /\ m # k => (ToldOf(m)' <=> ToldOf(m))
              /\ m = k => ToldOf(m)' /\ ~ToldOf(m)
  <2>1. state # "first" /\ state' # "first"  BY <1>1, <1>6
  <2>2. ToldOf(m)' <=> m \notin Elements(rest) /\ m \in Elements(Seen)
    BY <1>6, <1>8, <2>1 DEF ToldOf
  <2>3. ToldOf(m) <=> m \notin Elements(todo) /\ m \in Elements(Seen)  BY <2>1 DEF ToldOf
  <2>. HIDE DEF k, rest
  <2>. QED  BY <1>4, <1>5, <2>2, <2>3
<1>11. CASE prop[k].type = "start"
  <2>1. started' = [started EXCEPT ![q] = IF @ < 2 THEN @ + 1 ELSE @]
    BY <1>11 DEF Announce
  <2>2. started[q] = 0  BY <1>5, <1>7, <1>10, <1>11
  <2>3. started'[q] = 1 /\ \A p \in Publishers : p # q => started'[p] = started[p]
    BY <1>5, <2>1, <2>2 DEF NotifierType
  <2>. HIDE DEF k, q
  <2>4. ASSUME NEW p \in Publishers, pc[p] \in Early PROVE started'[p] = 0
    <3>1. p # q  BY <1>5, <2>4 DEF Early, InList
    <3>. QED  BY <1>7, <2>3, <2>4, <3>1
  <2>5. ASSUME NEW m \in Elements(list), prop[m].type = "start"
        PROVE  started'[prop[m].op] = IF ToldOf(m)' THEN 1 ELSE 0
    <3>1. CASE m = k  BY <1>10, <2>3, <3>1 DEF q
    <3>2. CASE m # k
      <4>1. prop[m].op \in Publishers /\ m \in Keys /\ prop[m].op # q
        <5>1. Elements(list) \subseteq Keys  BY DEF Elements, IInv, PublishedType
        <5>2. prop[m].op \in Publishers  BY <1>2 DEF ListRight
        <5>3. prop[m].op = q => mine[q] = m /\ mine[q] = k
          BY <1>4, <1>5, <5>1 DEF Owned, q
        <5>. QED  BY <3>2, <5>1, <5>2, <5>3
      <4>. QED  BY <1>7, <1>10, <2>3, <2>5, <3>2, <4>1
    <3>. QED  BY <3>1, <3>2
  <2>6. \A m \in Elements(list)' : m \in Elements(list)  BY <1>1
  <2>. QED  BY <1>1, <1>9, <2>4, <2>5, <2>6 DEF StartedRight
<1>12. CASE prop[k].type = "end"
  <2>1. started' = started  BY <1>12 DEF Announce
  <2>. HIDE DEF k
  <2>2. \A m \in Elements(list) : prop[m].type = "start" => (ToldOf(m)' <=> ToldOf(m))
    BY <1>10, <1>12
  <2>3. \A m \in Elements(list)' : m \in Elements(list)  BY <1>1
  <2>. QED  BY <1>1, <1>7, <1>9, <2>1, <2>2, <2>3 DEF StartedRight
<1>. QED  BY <1>5, <1>11, <1>12

-----------------------------------------------------------------------------
(* The invariant and what it says.                                            *)

LEMMA InitJInv == ASSUME Init PROVE JInv
<1>1. PICK lost \in SUBSET Keys :
         prop = [k \in Keys |-> [NoData EXCEPT !.type = IF k \in lost THEN "blank" ELSE @]]
  BY DEF Init
<1>2. \A k \in Keys : prop[k].op = Nobody /\ prop[k].type \notin {"start", "end"}
  BY <1>1 DEF NoData
<1>3. IInv  BY InitIInv
<1>4. /\ list = <<>> /\ known = <<>> /\ todo = <<>> /\ state = "first" /\ dirty = TRUE
      /\ pc = [p \in Publishers |-> "new"] /\ started = [p \in Publishers |-> 0]
      /\ watch = [k \in Keys |-> "none"] /\ ended = {} /\ quiet = {}
      /\ disturbed = FALSE /\ behind = FALSE
  BY DEF Init
<1>5. NotifierType
  <2>1. <<>> \in Seq(Keys)  OBVIOUS
  <2>2. /\ watch \in [Keys -> {"none", "told", "waiting", "set", "deleted", "dead"}]
        /\ started \in [Publishers -> 0 .. 2]
    BY <1>4
  <2>. QED  BY <1>4, <2>1, <2>2 DEF NotifierType
<1>6. Owned  BY <1>2, <1>4, NotificationAssumption DEF Owned
<1>7. Elements(<<>>) = {} /\ Distinct(<<>>)  BY DEF Elements, Distinct
<1>8. ListRight  BY <1>4, <1>7 DEF ListRight, Listed, Runs
<1>9. SeenRight  BY <1>4, <1>7 DEF SeenRight, Seen, Follows
<1>10. StartedRight  BY <1>4, <1>7 DEF StartedRight
<1>. QED  BY <1>3, <1>4, <1>5, <1>6, <1>8, <1>9, <1>10 DEF JInv, Looks

LEMMA JInvStep == ASSUME JInv, [Next]_vars PROVE JInv'
<1>1. /\ IInv /\ NotifierType /\ Looks /\ Owned /\ ListRight /\ SeenRight /\ StartedRight
      /\ IInv'
  BY IInvStep DEF JInv
<1>2. ASSUME NEW p \in Publishers, Publish(p) \/ Fault(p) \/ Dies(p) PROVE JInv'
  <2>1. Looks'  BY <1>1, <1>2, PublishMoves DEF Looks
  <2>. QED
    BY <1>1, <1>2, <2>1, PublishNotifierType, OwnedStep, ListRightStep, SeenPublishStep DEF JInv
<1>3. ASSUME UNCHANGED <<prop, prog, list, pc, mine, disturbed>> PROVE Owned' /\ ListRight'
  BY <1>1, <1>3 DEF Owned, ListRight, Listed, Runs, Elements, Distinct
<1>4. CASE Run
  <2>1. UNCHANGED <<prop, prog, list, pc, mine, disturbed>>  BY <1>4 DEF Run, properties, publisher
  <2>. QED  BY <1>1, <1>3, <1>4, <2>1, NotifierTypeStep, RunStep DEF JInv
<1>5. CASE Announce
  <2>1. UNCHANGED <<prop, prog, list, pc, mine, disturbed>>
    BY <1>5 DEF Announce, properties, publisher
  <2>. QED  BY <1>1, <1>3, <1>5, <2>1, NotifierTypeStep, AnnounceStep DEF JInv
<1>6. CASE (\E k \in Keys : Subscribe(k) \/ NotifierRun(k) \/ CancelSubscribe(k)) \/ UNCHANGED vars
  <2>1. /\ UNCHANGED <<properties, publisher, known, todo, state, dirty, started>>
        /\ behind => behind'
    <3>1. ASSUME NEW k \in Keys, Subscribe(k)
          PROVE  /\ UNCHANGED <<properties, publisher, known, todo, state, dirty, started>>
                 /\ behind => behind'
      BY <3>1, Zenon DEF Subscribe
    <3>2. CASE (\E k \in Keys : NotifierRun(k) \/ CancelSubscribe(k)) \/ UNCHANGED vars
      BY <3>2 DEF NotifierRun, CancelSubscribe, vars, notifier
    <3>. QED  BY <1>6, <3>1, <3>2, Zenon
  <2>2. SeenRight' /\ StartedRight'
    <3>1. Seen' = Seen  BY <2>1 DEF Seen
    <3>2. Follows(Seen, todo, list)' <=> Follows(Seen, todo, list)
      BY <2>1, <3>1 DEF properties
    <3>3. OneChange(Seen, list)' <=> OneChange(Seen, list)
      BY <2>1, <3>1 DEF properties
    <3>4. \A k : ToldOf(k)' <=> ToldOf(k)  BY <2>1, <3>1 DEF ToldOf, Elements
    <3>5. SeenRight'
      BY <1>1, <2>1, <3>1, <3>2, <3>3 DEF SeenRight, properties, publisher
    <3>6. StartedRight'
      BY <1>1, <2>1, <3>4 DEF StartedRight, properties, publisher, Elements
    <3>. QED  BY <3>5, <3>6
  <2>3. Owned' /\ ListRight'  BY <1>3, <2>1 DEF properties, publisher
  <2>4. NotifierType' /\ Looks'
    <3>1. CASE UNCHANGED vars  BY <1>1, <3>1 DEF NotifierType, Looks, vars, publisher, notifier
    <3>. QED  BY <1>1, <1>6, <3>1, NotifierTypeStep
  <2>. QED  BY <1>1, <2>2, <2>3, <2>4 DEF JInv
<1>. QED  BY <1>2, <1>4, <1>5, <1>6 DEF Next

\* The list agrees with the publishers, and what the notifier has seen of it and told
\* of it with the list.
THEOREM NotifierInvariance == Spec => []JInv
<1>1. Init => JInv  BY InitJInv
<1>2. JInv /\ [Next]_vars => JInv'  BY JInvStep
<1>. QED  BY <1>1, <1>2, PTL DEF Spec

\* All that publishers and the notifier keep has its type.
THEOREM TypeCorrect == Spec => []TypeOK
<1>1. JInv => TypeOK
  BY DEF JInv, IInv, PublishedType, NotifierType, TypeOK
<1>. QED  BY <1>1, NotifierInvariance, PTL

\* A notifier that keeps up knows the publishers' list when it has nothing to do, and
\* has told its client once of each operation that runs, for any installers and any
\* number of keys, whichever calls leave and processes die: the comparison of lengths
\* and the loop that passes over the key behind one it removes (RunL) are enough for
\* lists that differ in one key.
THEOREM KeepsInStep == Spec => []InStep
<1>1. JInv => InStep
  <2>. SUFFICES ASSUME JInv, ~disturbed, ~behind, state = "idle", ~dirty
                PROVE  /\ known = list
                       /\ \A i \in DOMAIN list :
                             prop[list[i]].type = "start" => started[prop[list[i]].op] = 1
    BY DEF InStep
  <2>1. known = list /\ todo = <<>> /\ Seen = known
    BY DEF JInv, SeenRight, Seen, Looks
  <2>2. \A i \in DOMAIN list : list[i] \in Elements(list)  BY DEF Elements
  <2>3. \A k \in Elements(list) : ToldOf(k)  BY <2>1 DEF ToldOf, Elements
  <2>. QED  BY <2>1, <2>2, <2>3 DEF JInv, StartedRight
<1>. QED  BY <1>1, NotifierInvariance, PTL
=============================================================================
