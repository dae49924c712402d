------------------------ MODULE TransactionTableProofs ------------------------
(***************************************************************************)
(* Theorems about TransactionTable for any word of the clock and any number  *)
(* of transactions: while none is older than half the range of the word, the  *)
(* container is in order and the binary search finds every active one.       *)
(***************************************************************************)
EXTENDS TransactionTable, SequenceTheorems, WellFoundedInduction, TLAPS

\* A non-empty set of natural numbers has a least element.
LEMMA LeastNatural ==
    ASSUME NEW T, T \subseteq Nat, T # {}
    PROVE  \E n \in T : \A m \in T : n <= m
<1>1. PICK n \in T : \A m \in T : <<m, n>> \notin OpToRel(<, Nat)
  BY WFMin, NatLessThanWellFounded, Zenon
<1>2. ASSUME NEW m \in T PROVE ~ (m < n)
  BY <1>1, Zenon DEF OpToRel
<1> QED BY <1>2

\* The search of a sequence in which the K first identifiers come before id and
\* the next one is id itself, or comes after it.
LEMMA SearchIs ==
    ASSUME NEW seq, NEW id, Len(seq) \in Nat, NEW K \in 0 .. Len(seq), NEW Hit \in BOOLEAN,
           Hit => K < Len(seq),
           \A m \in 1 .. Len(seq) :
               /\ Compare(id, seq[m]) \in Int
               /\ Compare(id, seq[m]) > 0 <=> m <= K
               /\ Compare(id, seq[m]) = 0 <=> Hit /\ m = K + 1
    PROVE  Search(seq, id) = <<Hit, K + 1>>
<1> DEFINE N == Len(seq)
           Ranges == (0 .. N) \X (0 .. N)
           mid(r) == (r[1] + r[2]) \div 2
           upper(r) == <<mid(r) + 1, r[2]>>
           lower(r) == <<r[1], mid(r)>>
           c(r) == Compare(id, seq[mid(r) + 1])
           E(f) == [r \in Ranges |->
                      IF r[1] >= r[2] THEN <<FALSE, r[2] + 1>>
                      ELSE IF c(r) = 0 THEN <<TRUE, mid(r) + 1>>
                      ELSE IF c(r) > 0 THEN f[upper(r)]
                      ELSE f[lower(r)]]
           F == CHOOSE f : f = E(f)
           clamp(r) == IF K <= r[1] THEN r[1] ELSE IF K >= r[2] THEN r[2] ELSE K
           inside(r) == r[1] < r[2] /\ Hit /\ r[1] <= K /\ K < r[2]
           found(r) == <<TRUE, K + 1>>
           place(r) == IF r[1] >= r[2] THEN r[2] ELSE clamp(r)
           absent(r) == <<FALSE, place(r) + 1>>
           G == [r \in Ranges |-> IF inside(r) THEN found(r) ELSE absent(r)]
<1>1. Search(seq, id) = F[<<0, N>>]
  BY DEF Search
<1>2. ASSUME NEW r \in Ranges
      PROVE  /\ r[1] \in 0 .. N /\ r[2] \in 0 .. N
             /\ r[1] < r[2] => /\ mid(r) \in 0 .. N - 1
                               /\ r[1] <= mid(r) /\ mid(r) < r[2]
                               /\ upper(r) \in Ranges /\ upper(r)[1] = mid(r) + 1 /\ upper(r)[2] = r[2]
                               /\ lower(r) \in Ranges /\ lower(r)[1] = r[1] /\ lower(r)[2] = mid(r)
  OBVIOUS
<1>3. ASSUME NEW r \in Ranges, r[1] < r[2]
      PROVE  /\ c(r) \in Int
             /\ c(r) > 0 <=> mid(r) < K
             /\ c(r) = 0 <=> Hit /\ mid(r) = K
  <2>1. mid(r) + 1 \in 1 .. N /\ mid(r) \in Nat
    BY <1>2, <1>3
  <2> DEFINE d == Compare(id, seq[mid(r) + 1])
  <2>2. d \in Int /\ (d > 0 <=> mid(r) + 1 <= K) /\ (d = 0 <=> Hit /\ mid(r) + 1 = K + 1)
    <3> HIDE DEF mid, d
    <3> QED BY <2>1 DEF d
  <2> HIDE DEF mid, d
  <2> QED BY <2>1, <2>2 DEF d
<1> HIDE DEF mid, c
<1>4. ASSUME NEW f, NEW r \in Ranges
      PROVE  /\ r[1] >= r[2] => E(f)[r] = <<FALSE, r[2] + 1>>
             /\ r[1] < r[2] /\ c(r) = 0 => E(f)[r] = <<TRUE, mid(r) + 1>>
             /\ r[1] < r[2] /\ c(r) > 0 => E(f)[r] = f[upper(r)]
             /\ r[1] < r[2] /\ c(r) < 0 => E(f)[r] = f[lower(r)]
  <2> DEFINE body(q) == IF q[1] >= q[2] THEN <<FALSE, q[2] + 1>>
                      ELSE IF c(q) = 0 THEN <<TRUE, mid(q) + 1>>
                      ELSE IF c(q) > 0 THEN f[upper(q)]
                      ELSE f[lower(q)]
  <2>1. E(f)[r] = body(r)
    OBVIOUS
  <2> HIDE DEF E, upper, lower, Ranges
  <2>2. /\ r[1] < r[2] <=> ~ (r[1] >= r[2])
        /\ r[1] < r[2] /\ c(r) > 0 => c(r) # 0
        /\ r[1] < r[2] /\ c(r) < 0 => c(r) # 0 /\ ~ (c(r) > 0)
    BY <1>2, <1>3
  <2> QED BY <2>1, <2>2, Zenon
<1>5. ASSUME NEW r \in Ranges PROVE G[r] = IF inside(r) THEN found(r) ELSE absent(r)
  OBVIOUS
<1>6. E(G) = [r \in Ranges |-> E(G)[r]] /\ G = [r \in Ranges |-> G[r]]
  OBVIOUS
<1> HIDE DEF E, G, Ranges, upper, lower
<1>7. ASSUME NEW r \in Ranges PROVE G[r] = E(G)[r]
  <2>0. r[1] \in 0 .. N /\ r[2] \in 0 .. N /\ K \in 0 .. N
    BY <1>2
  <2>1. CASE r[1] >= r[2]
    <3>1. ~inside(r) /\ absent(r) = <<FALSE, r[2] + 1>>
      BY <2>0, <2>1
    <3>2. E(G)[r] = <<FALSE, r[2] + 1>>
      BY <2>1, <1>4
    <3> HIDE DEF inside, absent
    <3> QED BY <3>1, <3>2, <1>5
  <2>2. CASE r[1] < r[2] /\ c(r) = 0
    <3>1. inside(r) /\ found(r) = <<TRUE, mid(r) + 1>>
      BY <1>2, <1>3, <2>2
    <3>2. E(G)[r] = <<TRUE, mid(r) + 1>>
      BY <2>2, <1>4
    <3> HIDE DEF inside, found
    <3> QED BY <3>1, <3>2, <1>5
  <2>3. CASE r[1] < r[2] /\ c(r) > 0
    <3>0. /\ upper(r)[1] = mid(r) + 1 /\ upper(r)[2] = r[2] /\ mid(r) \in 0 .. N - 1
          /\ r[1] <= mid(r) /\ mid(r) < r[2] /\ mid(r) < K
      BY <1>2, <1>3, <2>0, <2>3
    <3>1. (inside(r) <=> inside(upper(r))) /\ found(r) = found(upper(r))
      BY <2>0, <2>3, <3>0
    <3>2. absent(r) = absent(upper(r))
      <4>1. place(r) = place(upper(r))
        BY <2>0, <2>3, <3>0
      <4> HIDE DEF place
      <4> QED BY <4>1
    <3>3. upper(r) \in Ranges /\ E(G)[r] = G[upper(r)]
      BY <2>3, <1>2, <1>4
    <3> HIDE DEF inside, found, absent
    <3> QED BY <3>1, <3>2, <3>3, <1>5
  <2>4. CASE r[1] < r[2] /\ c(r) < 0
    <3>0. /\ lower(r)[1] = r[1] /\ lower(r)[2] = mid(r) /\ mid(r) \in 0 .. N - 1
          /\ r[1] <= mid(r) /\ mid(r) < r[2] /\ K <= mid(r) /\ (Hit => K < mid(r))
      BY <1>2, <1>3, <2>0, <2>4
    <3>1. (inside(r) <=> inside(lower(r))) /\ found(r) = found(lower(r))
      BY <2>0, <2>4, <3>0
    <3>2. absent(r) = absent(lower(r))
      <4>1. place(r) = place(lower(r))
        BY <2>0, <2>4, <3>0
      <4> HIDE DEF place
      <4> QED BY <4>1
    <3>3. lower(r) \in Ranges /\ E(G)[r] = G[lower(r)]
      BY <2>4, <1>2, <1>4
    <3> HIDE DEF inside, found, absent
    <3> QED BY <3>1, <3>2, <3>3, <1>5
  <2> QED BY <2>0, <2>1, <2>2, <2>3, <2>4, <1>3
<1>8. G = E(G)
  BY <1>6, <1>7
<1>9. F = E(F)
  BY <1>8
<1> HIDE DEF F
<1> DEFINE sizes == {r[2] - r[1] : r \in {q \in Ranges : F[q] # G[q] /\ q[1] < q[2]}}
<1>10. ASSUME NEW r \in Ranges, r[1] >= r[2] PROVE F[r] = G[r]
  BY <1>4, <1>8, <1>9, <1>10
<1>11. sizes = {}
  <2> SUFFICES ASSUME sizes # {} PROVE FALSE
    OBVIOUS
  <2>1. sizes \subseteq Nat
    BY <1>2
  <2>2. PICK least \in sizes : \A n \in sizes : least <= n
    <3> HIDE DEF sizes
    <3> QED BY <2>1, LeastNatural
  <2>3. PICK r \in Ranges : F[r] # G[r] /\ r[1] < r[2] /\ least = r[2] - r[1]
    OBVIOUS
  <2>4. ASSUME NEW q \in Ranges, q[2] - q[1] < r[2] - r[1], F[q] # G[q] PROVE FALSE
    <3>0. q[1] \in 0 .. N /\ q[2] \in 0 .. N
      BY <1>2
    <3>1. q[1] < q[2]
      BY <3>0, <1>10, <2>4
    <3>2. q[2] - q[1] \in sizes
      BY <3>1, <2>4
    <3> HIDE DEF sizes
    <3> QED BY <1>2, <2>2, <2>3, <2>4, <3>2
  <2> HIDE DEF sizes
  <2>5. CASE c(r) = 0
    <3>1. F[r] = E(F)[r] /\ G[r] = E(G)[r]
      BY <1>8, <1>9
    <3> QED BY <1>4, <2>3, <2>5, <3>1
  <2>6. CASE c(r) > 0
    <3>1. F[r] = F[upper(r)] /\ G[r] = G[upper(r)]
      BY <1>4, <1>8, <1>9, <2>3, <2>6
    <3>2. upper(r) \in Ranges /\ upper(r)[2] - upper(r)[1] < r[2] - r[1]
      BY <1>2, <2>3
    <3> QED BY <2>3, <2>4, <3>1, <3>2
  <2>7. CASE c(r) < 0
    <3>1. F[r] = F[lower(r)] /\ G[r] = G[lower(r)]
      BY <1>4, <1>8, <1>9, <2>3, <2>7
    <3>2. lower(r) \in Ranges /\ lower(r)[2] - lower(r)[1] < r[2] - r[1]
      BY <1>2, <2>3
    <3> QED BY <2>3, <2>4, <3>1, <3>2
  <2> QED BY <1>2, <1>3, <2>3, <2>5, <2>6, <2>7
<1>12. <<0, N>> \in Ranges /\ <<0, N>>[1] = 0 /\ <<0, N>>[2] = N
  BY DEF Ranges
<1>13. F[<<0, N>>] = G[<<0, N>>]
  BY <1>10, <1>11, <1>12
<1>14. G[<<0, N>>] = <<Hit, K + 1>>
  <2>1. inside(<<0, N>>) = Hit
    OBVIOUS
  <2>2. absent(<<0, N>>) = <<FALSE, K + 1>>
    BY <1>12
  <2>3. CASE Hit
    BY <2>1, <2>3, <1>5, <1>12
  <2>4. CASE ~Hit
    BY <2>1, <2>2, <2>4, <1>5, <1>12
  <2> QED BY <2>3, <2>4
<1> QED BY <1>1, <1>13, <1>14

\* What is left of a sequence when the element at i is removed.
LEMMA RemovedAt ==
  ASSUME NEW S, NEW q \in Seq(S), NEW i \in 1 .. Len(q)
  PROVE  /\ RemoveAt(q, i) \in Seq(S)
         /\ Len(RemoveAt(q, i)) = Len(q) - 1
         /\ \A j \in 1 .. Len(q) - 1 :
              RemoveAt(q, i)[j] = IF j < i THEN q[j] ELSE q[j + 1]
<1> DEFINE A == SubSeq(q, 1, i - 1)
           B == SubSeq(q, i + 1, Len(q))
<1>1. A \in Seq(S) /\ Len(A) = i - 1 /\ \A j \in 1 .. i - 1 : A[j] = q[j]
  OBVIOUS
<1>2. /\ B \in Seq(S)
      /\ Len(B) = Len(q) - i
      /\ \A j \in 1 .. Len(q) - i : B[j] = q[i + j]
  OBVIOUS
<1>3. RemoveAt(q, i) = A \o B
  BY DEF RemoveAt
<1> HIDE DEF A, B
<1>4. /\ A \o B \in Seq(S)
      /\ Len(A \o B) = Len(A) + Len(B)
      /\ \A j \in 1 .. Len(A) + Len(B) :
           (A \o B)[j] = IF j <= Len(A) THEN A[j] ELSE B[j - Len(A)]
  BY <1>1, <1>2, ConcatProperties
<1>5. Len(A) + Len(B) = Len(q) - 1
  BY <1>1, <1>2
<1>6. ASSUME NEW j \in 1 .. Len(q) - 1
      PROVE  (A \o B)[j] = IF j < i THEN q[j] ELSE q[j + 1]
  <2>1. CASE j < i
    BY <1>1, <1>4, <1>5, <2>1
  <2>2. CASE ~(j < i)
    <3>1. (A \o B)[j] = B[j - (i - 1)]
      BY <1>1, <1>4, <1>5, <2>2
    <3>2. j - (i - 1) \in 1 .. Len(q) - i /\ i + (j - (i - 1)) = j + 1
      BY <2>2
    <3>3. QED
      BY <1>2, <2>2, <3>1, <3>2
  <2>3. QED
    BY <2>1, <2>2
<1> QED
  BY <1>3, <1>4, <1>5, <1>6

\* An element inserted after the last one of a sequence is appended.
LEMMA AppendedAt ==
  ASSUME NEW S, NEW q \in Seq(S), NEW x \in S
  PROVE  SubSeq(q, 1, Len(q)) \o <<x>> \o SubSeq(q, Len(q) + 1, Len(q)) = Append(q, x)
<1> DEFINE y == Append(q, x)
<1>1. SubSeq(q, 1, Len(q)) = q
  BY SubSeqFull
<1>2. Len(q) \in Nat /\ SubSeq(q, Len(q) + 1, Len(q)) = <<>>
  BY SubSeqEmpty
<1>3. y = q \o <<x>> /\ y \in Seq(S)
  BY AppendIsConcat, AppendProperties
<1> HIDE DEF y
<1>4. y \o <<>> = y
  BY <1>3, ConcatEmptySeq
<1> QED BY <1>1, <1>2, <1>3, <1>4 DEF y

\* No transaction stays active for half the range of the clock word.
YoungEnough == Word \in Nat \ {0} /\ MaxAge \in Nat /\ MaxAge < Word \div 2

\* The identifier of a transaction that began old ticks ago.
Began(now, old) == IF old <= now THEN now - old ELSE now - old + Word

\* The transactions ids, from the oldest to the newest, each under the
\* identifier that the clock showed when it began.
Listed(now, ids, olds) ==
    /\ now \in 0 .. Word - 1
    /\ ids \in Seq(0 .. Word - 1)
    /\ olds \in Seq(0 .. MaxAge)
    /\ Len(ids) = Len(olds)
    /\ \A i, j \in 1 .. Len(olds) : i < j => olds[i] > olds[j]
    /\ \A i \in 1 .. Len(olds) : ids[i] = Began(now, olds[i])

\* What the container always is.
CInv == Listed(time, table, ages)

\* The signed difference of two identifiers is the difference of their ages.
LEMMA CompareAges ==
    ASSUME YoungEnough, NEW now \in 0 .. Word - 1, NEW a \in 0 .. MaxAge, NEW b \in 0 .. MaxAge
    PROVE  Compare(Began(now, a), Began(now, b)) = b - a
<1> DEFINE half == Word \div 2
           d == b - a
           x == Began(now, a) - Began(now, b)
<1>1. /\ Word \in Nat /\ Word > 0 /\ half \in Nat /\ half < Word
      /\ d \in Int /\ d < half /\ - d < half /\ half + half <= Word
  BY DEF YoungEnough
<1>2. x \in Int /\ -Word < x /\ x < Word /\ (x = d \/ x = d + Word \/ x = d - Word)
  BY <1>1 DEF YoungEnough, Began
<1>3. x % Word = IF d >= 0 THEN d ELSE d + Word
  <2> HIDE DEF x, d, half
  <2> QED BY <1>1, <1>2
<1>4. Compare(Began(now, a), Began(now, b)) = IF x % Word < half THEN x % Word ELSE (x % Word) - Word
  BY DEF Compare
<1> HIDE DEF x, half
<1> QED BY <1>1, <1>3, <1>4

\* What it means to be listed, transaction by transaction.
LEMMA Listings ==
    ASSUME NEW now, NEW ids, NEW olds, Listed(now, ids, olds)
    PROVE  /\ now \in 0 .. Word - 1 /\ Len(olds) \in Nat /\ Len(ids) = Len(olds)
           /\ ids \in Seq(0 .. Word - 1) /\ olds \in Seq(0 .. MaxAge)
           /\ \A i, j \in 1 .. Len(olds) : i < j => olds[i] > olds[j]
           /\ \A i \in 1 .. Len(olds) : ids[i] = Began(now, olds[i])
           /\ \A i \in 1 .. Len(olds) : olds[i] \in 0 .. MaxAge
<1>1. olds \in Seq(0 .. MaxAge)
  BY DEF Listed
<1>2. Len(olds) \in Nat /\ \A i \in 1 .. Len(olds) : olds[i] \in 0 .. MaxAge
  <2> DEFINE S == 0 .. MaxAge
  <2>1. olds \in Seq(S)
    BY <1>1
  <2> HIDE DEF S
  <2>2. Len(olds) \in Nat /\ \A i \in 1 .. Len(olds) : olds[i] \in S
    BY <2>1, ElementOfSeq
  <2> QED BY <2>2 DEF S
<1> QED BY <1>2, Zenon DEF Listed

\* Every transaction of the list is found at its place.
LEMMA Found ==
    ASSUME YoungEnough, NEW now, NEW ids, NEW olds, Listed(now, ids, olds), NEW i \in 1 .. Len(ids)
    PROVE  Search(ids, ids[i]) = <<TRUE, i>>
<1> DEFINE K == i - 1
           Hit == TRUE
<1>1. /\ Len(ids) \in Nat /\ i \in Nat /\ K \in 0 .. Len(ids)
      /\ K + 1 = i /\ Hit \in BOOLEAN /\ (Hit => K < Len(ids))
  BY DEF Listed
<1>2. ASSUME NEW m \in 1 .. Len(ids)
      PROVE  /\ Compare(ids[i], ids[m]) \in Int
             /\ Compare(ids[i], ids[m]) > 0 <=> m <= K
             /\ Compare(ids[i], ids[m]) = 0 <=> Hit /\ m = K + 1
  <2>1. /\ i \in 1 .. Len(olds) /\ m \in 1 .. Len(olds) /\ olds[i] \in 0 .. MaxAge /\ olds[m] \in 0 .. MaxAge
        /\ ids[i] = Began(now, olds[i]) /\ ids[m] = Began(now, olds[m])
    <3>1. /\ Len(ids) = Len(olds) /\ \A j \in 1 .. Len(olds) : ids[j] = Began(now, olds[j])
          /\ \A j \in 1 .. Len(olds) : olds[j] \in 0 .. MaxAge
      BY Listings
    <3> QED BY <3>1
  <2>2. Compare(ids[i], ids[m]) = olds[m] - olds[i]
    BY <2>1, CompareAges DEF Listed
  <2>3. (m < i => olds[m] > olds[i]) /\ (i < m => olds[i] > olds[m])
    <3>1. \A j, k \in 1 .. Len(olds) : j < k => olds[j] > olds[k]
      BY DEF Listed
    <3> QED BY <2>1, <3>1
  <2> QED BY <1>1, <2>1, <2>2, <2>3 DEF YoungEnough
<1>3. Search(ids, ids[i]) = <<Hit, K + 1>>
  <2> HIDE DEF K, Hit
  <2> QED BY <1>1, <1>2, SearchIs
<1> QED BY <1>1, <1>3

\* An identifier of this instant is found only if a transaction began in it;
\* otherwise its place is at the end.
LEMMA NewAtTheEnd ==
    ASSUME YoungEnough, NEW now, NEW ids, NEW olds, Listed(now, ids, olds),
           ~Search(ids, now)[1]
    PROVE  /\ InsertPlace(ids, now) = Len(ids) + 1
           /\ \A i \in 1 .. Len(olds) : olds[i] > 0
<1>0. Len(ids) \in Nat /\ Len(olds) = Len(ids) /\ now \in 0 .. Word - 1 /\ 0 \in 0 .. MaxAge
  BY DEF Listed, YoungEnough
<1>1. now = Began(now, 0)
  BY <1>0 DEF Began
<1>2. \A i \in 1 .. Len(olds) : olds[i] > 0
  <2> SUFFICES ASSUME NEW i \in 1 .. Len(olds), ~ (olds[i] > 0) PROVE FALSE
    OBVIOUS
  <2>1. olds[i] \in 0 .. MaxAge /\ i \in 1 .. Len(ids) /\ ids[i] = Began(now, olds[i])
    BY <1>0, Listings
  <2>2. ids[i] = now
    BY <1>0, <1>1, <2>1
  <2>3. Search(ids, now) = <<TRUE, i>>
    BY <2>1, <2>2, Found
  <2> QED BY <2>3
<1> DEFINE Hit == FALSE
           K == Len(ids)
<1>3. Hit \in BOOLEAN /\ (Hit => K < Len(ids)) /\ K \in 0 .. Len(ids)
  BY <1>0
<1>4. ASSUME NEW m \in 1 .. Len(ids)
      PROVE  /\ Compare(now, ids[m]) \in Int
             /\ Compare(now, ids[m]) > 0 <=> m <= K
             /\ Compare(now, ids[m]) = 0 <=> Hit /\ m = K + 1
  <2>1. olds[m] \in 0 .. MaxAge /\ ids[m] = Began(now, olds[m]) /\ olds[m] > 0
    BY <1>0, <1>2, Listings
  <2>2. Compare(now, ids[m]) = olds[m] - 0
    BY <1>0, <1>1, <2>1, CompareAges
  <2> QED BY <1>0, <2>1, <2>2
<1>5. Search(ids, now) = <<Hit, K + 1>>
  <2> HIDE DEF K, Hit
  <2> QED BY <1>0, <1>3, <1>4, SearchIs
<1> QED BY <1>2, <1>5 DEF InsertPlace

\* A transaction that begins now is the newest of the list.
LEMMA ListedAppend ==
    ASSUME YoungEnough, NEW now, NEW ids, NEW olds, Listed(now, ids, olds),
           \A i \in 1 .. Len(olds) : olds[i] > 0
    PROVE  Listed(now, Append(ids, now), Append(olds, 0))
<1> DEFINE N == Len(olds)
           U == Append(ids, now)
           V == Append(olds, 0)
<1>1. /\ now \in 0 .. Word - 1 /\ 0 \in 0 .. MaxAge /\ N \in Nat /\ Len(ids) = N
      /\ ids \in Seq(0 .. Word - 1) /\ olds \in Seq(0 .. MaxAge)
      /\ \A i, j \in 1 .. N : i < j => olds[i] > olds[j]
      /\ \A i \in 1 .. N : ids[i] = Began(now, olds[i])
  BY DEF Listed, YoungEnough
<1>2. /\ U \in Seq(0 .. Word - 1) /\ Len(U) = N + 1
      /\ U[N + 1] = now /\ \A i \in 1 .. N : U[i] = ids[i]
  <2> HIDE DEF N
  <2> QED BY <1>1, AppendProperties
<1>3. /\ V \in Seq(0 .. MaxAge) /\ Len(V) = N + 1
      /\ V[N + 1] = 0 /\ \A i \in 1 .. N : V[i] = olds[i]
  BY <1>1, AppendProperties
<1>4. now = Began(now, 0)
  BY <1>1 DEF Began
<1> HIDE DEF N, U, V
<1>5. ASSUME NEW i \in 1 .. N + 1, NEW j \in 1 .. N + 1, i < j PROVE V[i] > V[j]
  <2>1. i \in 1 .. N /\ V[i] = olds[i]
    BY <1>1, <1>3, <1>5
  <2>2. CASE j = N + 1
    BY <1>3, <2>1, <2>2 DEF N
  <2>3. CASE j \in 1 .. N
    BY <1>1, <1>3, <1>5, <2>1, <2>3
  <2> QED BY <1>1, <2>2, <2>3
<1>6. ASSUME NEW i \in 1 .. N + 1 PROVE U[i] = Began(now, V[i])
  <2>1. CASE i = N + 1
    BY <1>2, <1>3, <1>4, <2>1
  <2>2. CASE i \in 1 .. N
    BY <1>1, <1>2, <1>3, <2>2
  <2> QED BY <1>1, <2>1, <2>2
<1> QED BY <1>1, <1>2, <1>3, <1>5, <1>6 DEF Listed, U, V

\* The list without one of its transactions.
LEMMA ListedRemove ==
    ASSUME NEW now, NEW ids, NEW olds, Listed(now, ids, olds), NEW i \in 1 .. Len(ids)
    PROVE  Listed(now, RemoveAt(ids, i), RemoveAt(olds, i))
<1> DEFINE N == Len(ids)
           U == RemoveAt(ids, i)
           V == RemoveAt(olds, i)
           from(j) == IF j < i THEN j ELSE j + 1
<1>1. /\ now \in 0 .. Word - 1 /\ N \in Nat /\ Len(olds) = N /\ i \in 1 .. N
      /\ ids \in Seq(0 .. Word - 1) /\ olds \in Seq(0 .. MaxAge)
      /\ \A j, k \in 1 .. N : j < k => olds[j] > olds[k]
      /\ \A j \in 1 .. N : ids[j] = Began(now, olds[j])
  BY DEF Listed
<1>2. /\ U \in Seq(0 .. Word - 1) /\ Len(U) = N - 1
      /\ \A j \in 1 .. N - 1 : U[j] = ids[from(j)]
  <2>1. i \in 1 .. Len(ids)
    OBVIOUS
  <2> HIDE DEF N
  <2>2. /\ U \in Seq(0 .. Word - 1) /\ Len(U) = Len(ids) - 1
        /\ \A j \in 1 .. Len(ids) - 1 : U[j] = IF j < i THEN ids[j] ELSE ids[j + 1]
    BY <1>1, <2>1, RemovedAt
  <2> HIDE DEF U
  <2> QED BY <2>2 DEF N
<1>3. /\ V \in Seq(0 .. MaxAge) /\ Len(V) = N - 1
      /\ \A j \in 1 .. N - 1 : V[j] = olds[from(j)]
  <2>1. i \in 1 .. Len(olds) /\ Len(olds) = N
    BY <1>1
  <2> HIDE DEF N
  <2>2. /\ V \in Seq(0 .. MaxAge) /\ Len(V) = Len(olds) - 1
        /\ \A j \in 1 .. Len(olds) - 1 : V[j] = IF j < i THEN olds[j] ELSE olds[j + 1]
    <3>1. olds \in Seq(0 .. MaxAge) /\ i \in 1 .. Len(olds)
      BY <1>1, <2>1
    <3> QED BY <3>1, RemovedAt
  <2> HIDE DEF V
  <2> QED BY <2>1, <2>2
<1> HIDE DEF N, U, V
<1>4. ASSUME NEW j \in 1 .. N - 1, NEW k \in 1 .. N - 1, j < k PROVE V[j] > V[k]
  <2>1. from(j) \in 1 .. N /\ from(k) \in 1 .. N /\ from(j) < from(k)
    BY <1>1, <1>4
  <2> HIDE DEF from
  <2> QED BY <1>1, <1>3, <2>1
<1>5. ASSUME NEW j \in 1 .. N - 1 PROVE U[j] = Began(now, V[j])
  <2>1. from(j) \in 1 .. N
    BY <1>1
  <2> HIDE DEF from
  <2> QED BY <1>1, <1>2, <1>3, <2>1
<1> QED BY <1>1, <1>2, <1>3, <1>4, <1>5 DEF Listed, U, V

\* The list one tick later.
LEMMA ListedTick ==
    ASSUME YoungEnough, NEW now, NEW ids, NEW olds, Listed(now, ids, olds),
           \A i \in 1 .. Len(olds) : olds[i] < MaxAge
    PROVE  Listed((now + 1) % Word, ids, [i \in 1 .. Len(olds) |-> olds[i] + 1])
<1> DEFINE N == Len(olds)
           next == (now + 1) % Word
           V == [i \in 1 .. N |-> olds[i] + 1]
<1>1. /\ now \in 0 .. Word - 1 /\ N \in Nat /\ Len(ids) = N
      /\ ids \in Seq(0 .. Word - 1) /\ olds \in Seq(0 .. MaxAge)
      /\ \A i, j \in 1 .. N : i < j => olds[i] > olds[j]
      /\ \A i \in 1 .. N : ids[i] = Began(now, olds[i])
      /\ \A i \in 1 .. N : olds[i] \in 0 .. MaxAge
  BY Listings
<1>2. next \in 0 .. Word - 1 /\ next = IF now + 1 = Word THEN 0 ELSE now + 1
  <2>1. Word \in Nat \ {0} /\ now + 1 \in 1 .. Word
    BY <1>1 DEF YoungEnough
  <2>2. CASE now + 1 = Word
    <3>1. Word % Word = 0
      BY <2>1
    <3> QED BY <2>1, <2>2, <3>1
  <2>3. CASE now + 1 < Word
    <3> DEFINE x == now + 1
    <3>1. x \in 0 .. Word - 1
      BY <2>1, <2>3
    <3>2. x % Word = x
      <4> HIDE DEF x
      <4> QED BY <2>1, <3>1
    <3> QED BY <2>1, <2>3, <3>1, <3>2
  <2> QED BY <2>1, <2>2, <2>3
<1>3. /\ V \in Seq(0 .. MaxAge) /\ Len(V) = N
      /\ \A i \in 1 .. N : V[i] = olds[i] + 1
  <2>1. \A i \in 1 .. N : olds[i] + 1 \in 0 .. MaxAge
    BY <1>1 DEF YoungEnough
  <2> HIDE DEF N
  <2> QED BY <1>1, <2>1
<1> HIDE DEF next, V
<1>4. ASSUME NEW i \in 1 .. N PROVE ids[i] = Began(next, V[i])
  <2>1. olds[i] \in 0 .. MaxAge /\ olds[i] < MaxAge /\ V[i] = olds[i] + 1 /\ ids[i] = Began(now, olds[i])
    BY <1>1, <1>3
  <2> DEFINE a == olds[i]
  <2>2. Began(next, a + 1) = Began(now, a)
    <3>1. a \in Nat /\ a + 1 < Word /\ Word \in Nat
      BY <2>1 DEF YoungEnough
    <3> HIDE DEF a
    <3> QED BY <1>1, <1>2, <3>1 DEF Began
  <2> QED BY <2>1, <2>2
<1>5. ASSUME NEW i \in 1 .. N, NEW j \in 1 .. N, i < j PROVE V[i] > V[j]
  BY <1>1, <1>3, <1>5 DEF YoungEnough
<1> HIDE DEF N
<1> QED BY <1>1, <1>2, <1>3, <1>4, <1>5 DEF Listed, next, V, N

\* The container stays in order, whatever is created and released.
LEMMA ContainerStep ==
    ASSUME YoungEnough, CInv, [Next]_(vars)
    PROVE  CInv'
<1> DEFINE N == Len(table)
<1>0. /\ N \in Nat /\ Len(ages) = N /\ time \in 0 .. Word - 1 /\ 0 \in 0 .. MaxAge
      /\ DOMAIN table = 1 .. N /\ DOMAIN ages = 1 .. N
      /\ table \in Seq(0 .. Word - 1) /\ ages \in Seq(0 .. MaxAge)
  BY DEF CInv, Listed, YoungEnough
<1>1. CASE Create
  <2>1. InsertPlace(table, time) = N + 1 /\ \A i \in 1 .. Len(ages) : ages[i] > 0
    BY <1>1, NewAtTheEnd DEF Create, CInv
  <2>2. /\ table' = SubSeq(table, 1, N + 1 - 1) \o <<time>> \o SubSeq(table, N + 1, N)
        /\ ages' = SubSeq(ages, 1, N + 1 - 1) \o <<0>> \o SubSeq(ages, N + 1, Len(ages))
        /\ time' = time
    <3> HIDE DEF N
    <3> QED BY <1>1, <2>1 DEF Create, InsertAt, N
  <2>3. N + 1 - 1 = N
    BY <1>0
  <2>4. table' = Append(table, time)
    BY <1>0, <2>2, <2>3, AppendedAt
  <2>5. ages' = Append(ages, 0)
    <3> HIDE DEF N
    <3> QED BY <1>0, <2>2, <2>3, AppendedAt
  <2> QED BY <2>1, <2>2, <2>4, <2>5, ListedAppend DEF CInv
<1>2. CASE Release
  <2>1. PICK i \in 1 .. N :
            LET pos == Search(table, table[i])[2] IN
            /\ table' = RemoveAt(table, pos)
            /\ ages' = RemoveAt(ages, pos)
            /\ time' = time
    BY <1>0, <1>2 DEF Release
  <2>2. Search(table, table[i])[2] = i
    <3>1. Search(table, table[i]) = <<TRUE, i>>
      BY Found DEF CInv
    <3> QED BY <3>1
  <2>3. table' = RemoveAt(table, i) /\ ages' = RemoveAt(ages, i)
    BY <2>1, <2>2
  <2> QED BY <2>1, <2>3, ListedRemove DEF CInv
<1>3. CASE Tick
  <2>1. /\ time' = (time + 1) % Word /\ table' = table
        /\ ages' = [i \in 1 .. Len(ages) |-> ages[i] + 1]
        /\ \A i \in 1 .. Len(ages) : ages[i] < MaxAge
    BY <1>0, <1>3 DEF Tick
  <2> QED BY <2>1, ListedTick DEF CInv
<1>4. CASE UNCHANGED vars
  BY <1>4 DEF vars, CInv
<1> QED BY <1>1, <1>2, <1>3, <1>4 DEF Next

\* The container lists the active transactions from the oldest to the newest.
THEOREM ContainerInvariance == MaxAge < Word \div 2 => (Spec => []CInv)
<1> SUFFICES ASSUME YoungEnough PROVE Spec => []CInv
  BY WordAssumption, AgeAssumption DEF YoungEnough
<1>1. Init => CInv
  BY DEF Init, CInv, Listed, YoungEnough
<1>2. CInv /\ [Next]_(vars) => CInv'
  BY ContainerStep
<1> QED BY <1>1, <1>2, PTL DEF Spec

\* The container holds identifiers, and an age for each, within the same bound on ages.
THEOREM ContainerTypeCorrect == MaxAge < Word \div 2 => (Spec => []TypeOK)
<1> SUFFICES ASSUME YoungEnough PROVE Spec => []TypeOK
  BY WordAssumption, AgeAssumption DEF YoungEnough
<1>1. CInv => TypeOK
  <2> SUFFICES ASSUME CInv PROVE TypeOK
    OBVIOUS
  <2>1. /\ time \in 0 .. Word - 1 /\ table \in Seq(0 .. Word - 1)
        /\ ages \in Seq(0 .. MaxAge) /\ DOMAIN table = 1 .. Len(ages)
    BY DEF CInv, Listed
  <2>2. ages \in [1 .. Len(ages) -> 0 .. MaxAge]
    BY <2>1, LenProperties
  <2> QED BY <2>1, <2>2 DEF TypeOK
<1>2. MaxAge < Word \div 2
  BY DEF YoungEnough
<1> QED BY <1>1, <1>2, ContainerInvariance, PTL

\* CStsServer::ReleaseTransactionL asserts that FindActiveTransaction returns a
\* position: while no transaction is older than half the range of the clock word
\* the binary search finds every active transaction, at its own place.
THEOREM YoungAreFound == MaxAge < Word \div 2 => (Spec => []EveryActiveFound)
<1> SUFFICES ASSUME YoungEnough PROVE Spec => []EveryActiveFound
  BY WordAssumption, AgeAssumption DEF YoungEnough
<1>1. CInv => EveryActiveFound
  <2> SUFFICES ASSUME CInv, NEW i \in DOMAIN table
               PROVE  Search(table, table[i]) = <<TRUE, i>>
    BY DEF EveryActiveFound
  <2>1. i \in 1 .. Len(table)
    BY DEF CInv, Listed
  <2> QED BY <2>1, Found DEF CInv
<1>2. MaxAge < Word \div 2
  BY DEF YoungEnough
<1> QED BY <1>1, <1>2, ContainerInvariance, PTL
===============================================================================
