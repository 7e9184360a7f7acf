--------------------- MODULE DirectMessageHistoryProofs ---------------------
(***************************************************************************)
(* Proofs about DirectMessageHistory, for any finite conversation, any page *)
(* size and any number of failing requests: the page implements MessageFeed, *)
(* and a message feed shows nothing twice and skips nothing.                *)
(***************************************************************************)
EXTENDS DirectMessageHistory, FiniteSetTheorems, WellFoundedInduction, TLAPS

-----------------------------------------------------------------------------
(* Sets of numbers in order *)

Below(S, m) == {k \in S : k < m}

\* How many members of a set come before one of them tells them apart.
LEMMA RankFacts ==
  ASSUME NEW S \in SUBSET Nat, IsFiniteSet(S)
  PROVE  /\ \A m \in S : Cardinality(Below(S, m)) \in 0 .. Cardinality(S) - 1
         /\ \A m, n \in S : m < n => Cardinality(Below(S, m)) < Cardinality(Below(S, n))
<1>1. Cardinality(S) \in Nat
  BY FS_CardinalityType
<1>2. ASSUME NEW A \in SUBSET S, NEW B \in SUBSET A, NEW x \in A, x \notin B
      PROVE  /\ Cardinality(A) \in Nat /\ Cardinality(B) \in Nat
             /\ Cardinality(B) < Cardinality(A)
  <2>1. IsFiniteSet(A)
    BY FS_Subset
  <2>2. IsFiniteSet(B) /\ Cardinality(B) =< Cardinality(A) /\ (Cardinality(A) = Cardinality(B) => A = B)
    BY <2>1, FS_Subset
  <2>3. Cardinality(A) \in Nat /\ Cardinality(B) \in Nat
    BY <2>1, <2>2, FS_CardinalityType
  <2> QED
    BY <1>2, <2>2, <2>3
<1>3. ASSUME NEW m \in S PROVE Cardinality(Below(S, m)) \in 0 .. Cardinality(S) - 1
  <2>1. S \in SUBSET S /\ Below(S, m) \in SUBSET S /\ m \notin Below(S, m)
    BY DEF Below
  <2> QED
    BY <1>1, <1>2, <2>1
<1>4. ASSUME NEW m \in S, NEW n \in S, m < n
      PROVE  Cardinality(Below(S, m)) < Cardinality(Below(S, n))
  <2>0. m \in Nat /\ n \in Nat /\ \A k \in S : k \in Nat
    OBVIOUS
  <2>1. Below(S, n) \in SUBSET S /\ Below(S, m) \in SUBSET Below(S, n)
    <3>1. \A k \in S : k < m => k < n
      BY <1>4, <2>0
    <3> QED
      BY <3>1 DEF Below
  <2>2. m \in Below(S, n) /\ m \notin Below(S, m)
    BY <1>4 DEF Below
  <2> QED
    BY <1>2, <2>1, <2>2
<1> QED
  BY <1>3, <1>4

\* InOrder(S) lists the members of S, each once.
LEMMA InOrderFacts ==
  ASSUME NEW S \in SUBSET Nat, IsFiniteSet(S)
  PROVE  /\ InOrder(S) \in [1 .. Cardinality(S) -> S]
         /\ \A i, j \in 1 .. Cardinality(S) : InOrder(S)[i] = InOrder(S)[j] => i = j
         /\ \A m \in S : \E i \in 1 .. Cardinality(S) : InOrder(S)[i] = m
<1> DEFINE n == Cardinality(S)
           rank(m) == Cardinality(Below(S, m))
           f == [m \in S |-> rank(m) + 1]
<1>1. n \in Nat
  BY FS_CardinalityType
<1>2. /\ \A m \in S : rank(m) \in 0 .. n - 1
      /\ \A m, k \in S : m < k => rank(m) < rank(k)
  BY RankFacts
<1>3. \A m, k \in S : rank(m) = rank(k) => m = k
  <2>1. \A m, k \in S : m \in Nat /\ k \in Nat /\ rank(m) \in Nat /\ rank(k) \in Nat
    BY <1>1, <1>2
  <2> HIDE DEF rank
  <2> QED
    BY <1>2, <2>1
<1>4. f \in Injection(S, 1 .. n)
  <2>1. f \in [S -> 1 .. n]
    <3> HIDE DEF rank
    <3> QED
      BY <1>1, <1>2
  <2>2. \A m, k \in S : f[m] = f[k] => m = k
    <3> HIDE DEF rank
    <3> QED
      BY <1>1, <1>2, <1>3
  <2> HIDE DEF f
  <2> QED
    BY <2>1, <2>2 DEF Injection, IsInjective
<1>5. f \in Surjection(S, 1 .. n)
  <2>1. IsFiniteSet(1 .. n) /\ Cardinality(1 .. n) = n
    BY <1>1, FS_Interval
  <2> HIDE DEF f
  <2> QED
    BY <1>4, <2>1, FS_Injection
<1>6. \A i \in 1 .. n : \E m \in S : f[m] = i
  <2> HIDE DEF f
  <2> QED
    BY <1>5 DEF Surjection
<1>7. \A i \in 1 .. n : \E m \in S : rank(m) = i - 1
  <2> HIDE DEF rank
  <2> QED
    BY <1>1, <1>2, <1>6
<1> DEFINE at(i) == CHOOSE m \in S : rank(m) = i - 1
<1>8. InOrder(S) = [i \in 1 .. n |-> at(i)]
  BY DEF InOrder, Below
<1> HIDE DEF rank, n
<1>9. \A i \in 1 .. n : at(i) \in S /\ rank(at(i)) = i - 1
  BY <1>7
<1> HIDE DEF at
<1>10. \A i \in 1 .. n : InOrder(S)[i] \in S /\ rank(InOrder(S)[i]) = i - 1
  BY <1>8, <1>9
<1>11. InOrder(S) \in [1 .. n -> S]
  BY <1>8, <1>9
<1>12. \A i, j \in 1 .. n : InOrder(S)[i] = InOrder(S)[j] => i = j
  BY <1>1, <1>10
<1>13. ASSUME NEW m \in S PROVE \E i \in 1 .. n : InOrder(S)[i] = m
  <2>1. PICK i \in 1 .. n : i - 1 = rank(m)
    <3>1. rank(m) + 1 \in 1 .. n /\ (rank(m) + 1) - 1 = rank(m)
      BY <1>1, <1>2
    <3> QED
      BY <3>1
  <2>2. rank(InOrder(S)[i]) = rank(m) /\ InOrder(S)[i] \in S
    BY <1>10, <2>1
  <2> QED
    BY <1>3, <2>2
<1> QED
  BY <1>11, <1>12, <1>13 DEF n

\* A set of natural numbers has a least one.
LEMMA NatLeast ==
  ASSUME NEW T, T \subseteq Nat, T # {}
  PROVE  \E x \in T : \A y \in T : x =< y
<1> DEFINE R == OpToRel(<, Nat)
<1>1. IsWellFoundedOn(R, Nat)
  BY NatLessThanWellFounded
<1>2. PICK x \in T : \A y \in T : ~ (<<y, x>> \in R)
  BY <1>1, WFMin, Zenon
<1>3. ASSUME NEW y \in T PROVE x =< y
  <2>1. <<y, x>> \in Nat \X Nat
    OBVIOUS
  <2>2. y < x => <<y, x>> \in R
    BY <2>1 DEF OpToRel
  <2>3. ~ (y < x)
    BY <1>2, <2>2, Zenon
  <2> QED
    BY <2>3
<1> QED
  BY <1>3

Above(S, m) == {k \in S : m < k}

\* The newest members of a set: nothing above one of them is left out, and there
\* is one if the set is not empty.
LEMMA NewestFacts ==
  ASSUME NEW S \in SUBSET Nat, IsFiniteSet(S)
  PROVE  /\ Newest(S, PageSize) \subseteq S
         /\ \A m \in Newest(S, PageSize) : \A k \in S : m < k => k \in Newest(S, PageSize)
         /\ S # {} => Newest(S, PageSize) # {}
<1>1. PageSize \in Nat /\ PageSize > 0
  BY PageAssumption
<1>2. \A m \in S : m \in Newest(S, PageSize) <=> Cardinality(Above(S, m)) < PageSize
  BY DEF Newest, Above
<1>3. \A m \in S : Cardinality(Above(S, m)) \in Nat
  <2> SUFFICES ASSUME NEW m \in S PROVE Cardinality(Above(S, m)) \in Nat
    OBVIOUS
  <2>1. Above(S, m) \in SUBSET S
    BY DEF Above
  <2> QED
    BY <2>1, FS_Subset, FS_CardinalityType
<1>4. ASSUME NEW m \in S, NEW k \in S, m < k
      PROVE  Cardinality(Above(S, k)) < Cardinality(Above(S, m))
  <2>0. m \in Nat /\ k \in Nat /\ \A x \in S : x \in Nat
    OBVIOUS
  <2>1. Above(S, k) \in SUBSET Above(S, m) /\ Above(S, m) \in SUBSET S
    <3>1. \A x \in S : k < x => m < x
      BY <1>4, <2>0
    <3> QED
      BY <3>1 DEF Above
  <2>2. k \in Above(S, m) /\ k \notin Above(S, k)
    BY <1>4 DEF Above
  <2>3. IsFiniteSet(Above(S, m))
    BY <2>1, FS_Subset
  <2>4. /\ Cardinality(Above(S, k)) =< Cardinality(Above(S, m))
        /\ Cardinality(Above(S, k)) = Cardinality(Above(S, m)) => Above(S, k) = Above(S, m)
    BY <2>1, <2>3, FS_Subset
  <2> QED
    BY <1>3, <2>2, <2>4
<1>5. Newest(S, PageSize) \subseteq S
  BY DEF Newest
<1>6. ASSUME NEW m \in Newest(S, PageSize), NEW k \in S, m < k
      PROVE  k \in Newest(S, PageSize)
  <2>1. m \in S /\ Cardinality(Above(S, m)) < PageSize
    BY <1>2, <1>5
  <2>2. Cardinality(Above(S, k)) < Cardinality(Above(S, m))
    BY <1>4, <1>6, <2>1
  <2>3. Cardinality(Above(S, k)) < PageSize
    BY <1>1, <1>3, <2>1, <2>2
  <2> QED
    BY <1>2, <2>3
<1>7. ASSUME S # {} PROVE Newest(S, PageSize) # {}
  <2> DEFINE T == {Cardinality(Above(S, m)) : m \in S}
  <2>1. T \subseteq Nat /\ T # {}
    BY <1>3, <1>7
  <2>2. PICK x \in T : \A y \in T : x =< y
    <3> HIDE DEF T
    <3> QED
      BY <2>1, NatLeast
  <2>3. PICK m \in S : x = Cardinality(Above(S, m))
    BY <2>2
  <2>4. \A k \in S : x =< Cardinality(Above(S, k))
    BY <2>2
  <2>5. Above(S, m) = {}
    <3> SUFFICES ASSUME NEW k \in Above(S, m) PROVE FALSE
      OBVIOUS
    <3>1. k \in S /\ m < k
      BY DEF Above
    <3>2. x \in Nat /\ Cardinality(Above(S, k)) \in Nat
      BY <1>3, <2>3, <3>1
    <3> QED
      BY <1>4, <2>3, <2>4, <3>1, <3>2
  <2>6. x = 0
    BY <2>3, <2>5, FS_EmptySet
  <2> QED
    BY <1>1, <1>2, <2>3, <2>6
<1> QED
  BY <1>5, <1>6, <1>7

-----------------------------------------------------------------------------
(* Sequences *)

\* The sequence InOrder(S).
LEMMA InOrderSeq ==
  ASSUME NEW M \in SUBSET Nat, NEW S \in SUBSET M, IsFiniteSet(S)
  PROVE  /\ InOrder(S) \in Seq(M) /\ Len(InOrder(S)) = Cardinality(S)
         /\ Range(InOrder(S)) = S /\ IsInjective(InOrder(S))
<1>1. Cardinality(S) \in Nat
  BY FS_CardinalityType
<1>2. /\ InOrder(S) \in [1 .. Cardinality(S) -> S]
      /\ \A i, j \in 1 .. Cardinality(S) : InOrder(S)[i] = InOrder(S)[j] => i = j
      /\ \A m \in S : \E i \in 1 .. Cardinality(S) : InOrder(S)[i] = m
  BY InOrderFacts
<1>3. DOMAIN InOrder(S) = 1 .. Cardinality(S)
  BY <1>2
<1>4. InOrder(S) \in Seq(M) /\ Len(InOrder(S)) = Cardinality(S)
  <2> DEFINE n == Cardinality(S)
             s == InOrder(S)
  <2>1. n \in Nat /\ s \in [1 .. n -> M]
    BY <1>1, <1>2
  <2> HIDE DEF n, s
  <2>2. s \in Seq(M) /\ Len(s) = n
    BY <2>1
  <2> QED
    BY <2>2 DEF n, s
<1>5. Range(InOrder(S)) = S
  <2>1. \A i \in DOMAIN InOrder(S) : InOrder(S)[i] \in S
    BY <1>2, <1>3
  <2>2. \A m \in S : \E i \in DOMAIN InOrder(S) : InOrder(S)[i] = m
    BY <1>2, <1>3
  <2> QED
    BY <2>1, <2>2 DEF Range
<1>6. IsInjective(InOrder(S))
  BY <1>2, <1>3 DEF IsInjective
<1> QED
  BY <1>4, <1>5, <1>6

\* One page after another.
LEMMA ConcatFacts ==
  ASSUME NEW M, NEW s \in Seq(M), NEW t \in Seq(M)
  PROVE  /\ s \o t \in Seq(M)
         /\ Range(s \o t) = Range(s) \cup Range(t)
         /\ IsInjective(s) /\ IsInjective(t) /\ Range(s) \cap Range(t) = {}
              => IsInjective(s \o t)
<1>1. s \o t \in Seq(M) /\ Len(s \o t) = Len(s) + Len(t) /\ Len(s) \in Nat /\ Len(t) \in Nat
  OBVIOUS
<1>2. /\ DOMAIN s = 1 .. Len(s) /\ DOMAIN t = 1 .. Len(t)
      /\ DOMAIN (s \o t) = 1 .. Len(s) + Len(t)
  BY <1>1
<1>3. /\ \A i \in 1 .. Len(s) : (s \o t)[i] = s[i]
      /\ \A i \in 1 .. Len(t) : (s \o t)[Len(s) + i] = t[i]
  OBVIOUS
<1>4. ASSUME NEW i \in 1 .. Len(s) + Len(t), i \notin 1 .. Len(s)
      PROVE  i - Len(s) \in 1 .. Len(t) /\ i = Len(s) + (i - Len(s))
  BY <1>1, <1>4
<1>5. \A i \in 1 .. Len(s) + Len(t) : (s \o t)[i] \in Range(s) \cup Range(t)
  <2> SUFFICES ASSUME NEW i \in 1 .. Len(s) + Len(t) PROVE (s \o t)[i] \in Range(s) \cup Range(t)
    OBVIOUS
  <2>1. CASE i \in 1 .. Len(s)
    BY <1>2, <1>3, <2>1 DEF Range
  <2>2. CASE i \notin 1 .. Len(s)
    BY <1>2, <1>3, <1>4, <2>2 DEF Range
  <2> QED
    BY <2>1, <2>2
<1>6. /\ \A i \in 1 .. Len(s) : i \in DOMAIN (s \o t)
      /\ \A i \in 1 .. Len(t) : Len(s) + i \in DOMAIN (s \o t)
  BY <1>1, <1>2
<1>7. Range(s) \cup Range(t) \subseteq Range(s \o t)
  BY <1>2, <1>3, <1>6 DEF Range
<1>8. Range(s \o t) = Range(s) \cup Range(t)
  BY <1>2, <1>5, <1>7 DEF Range
<1>9. ASSUME IsInjective(s), IsInjective(t), Range(s) \cap Range(t) = {}
      PROVE  IsInjective(s \o t)
  <2> SUFFICES ASSUME NEW i \in 1 .. Len(s) + Len(t), NEW j \in 1 .. Len(s) + Len(t),
                      (s \o t)[i] = (s \o t)[j]
               PROVE  i = j
    BY <1>2 DEF IsInjective
  <2>1. CASE i \in 1 .. Len(s) /\ j \in 1 .. Len(s)
    BY <1>2, <1>3, <1>9, <2>1 DEF IsInjective
  <2>2. CASE i \notin 1 .. Len(s) /\ j \notin 1 .. Len(s)
    <3>1. t[i - Len(s)] = t[j - Len(s)]
      BY <1>3, <1>4, <2>2
    <3>2. i - Len(s) = j - Len(s)
      BY <1>2, <1>4, <1>9, <2>2, <3>1 DEF IsInjective
    <3> QED
      BY <1>1, <3>2
  <2>3. CASE i \in 1 .. Len(s) /\ j \notin 1 .. Len(s)
    <3>1. (s \o t)[i] \in Range(s) /\ (s \o t)[j] \in Range(t)
      BY <1>2, <1>3, <1>4, <2>3 DEF Range
    <3> QED
      BY <1>9, <3>1
  <2>4. CASE i \notin 1 .. Len(s) /\ j \in 1 .. Len(s)
    <3>1. (s \o t)[j] \in Range(s) /\ (s \o t)[i] \in Range(t)
      BY <1>2, <1>3, <1>4, <2>4 DEF Range
    <3> QED
      BY <1>9, <3>1
  <2> QED
    BY <2>1, <2>2, <2>3, <2>4
<1> QED
  BY <1>1, <1>8, <1>9

\* What beforeOlderMerge leaves of an answer: the messages not on the page, each as
\* often as the answer has it.
LEMMA KeptFacts ==
  ASSUME NEW s \in Seq(Msg)
  PROVE  /\ beforeOlderMerge(s) \in Seq(Msg)
         /\ Range(beforeOlderMerge(s)) = Range(s) \ Range(dom)
         /\ IsInjective(s) => IsInjective(beforeOlderMerge(s))
<1> DEFINE I == {i \in DOMAIN s : s[i] \notin Range(dom)}
           k == beforeOlderMerge(s)
<1>1. DOMAIN s = 1 .. Len(s) /\ Len(s) \in Nat
  OBVIOUS
<1>2. I \in SUBSET (1 .. Len(s)) /\ IsFiniteSet(1 .. Len(s))
  BY <1>1, FS_Interval
<1>3. I \in SUBSET Nat /\ IsFiniteSet(I)
  BY <1>1, <1>2, FS_Subset
<1>4. Cardinality(I) \in Nat
  BY <1>3, FS_CardinalityType
<1>5. k = [j \in 1 .. Cardinality(I) |-> s[InOrder(I)[j]]]
  BY DEF beforeOlderMerge
<1>6. \A i \in I : i \in 1 .. Len(s) /\ s[i] \in Range(s) \ Range(dom)
  BY <1>1 DEF Range
<1>7. \A x \in Range(s) \ Range(dom) : \E i \in I : s[i] = x
  BY DEF Range
<1> HIDE DEF I, k
<1>8. /\ InOrder(I) \in [1 .. Cardinality(I) -> I]
      /\ \A i, j \in 1 .. Cardinality(I) : InOrder(I)[i] = InOrder(I)[j] => i = j
      /\ \A m \in I : \E i \in 1 .. Cardinality(I) : InOrder(I)[i] = m
  BY <1>3, InOrderFacts
<1>9. DOMAIN k = 1 .. Cardinality(I)
  BY <1>5
<1>10. \A j \in 1 .. Cardinality(I) : k[j] = s[InOrder(I)[j]] /\ InOrder(I)[j] \in I
  BY <1>5, <1>8
<1>11. k \in Seq(Msg)
  <2>1. \A j \in 1 .. Cardinality(I) : s[InOrder(I)[j]] \in Msg
    BY <1>6, <1>10
  <2> QED
    BY <1>4, <1>5, <2>1
<1>12. Range(k) = Range(s) \ Range(dom)
  <2>1. \A x \in Range(k) : x \in Range(s) \ Range(dom)
    <3> SUFFICES ASSUME NEW j \in 1 .. Cardinality(I) PROVE k[j] \in Range(s) \ Range(dom)
      BY <1>9 DEF Range
    <3> QED
      BY <1>6, <1>10
  <2>2. \A x \in Range(s) \ Range(dom) : x \in Range(k)
    <3> SUFFICES ASSUME NEW i \in I PROVE s[i] \in Range(k)
      BY <1>7
    <3>1. PICK j \in 1 .. Cardinality(I) : InOrder(I)[j] = i
      BY <1>8
    <3> QED
      BY <1>9, <1>10, <3>1 DEF Range
  <2> QED
    BY <2>1, <2>2
<1>13. ASSUME IsInjective(s) PROVE IsInjective(k)
  <2> SUFFICES ASSUME NEW i \in 1 .. Cardinality(I), NEW j \in 1 .. Cardinality(I), k[i] = k[j]
               PROVE  i = j
    BY <1>9 DEF IsInjective
  <2>1. s[InOrder(I)[i]] = s[InOrder(I)[j]] /\ InOrder(I)[i] \in DOMAIN s /\ InOrder(I)[j] \in DOMAIN s
    BY <1>1, <1>6, <1>10
  <2>2. InOrder(I)[i] = InOrder(I)[j]
    BY <1>13, <2>1 DEF IsInjective
  <2> QED
    BY <1>8, <2>2
<1> QED
  BY <1>11, <1>12, <1>13 DEF k

-----------------------------------------------------------------------------
(* The answers of the server *)

LiveCursor == [after : Nat, more : BOOLEAN]
Reply == [entries : Seq(Msg), link : {0} \cup Msg, cursor : LiveCursor]

\* A page of history: everything from its link on, as far as it was asked for.
LEMMA HistoryFacts ==
  ASSUME stored \subseteq Msg, NEW b \in {0} \cup Msg
  PROVE  \E S \in SUBSET Msg :
           /\ HistoryBefore(b) \in Reply
           /\ HistoryBefore(b).entries = InOrder(S)
           /\ HistoryBefore(b).link \in {0} \cup S
           /\ \A m \in S : HistoryBefore(b).link =< m /\ (b = 0 \/ m < b)
           /\ \A m \in stored : (b = 0 \/ m < b) /\ HistoryBefore(b).link =< m => m \in S
<1> DEFINE rows == {m \in stored : b = 0 \/ m < b}
           S == Newest(rows, PageSize)
           least == CHOOSE m \in S : \A k \in S : m =< k
           l == HistoryBefore(b).link
<1>1. Msg \subseteq Nat /\ IsFiniteSet(Msg) /\ b \in Nat
  BY MsgAssumption
<1>2. rows \in SUBSET Msg /\ rows \in SUBSET Nat
  BY <1>1
<1>3. IsFiniteSet(rows)
  BY <1>1, <1>2, FS_Subset
<1>4. /\ HistoryBefore(b).entries = InOrder(S)
      /\ l = IF rows # S THEN least ELSE 0
  BY DEF HistoryBefore, NoReply
<1>5. \A m \in rows : m \in stored /\ (b = 0 \/ m < b)
  OBVIOUS
<1>6. \A m \in stored : (b = 0 \/ m < b) => m \in rows
  OBVIOUS
<1> HIDE DEF rows
<1>7. /\ S \subseteq rows
      /\ \A m \in S : \A k \in rows : m < k => k \in S
      /\ rows # {} => S # {}
  BY <1>2, <1>3, NewestFacts
<1> HIDE DEF S, l
<1>8. S \in SUBSET Msg /\ S \in SUBSET Nat /\ rows \in SUBSET Nat
  BY <1>1, <1>2, <1>7
<1>9. ASSUME rows # S PROVE least \in S /\ \A k \in S : least =< k
  <2>1. S # {}
    BY <1>7, <1>9
  <2> QED
    BY <1>8, <2>1, NatLeast
<1> HIDE DEF least
<1>10. l \in {0} \cup S /\ \A m \in S : l =< m
  BY <1>4, <1>8, <1>9
<1>11. ASSUME NEW m \in rows, l =< m PROVE m \in S
  <2>1. CASE rows = S
    BY <1>11, <2>1
  <2>2. CASE rows # S
    <3>1. l \in S /\ l \in Nat /\ m \in Nat
      BY <1>4, <1>8, <1>9, <2>2
    <3> QED
      BY <1>7, <1>11, <3>1
  <2> QED
    BY <2>1, <2>2
<1>12. \A m \in S : b = 0 \/ m < b
  BY <1>5, <1>7
<1>13. HistoryBefore(b) \in Reply
  <2>1. InOrder(S) \in Seq(Msg) /\ l \in {0} \cup Msg
    BY <1>1, <1>8, <1>10, InOrderSeq, FS_Subset
  <2>2. NoReply.cursor \in LiveCursor
    BY DEF NoReply, LiveCursor
  <2>3. HistoryBefore(b) = [NoReply EXCEPT !.entries = InOrder(S), !.link = IF rows # S THEN least ELSE 0]
    BY DEF HistoryBefore, rows, S, least
  <2>4. HistoryBefore(b) = [entries |-> InOrder(S), link |-> l, cursor |-> NoReply.cursor]
    BY <1>4, <2>3 DEF NoReply
  <2> QED
    BY <2>1, <2>2, <2>4 DEF Reply
<1> QED
  BY <1>4, <1>6, <1>8, <1>10, <1>11, <1>12, <1>13 DEF l

\* What arrived after a cursor, as far as the page goes.
LEMMA IncomingFacts ==
  ASSUME arrived \in Seq(Msg), NEW a \in 0 .. Len(arrived)
  PROVE  \E n \in a .. Len(arrived) :
           /\ IncomingAfter(a).entries = SubSeq(arrived, a + 1, n)
           /\ IncomingAfter(a).cursor.after = n
           /\ IncomingAfter(a) \in Reply
<1> DEFINE n == IF Len(arrived) < a + PageSize THEN Len(arrived) ELSE a + PageSize
<1>1. PageSize \in Nat /\ Len(arrived) \in Nat /\ a \in Nat /\ a =< Len(arrived)
  BY PageAssumption
<1>2. n \in a .. Len(arrived) /\ n \in Nat
  BY <1>1
<1> DEFINE e == SubSeq(arrived, a + 1, n)
           c == [after |-> n, more |-> Len(e) = PageSize]
<1>3. IncomingAfter(a) = [NoReply EXCEPT !.entries = e, !.cursor = c]
  BY DEF IncomingAfter
<1> HIDE DEF n
<1>4. e \in Seq(Msg)
  BY <1>1, <1>2
<1>5. c.after = n /\ c \in LiveCursor
  BY <1>2 DEF LiveCursor
<1> HIDE DEF c
<1>6. IncomingAfter(a) = [entries |-> e, link |-> 0, cursor |-> c]
  <2> HIDE DEF e
  <2> QED
    BY <1>3 DEF NoReply
<1> QED
  BY <1>2, <1>4, <1>5, <1>6 DEF Reply

\* A stretch of the arrivals.
LEMMA StretchFacts ==
  ASSUME NEW s \in Seq(Msg), NEW a \in 0 .. Len(s), NEW n \in a .. Len(s)
  PROVE  /\ SubSeq(s, a + 1, n) \in Seq(Msg)
         /\ Range(SubSeq(s, a + 1, n)) = {s[i] : i \in a + 1 .. n}
         /\ IsInjective(s) => IsInjective(SubSeq(s, a + 1, n))
         /\ \A m \in Msg : SubSeq(Append(s, m), a + 1, n) = SubSeq(s, a + 1, n)
<1> DEFINE t == SubSeq(s, a + 1, n)
<1>1. /\ a \in Nat /\ n \in Nat /\ a =< n /\ n =< Len(s) /\ Len(s) \in Nat
      /\ DOMAIN s = 1 .. Len(s)
  OBVIOUS
<1>2. /\ t \in Seq(Msg) /\ Len(t) = n - a
      /\ \A i \in 1 .. n - a : t[i] = s[a + i]
  BY <1>1
<1>3. DOMAIN t = 1 .. n - a
  BY <1>1, <1>2
<1> HIDE DEF t
<1>4. Range(t) = {s[i] : i \in a + 1 .. n}
  <2>1. ASSUME NEW i \in 1 .. n - a PROVE a + i \in a + 1 .. n
    BY <1>1
  <2>2. ASSUME NEW i \in a + 1 .. n PROVE i - a \in 1 .. n - a /\ a + (i - a) = i
    BY <1>1
  <2>3. \A i \in 1 .. n - a : t[i] \in {s[j] : j \in a + 1 .. n}
    BY <1>2, <2>1
  <2>4. \A i \in a + 1 .. n : \E j \in DOMAIN t : t[j] = s[i]
    BY <1>2, <1>3, <2>2
  <2> QED
    BY <1>3, <2>3, <2>4 DEF Range
<1>5. ASSUME IsInjective(s) PROVE IsInjective(t)
  <2> SUFFICES ASSUME NEW i \in 1 .. n - a, NEW j \in 1 .. n - a, t[i] = t[j] PROVE i = j
    BY <1>3 DEF IsInjective
  <2>1. a + i \in DOMAIN s /\ a + j \in DOMAIN s /\ s[a + i] = s[a + j]
    BY <1>1, <1>2
  <2>2. a + i = a + j
    BY <1>5, <2>1 DEF IsInjective
  <2> QED
    BY <1>1, <2>2
<1>6. ASSUME NEW m \in Msg PROVE SubSeq(Append(s, m), a + 1, n) = t
  BY <1>1 DEF t
<1> QED
  BY <1>2, <1>4, <1>5, <1>6 DEF t

-----------------------------------------------------------------------------
(* The inductive invariant *)

\* The two loads take turns: the flags say where each of them is, one of them at
\* most is under way, and an older page is only asked for where there is one.
TurnsTaken ==
  /\ live \in {"idle", "sent", "answered", "render"}
  /\ older \in {"idle", "waiting", "sent", "answered", "render"}
  /\ loadingNew \in BOOLEAN /\ (loadingNew <=> live # "idle")
  /\ loadingOlder \in BOOLEAN /\ (loadingOlder <=> older \in {"sent", "answered", "render"})
  /\ ~ (loadingNew /\ loadingOlder)
  /\ older \in {"waiting", "sent", "answered"} => link # 0

PageTypes ==
  /\ stored \subseteq Msg
  /\ arrived \in Seq(Msg) /\ IsInjective(arrived) /\ Range(arrived) \subseteq stored
  /\ dom \in Seq(Msg)
  /\ link \in {0} \cup Msg
  /\ cursor \in LiveCursor /\ cursor.after =< Len(arrived)
  /\ reply \in [live : Reply, older : Reply]

\* An answer with new messages still continues the page it will be merged into.
LiveAnswer ==
  live = "answered" =>
    \E n \in cursor.after .. Len(arrived) :
      /\ reply.live.entries = SubSeq(arrived, cursor.after + 1, n)
      /\ reply.live.cursor.after = n

\* An answer with older messages still reaches down to the page it will be merged
\* into.
OlderAnswer ==
  older = "answered" =>
    \E S \in SUBSET Msg :
      /\ reply.older.entries = InOrder(S)
      /\ reply.older.link < link
      /\ \A m \in S : reply.older.link =< m /\ m < link
      /\ \A i \in 1 .. cursor.after :
           reply.older.link =< arrived[i] /\ arrived[i] < link => arrived[i] \in S

DMInv ==
  TurnsTaken /\ PageTypes /\ LiveAnswer /\ OlderAnswer /\ NoDuplicates /\ NothingSkipped

\* The page takes turns, whatever the order of answers, wakeups and clicks.
LEMMA TurnsStep ==
  ASSUME TurnsTaken, [Next]_dmVars
  PROVE  TurnsTaken'
<1> USE DEF TurnsTaken, feed, page, flags, calls
<1>1. ASSUME NEW m \in Msg, Arrive(m) PROVE TurnsTaken'
  BY <1>1 DEF Arrive
<1>2. CASE Wakeup
  BY <1>2 DEF Wakeup, QueueRefresh, Busy
<1>3. CASE VisibilityChange
  BY <1>3 DEF VisibilityChange, QueueRefresh, Busy
<1>4. CASE LoadOlder
  BY <1>4 DEF LoadOlder
<1>5. CASE ServeLive
  BY <1>5 DEF ServeLive
<1>6. CASE LiveMerged
  BY <1>6 DEF LiveMerged, EndAppend, EndRefresh, ResumeOlder
<1>7. CASE LiveRendered
  BY <1>7 DEF LiveRendered, EndAppend, EndRefresh, ResumeOlder
<1>8. CASE LiveRejected
  BY <1>8 DEF LiveRejected, EndRefresh, ResumeOlder
<1>9. CASE LiveErrorPage
  BY <1>9 DEF LiveErrorPage, EndAppend, EndRefresh, ResumeOlder
<1>10. CASE ServeOlder
  BY <1>10 DEF ServeOlder
<1>11. CASE OlderMerged
  BY <1>11 DEF OlderMerged
<1>12. CASE OlderRendered
  BY <1>12 DEF OlderRendered, EndOlder, QueueRefresh
<1>13. CASE OlderFailed
  BY <1>13 DEF OlderFailed, EndOlder, QueueRefresh
<1>14. CASE Destroy
  BY <1>14 DEF Destroy
<1>15. CASE SocketClosed
  BY <1>15 DEF SocketClosed
<1>16. CASE UNCHANGED dmVars
  BY <1>16 DEF dmVars
<1> QED
  BY <1>1, <1>2, <1>3, <1>4, <1>5, <1>6, <1>7, <1>8, <1>9, <1>10, <1>11, <1>12, <1>13,
     <1>14, <1>15, <1>16 DEF Next

\* The properties of the feed, and what its operators are on the page.
LEMMA FeedNames ==
  /\ NoDuplicates <=> IsInjective(dom)
  /\ NothingSkipped <=>
       \A i \in 1 .. cursor.after : arrived[i] \in Range(dom) \/ arrived[i] < link
  /\ \A S : Feed!InOrder(S) = InOrder(S)
  /\ \A s : Feed!Unseen(s, dom) = beforeOlderMerge(s)
<1>1. NoDuplicates <=> IsInjective(dom)
  BY DEF NoDuplicates, Feed!NoDuplicates, IsInjective, Feed!IsInjective
<1>2. NothingSkipped <=>
       \A i \in 1 .. cursor.after : arrived[i] \in Range(dom) \/ arrived[i] < link
  BY DEF NothingSkipped, Feed!NothingSkipped, Range, Feed!Range
<1>3. \A T : Feed!Cardinality(T) = Cardinality(T)
  BY Zenon DEF Cardinality, Feed!Cardinality
<1>4. ASSUME NEW S PROVE Feed!InOrder(S) = InOrder(S)
  <2>1. Feed!InOrder(S) = [i \in 1 .. Feed!Cardinality(S) |->
           CHOOSE m \in S : Feed!Cardinality({k \in S : k < m}) = i - 1]
    BY DEF Feed!InOrder
  <2>2. ASSUME NEW i
        PROVE  (CHOOSE m \in S : Feed!Cardinality({k \in S : k < m}) = i - 1)
                 = CHOOSE m \in S : Cardinality({k \in S : k < m}) = i - 1
    BY <1>3
  <2> QED
    BY <1>3, <2>1, <2>2 DEF InOrder
<1>5. ASSUME NEW s PROVE Feed!Unseen(s, dom) = beforeOlderMerge(s)
  <2> DEFINE I == {i \in DOMAIN s : s[i] \notin Range(dom)}
  <2>1. Feed!Unseen(s, dom) = Feed!At(s, I)
    BY DEF Feed!Unseen, Feed!Range, Range
  <2>2. beforeOlderMerge(s) = [j \in 1 .. Cardinality(I) |-> s[InOrder(I)[j]]]
    BY DEF beforeOlderMerge
  <2> HIDE DEF I
  <2>3. Feed!At(s, I) = [j \in 1 .. Feed!Cardinality(I) |-> s[Feed!InOrder(I)[j]]]
    BY DEF Feed!At
  <2> QED
    BY <1>3, <1>4, <2>1, <2>2, <2>3
<1> QED
  BY <1>1, <1>2, <1>4, <1>5

\* Merging new messages delivers the next arrivals.
LEMMA LiveMergedFacts ==
  ASSUME DMInv, LiveMerged, ~ destroyed
  PROVE  \E n \in cursor.after .. Len(arrived) :
           /\ dom' = dom \o beforeOlderMerge(SubSeq(arrived, cursor.after + 1, n))
           /\ cursor' \in LiveCursor /\ cursor'.after = n
           /\ UNCHANGED <<arrived, link>>
<1>1. PICK n \in cursor.after .. Len(arrived) :
        /\ reply.live.entries = SubSeq(arrived, cursor.after + 1, n)
        /\ reply.live.cursor.after = n
  BY DEF DMInv, LiveAnswer, LiveMerged
<1>2. loadingNew
  BY DEF DMInv, TurnsTaken, LiveMerged
<1>3. dom' = Merge(beforeOlderMerge(reply.live.entries)) /\ cursor' = reply.live.cursor
  BY DEF LiveMerged
<1>4. dom' = dom \o beforeOlderMerge(reply.live.entries)
  BY <1>2, <1>3 DEF Merge
<1>5. reply.live.cursor \in LiveCursor
  BY DEF DMInv, PageTypes, Reply
<1>6. UNCHANGED <<arrived, link>>
  BY DEF LiveMerged, feed
<1> QED
  BY <1>1, <1>3, <1>4, <1>5, <1>6

\* Merging older messages reveals a page without a hole.
LEMMA OlderMergedFacts ==
  ASSUME DMInv, OlderMerged, ~ destroyed
  PROVE  \E S \in SUBSET Msg :
           /\ dom' = beforeOlderMerge(InOrder(S)) \o dom
           /\ link' \in {0} \cup Msg /\ link' < link
           /\ \A m \in S : link' =< m /\ m < link
           /\ \A i \in 1 .. cursor.after : link' =< arrived[i] /\ arrived[i] < link => arrived[i] \in S
           /\ UNCHANGED <<arrived, cursor>>
<1>1. PICK S \in SUBSET Msg :
        /\ reply.older.entries = InOrder(S)
        /\ reply.older.link < link
        /\ \A m \in S : reply.older.link =< m /\ m < link
        /\ \A i \in 1 .. cursor.after :
             reply.older.link =< arrived[i] /\ arrived[i] < link => arrived[i] \in S
  BY DEF DMInv, OlderAnswer, OlderMerged
<1>2. ~ loadingNew
  BY DEF DMInv, TurnsTaken, OlderMerged
<1>3. dom' = Merge(beforeOlderMerge(reply.older.entries)) /\ link' = reply.older.link
  BY DEF OlderMerged
<1>4. dom' = beforeOlderMerge(reply.older.entries) \o dom
  BY <1>2, <1>3 DEF Merge
<1>5. reply.older.link \in {0} \cup Msg
  BY DEF DMInv, PageTypes, Reply
<1>6. UNCHANGED <<arrived, cursor>>
  BY DEF OlderMerged, feed
<1> QED
  BY <1>1, <1>3, <1>4, <1>5, <1>6

\* What a page looks like after a merge that keeps it.
LEMMA MergedPage ==
  ASSUME DMInv, NEW s \in Seq(Msg), IsInjective(s),
         \/ dom' = dom \o beforeOlderMerge(s)
         \/ dom' = beforeOlderMerge(s) \o dom
  PROVE  /\ dom' \in Seq(Msg) /\ IsInjective(dom')
         /\ Range(dom') = Range(dom) \cup Range(s)
<1> DEFINE k == beforeOlderMerge(s)
<1>1. dom \in Seq(Msg) /\ IsInjective(dom)
  BY FeedNames DEF DMInv, PageTypes
<1>2. k \in Seq(Msg) /\ Range(k) = Range(s) \ Range(dom) /\ IsInjective(k)
  BY KeptFacts
<1> HIDE DEF k
<1>3. CASE dom' = dom \o k
  BY <1>1, <1>2, <1>3, ConcatFacts
<1>4. CASE dom' = k \o dom
  BY <1>1, <1>2, <1>4, ConcatFacts
<1> QED
  BY <1>3, <1>4 DEF k

\* The page as it is rendered: the newest history, with everything that had arrived
\* on it or above it, although the cursor was read before.
LEMMA InitFacts ==
  ASSUME Init
  PROVE  DMInv /\ Feed!FeedInit
<1>1. PICK S \in SUBSET Msg : \E n \in 0 .. Cardinality(S \ Outgoing) :
        /\ stored = S
        /\ arrived \in [1 .. Cardinality(S \ Outgoing) -> S \ Outgoing] /\ IsInjective(arrived)
        /\ dom = HistoryBefore(0).entries
        /\ link = HistoryBefore(0).link
        /\ cursor = [after |-> n, more |-> FALSE]
  BY DEF Init
<1>2. PICK n \in 0 .. Cardinality(S \ Outgoing) : cursor = [after |-> n, more |-> FALSE]
  BY <1>1
<1>3. Msg \subseteq Nat /\ IsFiniteSet(Msg) /\ Cardinality(S \ Outgoing) \in Nat
  <2>1. Msg \subseteq Nat /\ IsFiniteSet(Msg)
    BY MsgAssumption
  <2>2. S \ Outgoing \in SUBSET Msg
    OBVIOUS
  <2> QED
    BY <2>1, <2>2, FS_Subset, FS_CardinalityType
<1>4. stored \subseteq Msg
  BY <1>1
<1>5. /\ arrived \in Seq(Msg) /\ IsInjective(arrived) /\ Len(arrived) = Cardinality(S \ Outgoing)
      /\ Range(arrived) \subseteq stored
  <2> DEFINE c == Cardinality(S \ Outgoing)
  <2>1. c \in Nat /\ arrived \in [1 .. c -> Msg] /\ arrived \in [1 .. c -> stored]
    BY <1>1, <1>3
  <2>2. IsInjective(arrived)
    BY <1>1
  <2> HIDE DEF c
  <2>3. arrived \in Seq(Msg) /\ Len(arrived) = c
    BY <2>1
  <2>4. Range(arrived) \subseteq stored
    BY <2>1 DEF Range
  <2> QED
    BY <2>2, <2>3, <2>4 DEF c
<1>6. cursor \in LiveCursor /\ cursor.after = n /\ n \in 0 .. Len(arrived)
  BY <1>2, <1>3, <1>5 DEF LiveCursor
<1>7. PICK P \in SUBSET Msg :
        /\ dom = InOrder(P) /\ link \in {0} \cup P
        /\ \A m \in stored : link =< m => m \in P
  BY <1>1, <1>4, HistoryFacts
<1>8. IsFiniteSet(P)
  BY <1>3, FS_Subset
<1>9. dom \in Seq(Msg) /\ Range(dom) = P /\ IsInjective(dom)
  BY <1>3, <1>7, <1>8, InOrderSeq
<1>10. NoDuplicates
  BY <1>9, FeedNames
<1>11. NothingSkipped
  <2> SUFFICES ASSUME NEW i \in 1 .. cursor.after PROVE arrived[i] \in Range(dom) \/ arrived[i] < link
    BY FeedNames
  <2>1. i \in DOMAIN arrived
    BY <1>5, <1>6
  <2>2. arrived[i] \in stored /\ arrived[i] \in Nat /\ link \in Nat
    <3>1. arrived[i] \in Range(arrived)
      BY <2>1 DEF Range
    <3>2. arrived[i] \in stored
      BY <1>5, <3>1
    <3>3. arrived[i] \in Nat
      BY <1>3, <1>4, <3>2
    <3>4. link \in Nat
      <4>1. link \in {0} \cup P
        BY <1>7
      <4> QED
        BY <1>3, <4>1
    <3> QED
      BY <3>2, <3>3, <3>4
  <2> QED
    BY <1>7, <1>9, <2>2
<1>12. reply \in [live : Reply, older : Reply]
  <2>1. NoReply \in Reply
    BY DEF NoReply, Reply, LiveCursor
  <2> QED
    BY <2>1 DEF Init
<1>13. TurnsTaken
  <2>1. /\ hidden \in BOOLEAN /\ loadingOlder = FALSE /\ loadingNew = ~ hidden
        /\ live = (IF hidden THEN "idle" ELSE "sent") /\ older = "idle"
    BY DEF Init
  <2> QED
    BY <2>1 DEF TurnsTaken
<1>14. LiveAnswer /\ OlderAnswer
  BY DEF LiveAnswer, OlderAnswer, Init
<1>15. PageTypes
  BY <1>3, <1>4, <1>5, <1>6, <1>7, <1>9, <1>12 DEF PageTypes
<1>16. Feed!FeedInit
  <2>1. IsInjective(arrived) <=> Feed!IsInjective(arrived)
    BY DEF IsInjective, Feed!IsInjective
  <2>2. \A s : Feed!Range(s) = Range(s)
    BY DEF Range, Feed!Range
  <2>3. Range(dom) \subseteq Msg /\ dom = InOrder(Range(dom))
    BY <1>7, <1>9
  <2> QED
    BY <1>4, <1>5, <1>6, <1>11, <2>1, <2>2, <2>3, FeedNames DEF Feed!FeedInit, NothingSkipped
<1> QED
  BY <1>10, <1>11, <1>13, <1>14, <1>15, <1>16 DEF DMInv

\* A step that leaves the messages and the page alone, and answers nothing.
Quiet ==
  /\ UNCHANGED <<stored, arrived, dom, link, cursor>>
  /\ live' = "answered" => live = "answered" /\ reply'.live = reply.live
  /\ older' = "answered" => older = "answered" /\ reply'.older = reply.older
  /\ reply' \in [live : Reply, older : Reply]

LEMMA QuietStep ==
  ASSUME DMInv, Quiet
  PROVE  PageTypes' /\ LiveAnswer' /\ OlderAnswer' /\ NoDuplicates' /\ NothingSkipped'
<1>1. PageTypes'
  BY DEF DMInv, PageTypes, Quiet
<1>2. LiveAnswer'
  BY DEF DMInv, LiveAnswer, Quiet
<1>3. OlderAnswer'
  BY DEF DMInv, OlderAnswer, Quiet
<1>4. NoDuplicates' /\ NothingSkipped'
  BY FeedNames DEF DMInv, Quiet, NoDuplicates, NothingSkipped, Feed!NoDuplicates, Feed!NothingSkipped
<1> QED
  BY <1>1, <1>2, <1>3, <1>4

\* A message arrives: behind the cursor, and behind what the server has answered.
LEMMA ArriveStep ==
  ASSUME DMInv, NEW m \in Msg, Arrive(m)
  PROVE  /\ PageTypes' /\ LiveAnswer' /\ OlderAnswer' /\ NoDuplicates' /\ NothingSkipped'
         /\ UNCHANGED Feed!feedVars \/ Feed!Arrive(m)
<1>1. CASE m \in Outgoing
  <2>1. UNCHANGED <<arrived, dom, link, cursor, live, older, reply>> /\ stored' = stored \cup {m}
    BY <1>1 DEF Arrive, page, flags, calls
  <2>2. PageTypes'
    BY <2>1 DEF DMInv, PageTypes
  <2>3. LiveAnswer' /\ OlderAnswer'
    BY <2>1 DEF DMInv, LiveAnswer, OlderAnswer
  <2>4. NoDuplicates' /\ NothingSkipped'
    BY <2>1 DEF DMInv, NoDuplicates, NothingSkipped, Feed!NoDuplicates, Feed!NothingSkipped
  <2>5. UNCHANGED Feed!feedVars
    BY <2>1 DEF Feed!feedVars
  <2> QED
    BY <2>2, <2>3, <2>4, <2>5
<1>2. CASE m \notin Outgoing
  <2>1. /\ UNCHANGED <<dom, link, cursor, live, older, reply>>
        /\ stored' = stored \cup {m} /\ m \notin stored
        /\ arrived' = Append(arrived, m)
    BY <1>2 DEF Arrive, page, flags, calls
  <2>2. /\ arrived \in Seq(Msg) /\ IsInjective(arrived) /\ Range(arrived) \subseteq stored
        /\ cursor \in LiveCursor /\ cursor.after \in 0 .. Len(arrived)
    BY DEF DMInv, PageTypes, LiveCursor
  <2>3. /\ arrived' \in Seq(Msg) /\ Len(arrived') = Len(arrived) + 1 /\ Len(arrived) \in Nat
        /\ \A i \in 1 .. Len(arrived) : arrived'[i] = arrived[i]
        /\ arrived'[Len(arrived) + 1] = m
    BY <2>1, <2>2
  <2>4. DOMAIN arrived = 1 .. Len(arrived) /\ DOMAIN arrived' = 1 .. Len(arrived) + 1
    BY <2>2, <2>3
  <2>5. \A i \in 1 .. Len(arrived) : arrived[i] \in Range(arrived) /\ arrived[i] # m
    BY <2>1, <2>2, <2>4 DEF Range
  <2>6. \A i \in 1 .. Len(arrived) + 1 : i \in 1 .. Len(arrived) \/ i = Len(arrived) + 1
    BY <2>3
  <2>7. IsInjective(arrived')
    <3> SUFFICES ASSUME NEW i \in 1 .. Len(arrived) + 1, NEW j \in 1 .. Len(arrived) + 1,
                        arrived'[i] = arrived'[j]
                 PROVE  i = j
      BY <2>4 DEF IsInjective
    <3> QED
      BY <2>2, <2>3, <2>4, <2>5, <2>6 DEF IsInjective
  <2>8. Range(arrived') \subseteq stored'
    <3> SUFFICES ASSUME NEW i \in 1 .. Len(arrived) + 1 PROVE arrived'[i] \in stored \cup {m}
      BY <2>1, <2>4 DEF Range
    <3> QED
      BY <2>2, <2>3, <2>5, <2>6
  <2>9. PageTypes'
    BY <2>1, <2>2, <2>3, <2>7, <2>8 DEF DMInv, PageTypes
  <2>10. LiveAnswer'
    <3> SUFFICES ASSUME live = "answered"
                 PROVE  \E n \in cursor.after .. Len(arrived') :
                          /\ reply.live.entries = SubSeq(arrived', cursor.after + 1, n)
                          /\ reply.live.cursor.after = n
      BY <2>1 DEF LiveAnswer
    <3>1. PICK n \in cursor.after .. Len(arrived) :
            /\ reply.live.entries = SubSeq(arrived, cursor.after + 1, n)
            /\ reply.live.cursor.after = n
      BY DEF DMInv, LiveAnswer
    <3>2. SubSeq(arrived', cursor.after + 1, n) = SubSeq(arrived, cursor.after + 1, n)
      BY <2>1, <2>2, StretchFacts
    <3>3. n \in cursor.after .. Len(arrived')
      BY <2>2, <2>3
    <3> QED
      BY <3>1, <3>2, <3>3
  <2>11. \A i \in 1 .. cursor.after : arrived'[i] = arrived[i]
    BY <2>2, <2>3
  <2>12. OlderAnswer'
    BY <2>1, <2>11 DEF DMInv, OlderAnswer
  <2>13. NoDuplicates'
    BY <2>1 DEF DMInv, NoDuplicates, Feed!NoDuplicates
  <2>14. NothingSkipped'
    BY <2>1, <2>11 DEF DMInv, NothingSkipped, Feed!NothingSkipped
  <2>15. Feed!Arrive(m)
    <3>1. Feed!Range(arrived) = Range(arrived)
      BY DEF Range, Feed!Range
    <3> QED
      BY <2>1, <2>2, <3>1 DEF Feed!Arrive
  <2> QED
    BY <2>9, <2>10, <2>12, <2>13, <2>14, <2>15
<1> QED
  BY <1>1, <1>2

\* The server answers: from the cursor or the link the page still has.
LEMMA ServeStep ==
  ASSUME DMInv, ServeLive \/ ServeOlder
  PROVE  /\ PageTypes' /\ LiveAnswer' /\ OlderAnswer' /\ NoDuplicates' /\ NothingSkipped'
         /\ UNCHANGED Feed!feedVars
<1>1. UNCHANGED <<stored, arrived, dom, link, cursor>>
  BY DEF ServeLive, ServeOlder, feed, page
<1>2. /\ arrived \in Seq(Msg) /\ cursor.after \in 0 .. Len(arrived)
      /\ reply \in [live : Reply, older : Reply] /\ link \in {0} \cup Msg
      /\ stored \subseteq Msg /\ Range(arrived) \subseteq stored
  BY DEF DMInv, PageTypes, LiveCursor
<1>3. NoDuplicates' /\ NothingSkipped'
  BY <1>1 DEF DMInv, NoDuplicates, NothingSkipped, Feed!NoDuplicates, Feed!NothingSkipped
<1>4. UNCHANGED Feed!feedVars
  BY <1>1 DEF Feed!feedVars
<1>5. ASSUME ServeLive PROVE PageTypes' /\ LiveAnswer' /\ OlderAnswer'
  <2>1. PICK n \in cursor.after .. Len(arrived) :
          /\ IncomingAfter(cursor.after).entries = SubSeq(arrived, cursor.after + 1, n)
          /\ IncomingAfter(cursor.after).cursor.after = n
          /\ IncomingAfter(cursor.after) \in Reply
    BY <1>2, IncomingFacts
  <2>2. reply' = [reply EXCEPT !.live = IncomingAfter(cursor.after)] /\ UNCHANGED older
    BY <1>5 DEF ServeLive
  <2>3. /\ reply' \in [live : Reply, older : Reply]
        /\ reply'.live = IncomingAfter(cursor.after) /\ reply'.older = reply.older
    BY <1>2, <2>1, <2>2
  <2>4. PageTypes'
    BY <1>1, <2>3 DEF DMInv, PageTypes
  <2>5. LiveAnswer'
    BY <1>1, <2>1, <2>3 DEF LiveAnswer
  <2>6. OlderAnswer'
    BY <1>1, <2>2, <2>3 DEF DMInv, OlderAnswer
  <2> QED
    BY <2>4, <2>5, <2>6
<1>6. ASSUME ServeOlder PROVE PageTypes' /\ LiveAnswer' /\ OlderAnswer'
  <2> DEFINE h == HistoryBefore(link)
  <2>1. PICK S \in SUBSET Msg :
          /\ h \in Reply
          /\ h.entries = InOrder(S)
          /\ h.link \in {0} \cup S
          /\ \A m \in S : h.link =< m /\ (link = 0 \/ m < link)
          /\ \A m \in stored : (link = 0 \/ m < link) /\ h.link =< m => m \in S
    BY <1>2, HistoryFacts
  <2> HIDE DEF h
  <2>2. reply' = [reply EXCEPT !.older = h] /\ UNCHANGED live
    BY <1>6 DEF ServeOlder, h
  <2>3. /\ reply' \in [live : Reply, older : Reply]
        /\ reply'.older = h /\ reply'.live = reply.live
    BY <1>2, <2>1, <2>2
  <2>4. PageTypes'
    BY <1>1, <2>3 DEF DMInv, PageTypes
  <2>5. LiveAnswer'
    BY <1>1, <2>2, <2>3 DEF DMInv, LiveAnswer
  <2>6. link # 0
    BY <1>6 DEF DMInv, TurnsTaken, ServeOlder
  <2>7. h.link < link
    <3>1. link \in Nat /\ link > 0
      BY <1>2, <2>6, MsgAssumption
    <3>2. CASE h.link = 0
      BY <3>1, <3>2
    <3>3. CASE h.link \in S
      BY <2>1, <2>6, <3>3
    <3> QED
      BY <2>1, <3>2, <3>3
  <2>8. \A i \in 1 .. cursor.after : arrived[i] \in stored
    <3> SUFFICES ASSUME NEW i \in 1 .. cursor.after PROVE arrived[i] \in Range(arrived)
      BY <1>2
    <3>1. i \in DOMAIN arrived
      BY <1>2
    <3> QED
      BY <3>1 DEF Range
  <2>9. OlderAnswer'
    BY <1>1, <2>1, <2>3, <2>6, <2>7, <2>8 DEF OlderAnswer
  <2> QED
    BY <2>4, <2>5, <2>9
<1> QED
  BY <1>3, <1>4, <1>5, <1>6

\* New messages are merged at the bottom.
LEMMA LiveMergedStep ==
  ASSUME DMInv, LiveMerged, ~ destroyed
  PROVE  /\ PageTypes' /\ LiveAnswer' /\ OlderAnswer' /\ NoDuplicates' /\ NothingSkipped'
         /\ \E n \in cursor.after .. Len(arrived) : Feed!Deliver(n)
<1> DEFINE a == cursor.after
<1>1. PICK n \in a .. Len(arrived) :
        /\ dom' = dom \o beforeOlderMerge(SubSeq(arrived, a + 1, n))
        /\ cursor' \in LiveCursor /\ cursor'.after = n
        /\ UNCHANGED <<arrived, link>>
  BY LiveMergedFacts
<1>2. /\ arrived \in Seq(Msg) /\ a \in 0 .. Len(arrived) /\ IsInjective(arrived)
      /\ reply \in [live : Reply, older : Reply]
  BY DEF DMInv, PageTypes, LiveCursor
<1>3. n \in Nat /\ a =< n /\ n =< Len(arrived)
  BY <1>2
<1> DEFINE s == SubSeq(arrived, a + 1, n)
<1>4. s \in Seq(Msg) /\ IsInjective(s) /\ Range(s) = {arrived[i] : i \in a + 1 .. n}
  BY <1>2, StretchFacts
<1>5. /\ dom' \in Seq(Msg) /\ IsInjective(dom')
      /\ Range(dom') = Range(dom) \cup Range(s)
  <2> HIDE DEF s
  <2> QED
    BY <1>1, <1>4, MergedPage DEF s
<1>6. NoDuplicates'
  BY <1>5 DEF NoDuplicates, Feed!NoDuplicates, IsInjective, Feed!IsInjective
<1>7. NothingSkipped'
  <2>1. \A i \in 1 .. n : arrived[i] \in Range(dom') \/ arrived[i] < link
    <3> SUFFICES ASSUME NEW i \in 1 .. n PROVE arrived[i] \in Range(dom') \/ arrived[i] < link
      OBVIOUS
    <3>1. CASE i \in 1 .. a
      BY <1>5, <3>1, FeedNames DEF DMInv
    <3>2. CASE i \in a + 1 .. n
      BY <1>4, <1>5, <3>2
    <3> QED
      BY <1>2, <1>3, <3>1, <3>2
  <2> QED
    BY <1>1, <2>1 DEF NothingSkipped, Feed!NothingSkipped, Range, Feed!Range
<1>8. /\ reply' = [reply EXCEPT !.live = NoReply] /\ UNCHANGED stored
      /\ NoReply \in Reply
  BY DEF LiveMerged, feed, NoReply, Reply, LiveCursor
<1>9. PageTypes'
  <2>1. reply' \in [live : Reply, older : Reply]
    BY <1>2, <1>8
  <2> QED
    BY <1>1, <1>3, <1>5, <1>8, <2>1 DEF DMInv, PageTypes
<1>10. live' # "answered" /\ older' # "answered"
  <2>1. live = "answered" /\ older \in {"idle", "waiting"}
    BY DEF DMInv, TurnsTaken, LiveMerged
  <2> QED
    BY <2>1 DEF LiveMerged, EndAppend, EndRefresh, ResumeOlder
<1>11. LiveAnswer' /\ OlderAnswer'
  BY <1>10 DEF LiveAnswer, OlderAnswer
<1>12. Feed!Deliver(n)
  BY <1>1, <1>3, FeedNames DEF Feed!Deliver
<1> QED
  BY <1>6, <1>7, <1>9, <1>11, <1>12

\* Older messages are merged at the top.
LEMMA OlderMergedStep ==
  ASSUME DMInv, OlderMerged, ~ destroyed
  PROVE  /\ PageTypes' /\ LiveAnswer' /\ OlderAnswer' /\ NoDuplicates' /\ NothingSkipped'
         /\ \E b \in {0} \cup Msg : \E S \in SUBSET Msg : b < link /\ Feed!Reveal(S, b)
<1>1. PICK S \in SUBSET Msg :
        /\ dom' = beforeOlderMerge(InOrder(S)) \o dom
        /\ link' \in {0} \cup Msg /\ link' < link
        /\ \A m \in S : link' =< m /\ m < link
        /\ \A i \in 1 .. cursor.after : link' =< arrived[i] /\ arrived[i] < link => arrived[i] \in S
        /\ UNCHANGED <<arrived, cursor>>
  BY OlderMergedFacts
<1>2. /\ arrived \in Seq(Msg) /\ cursor.after \in 0 .. Len(arrived)
      /\ reply \in [live : Reply, older : Reply] /\ link \in {0} \cup Msg
  BY DEF DMInv, PageTypes, LiveCursor
<1>3. Msg \subseteq Nat /\ IsFiniteSet(Msg)
  BY MsgAssumption
<1> DEFINE s == InOrder(S)
<1>4. s \in Seq(Msg) /\ IsInjective(s) /\ Range(s) = S
  BY <1>3, InOrderSeq, FS_Subset
<1>5. /\ dom' \in Seq(Msg) /\ IsInjective(dom')
      /\ Range(dom') = Range(dom) \cup Range(s)
  <2> HIDE DEF s
  <2> QED
    BY <1>1, <1>4, MergedPage DEF s
<1>6. NoDuplicates'
  BY <1>5 DEF NoDuplicates, Feed!NoDuplicates, IsInjective, Feed!IsInjective
<1>7. NothingSkipped'
  <2>1. \A i \in 1 .. cursor.after : arrived[i] \in Range(dom') \/ arrived[i] < link'
    <3> SUFFICES ASSUME NEW i \in 1 .. cursor.after
                 PROVE  arrived[i] \in Range(dom') \/ arrived[i] < link'
      OBVIOUS
    <3>1. arrived[i] \in Nat /\ link' \in Nat
      <4>1. arrived[i] \in Msg
        BY <1>2
      <4>2. link' \in {0} \cup Msg
        BY <1>1
      <4>3. arrived[i] \in Nat
        BY <1>3, <4>1
      <4>4. link' \in Nat
        BY <1>3, <4>2
      <4> QED
        BY <4>3, <4>4
    <3>2. arrived[i] \in Range(dom) \/ arrived[i] < link
      BY FeedNames DEF DMInv
    <3>3. CASE link' =< arrived[i] /\ arrived[i] < link
      BY <1>1, <1>4, <1>5, <3>3
    <3> QED
      BY <1>5, <3>1, <3>2, <3>3
  <2> QED
    BY <1>1, <2>1 DEF NothingSkipped, Feed!NothingSkipped, Range, Feed!Range
<1>8. /\ reply' = [reply EXCEPT !.older = NoReply] /\ UNCHANGED <<stored, live>>
      /\ NoReply \in Reply /\ older' = "render"
  BY DEF OlderMerged, feed, NoReply, Reply, LiveCursor
<1>9. PageTypes'
  <2>1. reply' \in [live : Reply, older : Reply]
    BY <1>2, <1>8
  <2> QED
    BY <1>1, <1>5, <1>8, <2>1 DEF DMInv, PageTypes
<1>10. live # "answered"
  BY DEF DMInv, TurnsTaken, OlderMerged
<1>11. LiveAnswer' /\ OlderAnswer'
  BY <1>8, <1>10 DEF LiveAnswer, OlderAnswer
<1>12. Feed!Reveal(S, link')
  BY <1>1, FeedNames DEF Feed!Reveal
<1> QED
  BY <1>1, <1>6, <1>7, <1>9, <1>11, <1>12

\* Every other step leaves the messages, the page and the answers alone.
LEMMA QuietActions ==
  ASSUME DMInv,
         \/ Wakeup \/ VisibilityChange \/ LoadOlder \/ LiveRendered \/ LiveRejected
         \/ LiveErrorPage \/ OlderRendered \/ OlderFailed \/ Destroy \/ SocketClosed
         \/ (LiveMerged \/ OlderMerged) /\ destroyed
         \/ UNCHANGED dmVars
  PROVE  Quiet
<1> USE DEF feed, page, flags, calls
<1>1. /\ reply \in [live : Reply, older : Reply] /\ NoReply \in Reply
      /\ older \in {"idle", "waiting", "sent", "answered", "render"}
  BY DEF DMInv, PageTypes, TurnsTaken, NoReply, Reply, LiveCursor
<1>2. CASE Wakeup
  BY <1>1, <1>2 DEF Wakeup, QueueRefresh, Quiet
<1>3. CASE VisibilityChange
  BY <1>1, <1>3 DEF VisibilityChange, QueueRefresh, Quiet
<1>4. CASE LoadOlder
  BY <1>1, <1>4 DEF LoadOlder, Quiet
<1>5. CASE LiveRendered
  BY <1>1, <1>5 DEF LiveRendered, EndAppend, EndRefresh, ResumeOlder, Quiet
<1>6. CASE LiveRejected
  BY <1>1, <1>6 DEF LiveRejected, EndRefresh, ResumeOlder, Quiet
<1>7. CASE LiveErrorPage
  BY <1>1, <1>7 DEF LiveErrorPage, EndAppend, EndRefresh, ResumeOlder, Quiet
<1>8. CASE OlderRendered
  BY <1>1, <1>8 DEF OlderRendered, EndOlder, QueueRefresh, Quiet
<1>9. CASE OlderFailed
  BY <1>1, <1>9 DEF OlderFailed, EndOlder, QueueRefresh, Quiet
<1>10. CASE Destroy
  BY <1>1, <1>10 DEF Destroy, Quiet
<1>11. CASE SocketClosed
  BY <1>1, <1>11 DEF SocketClosed, Quiet
<1>12. CASE LiveMerged /\ destroyed
  <2>1. reply' \in [live : Reply, older : Reply] /\ reply'.older = reply.older
    BY <1>1, <1>12 DEF LiveMerged
  <2> QED
    BY <1>1, <1>12, <2>1 DEF LiveMerged, EndAppend, EndRefresh, ResumeOlder, Quiet
<1>13. CASE OlderMerged /\ destroyed
  <2>1. reply' \in [live : Reply, older : Reply] /\ reply'.live = reply.live
    BY <1>1, <1>13 DEF OlderMerged
  <2> QED
    BY <1>1, <1>13, <2>1 DEF OlderMerged, Quiet
<1>14. CASE UNCHANGED dmVars
  BY <1>1, <1>14 DEF dmVars, Quiet
<1> QED
  BY <1>2, <1>3, <1>4, <1>5, <1>6, <1>7, <1>8, <1>9, <1>10, <1>11, <1>12, <1>13, <1>14

-----------------------------------------------------------------------------
(* Theorems *)

\* A step of the page keeps the invariant and is a step of the feed or none.
LEMMA DMStep ==
  ASSUME DMInv, [Next]_dmVars
  PROVE  DMInv' /\ [Feed!FeedNext]_(Feed!feedVars)
<1> DEFINE Kept == PageTypes' /\ LiveAnswer' /\ OlderAnswer' /\ NoDuplicates' /\ NothingSkipped'
           Mapped == [Feed!FeedNext]_(Feed!feedVars)
<1>1. TurnsTaken'
  BY TurnsStep DEF DMInv
<1>2. ASSUME NEW m \in Msg, Arrive(m) PROVE Kept /\ Mapped
  BY <1>2, ArriveStep DEF Feed!FeedNext
<1>3. ASSUME ServeLive \/ ServeOlder PROVE Kept /\ Mapped
  BY <1>3, ServeStep
<1>4. ASSUME LiveMerged, ~ destroyed PROVE Kept /\ Mapped
  BY <1>4, LiveMergedStep DEF Feed!FeedNext
<1>5. ASSUME OlderMerged, ~ destroyed PROVE Kept /\ Mapped
  BY <1>5, OlderMergedStep DEF Feed!FeedNext
<1>6. ASSUME Quiet PROVE Kept /\ Mapped
  <2>1. UNCHANGED Feed!feedVars
    BY <1>6 DEF Quiet, Feed!feedVars
  <2> QED
    BY <1>6, <2>1, QuietStep
<1> HIDE DEF Kept, Mapped
<1>7. CASE ~ \E m \in Msg : Arrive(m)
  <2>1. CASE Quiet
    BY <1>1, <1>6, <2>1 DEF DMInv, Kept, Mapped
  <2>2. CASE ~ Quiet
    <3>1. \/ ServeLive \/ ServeOlder
          \/ LiveMerged /\ ~ destroyed
          \/ OlderMerged /\ ~ destroyed
      BY <1>7, <2>2, QuietActions DEF Next
    <3> QED
      BY <1>1, <1>3, <1>4, <1>5, <3>1 DEF DMInv, Kept, Mapped
  <2> QED
    BY <2>1, <2>2
<1> QED
  BY <1>1, <1>2, <1>7 DEF DMInv, Kept, Mapped

\* The page shows no message twice and loses no incoming one, and an answer still
\* fits the page when it is merged, whatever is sent, answered, refused or arrives
\* in between.
LEMMA PageKeepsMessages == Spec => [](DMInv /\ NoDuplicates /\ NothingSkipped)
<1>1. Init => DMInv
  BY InitFacts
<1>2. DMInv /\ [Next]_dmVars => DMInv'
  BY DMStep
<1>3. DMInv => NoDuplicates /\ NothingSkipped
  BY DEF DMInv
<1> QED
  BY <1>1, <1>2, <1>3, PTL DEF Spec

\* directMessageHistory: no message is on the page twice.
THEOREM MessagesOnce == Spec => []NoDuplicates
BY PageKeepsMessages, PTL

\* directMessageHistory: what the live cursor has passed is on the page or above it.
THEOREM MessagesKept == Spec => []NothingSkipped
BY PageKeepsMessages, PTL

\* The conversation page implements the message feed: every merge of an answer with
\* new messages delivers the next arrivals, every merge of an older page reveals one
\* without a hole, and nothing else changes what is shown.
THEOREM PageImplementsFeed == Spec => ImplementsFeed
<1>1. Init => DMInv /\ Feed!FeedInit
  BY InitFacts
<1>2. DMInv /\ [Next]_dmVars => DMInv' /\ [Feed!FeedNext]_(Feed!feedVars)
  BY DMStep
<1> QED
  BY <1>1, <1>2, PTL DEF Spec, ImplementsFeed, Feed!FeedSpec
=============================================================================
