---------------------------- MODULE StoreProofs -----------------------------
(***************************************************************************)
(* Theorems about Store: its accounting, its limits, its lists and its     *)
(* choice of victims; and what its operators on lists and its counts do.   *)
(***************************************************************************)
EXTENDS StoreSteps, StoreBudget, FiniteSetTheorems, SequenceTheorems

----------------------------------------------------------------------------
(* Lists *)

\* A nonempty set of naturals contains its minimum.
LEMMA MinInSet ==
  ASSUME NEW I \in SUBSET Nat, I # {}
  PROVE  Min(I) \in I /\ \A j \in I : Min(I) <= j
<1>1. IsWellFoundedOn(OpToRel(<, Nat), Nat)
  BY NatLessThanWellFounded, Zenon
<1>2. PICK x \in I : \A y \in I : ~ (<<y, x>> \in OpToRel(<, Nat))
  BY <1>1, WFMin, Zenon
<1>3. \A y \in I : x <= y
  <2> TAKE y \in I
  <2>1. ~ (y < x)
    BY <1>2, Zenon DEF OpToRel
  <2> QED BY <2>1
<1> QED BY <1>3, Zenon DEF Min

\* RemoveAt drops one position and keeps the order of the others.
LEMMA RemoveAtProperties ==
  ASSUME NEW S, NEW s \in Seq(S), NEW i \in 1 .. Len(s)
  PROVE  /\ RemoveAt(s, i) \in Seq(S)
         /\ Len(RemoveAt(s, i)) = Len(s) - 1
         /\ \A j \in 1 .. Len(s) - 1 : RemoveAt(s, i)[j] = IF j < i THEN s[j] ELSE s[j + 1]
<1> DEFINE a == SubSeq(s, 1, i - 1)
           b == SubSeq(s, i + 1, Len(s))
<1>0. Len(s) \in Nat /\ \A j \in 1 .. Len(s) : s[j] \in S
  BY LenProperties, ElementOfSeq, Zenon
<1>1. a \in Seq(S) /\ Len(a) = i - 1 /\ \A j \in 1 .. i - 1 : a[j] = s[j]
  <2>1. \A j \in 1 .. i - 1 : s[j] \in S
    BY <1>0
  <2>2. /\ a \in Seq(S)
        /\ Len(a) = IF 1 <= i - 1 THEN (i - 1) - 1 + 1 ELSE 0
        /\ \A j \in 1 .. (i - 1) - 1 + 1 : a[j] = s[1 + j - 1]
    BY <2>1, <1>0, SubSeqProperties DEF a
  <2> QED BY <2>2, <1>0
<1>2. b \in Seq(S) /\ Len(b) = Len(s) - i /\ \A j \in 1 .. Len(s) - i : b[j] = s[i + j]
  <2>1. \A j \in i + 1 .. Len(s) : s[j] \in S
    BY <1>0
  <2>2. /\ b \in Seq(S)
        /\ Len(b) = IF i + 1 <= Len(s) THEN Len(s) - (i + 1) + 1 ELSE 0
        /\ \A j \in 1 .. Len(s) - (i + 1) + 1 : b[j] = s[(i + 1) + j - 1]
    BY <2>1, <1>0, SubSeqProperties DEF b
  <2> QED BY <2>2, <1>0
<1>3. RemoveAt(s, i) = a \o b
  BY Zenon DEF RemoveAt
<1> HIDE DEF a, b
<1>4. /\ a \o b \in Seq(S)
      /\ Len(a \o b) = Len(a) + Len(b)
      /\ \A j \in 1 .. Len(a) + Len(b) : (a \o b)[j] = IF j <= Len(a) THEN a[j] ELSE b[j - Len(a)]
  BY <1>1, <1>2, ConcatProperties, Zenon
<1> QED BY <1>0, <1>1, <1>2, <1>3, <1>4

\* Removing the first occurrence from a list without repetition removes the
\* element, and nothing else.
LEMMA RemoveFirstProperties ==
  ASSUME NEW S, NEW s \in Seq(S), NEW e, IsInjective(s)
  PROVE  /\ RemoveFirst(s, e) \in Seq(S)
         /\ IsInjective(RemoveFirst(s, e))
         /\ Range(RemoveFirst(s, e)) = Range(s) \ {e}
<1>0. Len(s) \in Nat /\ DOMAIN s = 1 .. Len(s)
  BY LenProperties, Zenon
<1>1. CASE \E i \in 1 .. Len(s) : s[i] = e
  <2> DEFINE I == {i \in 1 .. Len(s) : s[i] = e}
             i == Min(I)
             r == RemoveAt(s, i)
  <2>1. i \in 1 .. Len(s) /\ s[i] = e
    <3>1. I \in SUBSET Nat /\ I # {}
      BY <1>0, <1>1
    <3> HIDE DEF I
    <3>2. i \in I
      BY <3>1, MinInSet, Zenon
    <3> QED BY <3>2, Zenon DEF I
  <2>2. RemoveFirst(s, e) = r
    BY <1>1, Zenon DEF RemoveFirst, RemoveFirstMatch
  <2> HIDE DEF i
  <2>3. /\ r \in Seq(S) /\ Len(r) = Len(s) - 1
        /\ \A j \in 1 .. Len(s) - 1 : r[j] = IF j < i THEN s[j] ELSE s[j + 1]
    BY <2>1, RemoveAtProperties, Zenon
  <2> HIDE DEF r
  <2>4. DOMAIN r = 1 .. Len(s) - 1
    BY <2>3, LenProperties, Zenon
  <2>5. IsInjective(r)
    <3> SUFFICES ASSUME NEW a \in 1 .. Len(s) - 1, NEW b \in 1 .. Len(s) - 1, r[a] = r[b]
                 PROVE  a = b
      BY <2>4, Zenon DEF IsInjective
    <3> DEFINE at(j) == IF j < i THEN j ELSE j + 1
    <3>1. at(a) \in 1 .. Len(s) /\ at(b) \in 1 .. Len(s) /\ (at(a) = at(b) => a = b)
      BY <1>0, <2>1
    <3>2. r[a] = s[at(a)] /\ r[b] = s[at(b)]
      BY <2>3, Zenon
    <3> HIDE DEF at
    <3>3. at(a) = at(b)
      BY <1>0, <3>1, <3>2, Zenon DEF IsInjective
    <3> QED BY <3>1, <3>3, Zenon
  <2>6. Range(r) \subseteq Range(s) \ {e}
    <3> SUFFICES ASSUME NEW j \in 1 .. Len(s) - 1
                 PROVE  r[j] # e /\ \E m \in 1 .. Len(s) : r[j] = s[m]
      BY <1>0, <2>4, Zenon DEF Range
    <3>1. PICK m \in 1 .. Len(s) : m # i /\ r[j] = s[m]
      <4>1. CASE j < i
        BY <1>0, <2>1, <2>3, <4>1
      <4>2. CASE ~ j < i
        <5>1. j + 1 \in 1 .. Len(s) /\ j + 1 # i /\ r[j] = s[j + 1]
          BY <1>0, <2>1, <2>3, <4>2, SMTT(20)
        <5> QED BY <5>1, Zenon
      <4> QED BY <4>1, <4>2, Zenon
    <3> QED BY <1>0, <2>1, <3>1, Zenon DEF IsInjective
  <2>7. Range(s) \ {e} \subseteq Range(r)
    <3> SUFFICES ASSUME NEW j \in 1 .. Len(s), s[j] # e
                 PROVE  \E m \in 1 .. Len(s) - 1 : r[m] = s[j]
      BY <1>0, <2>4, Zenon DEF Range
    <3>1. CASE j < i
      BY <1>0, <2>1, <2>3, <3>1, SMTT(20)
    <3>2. CASE j > i
      <4>1. j - 1 \in 1 .. Len(s) - 1 /\ r[j - 1] = s[j]
        BY <1>0, <2>1, <2>3, <3>2
      <4> QED BY <4>1, Zenon
    <3> QED BY <1>0, <2>1, <3>1, <3>2
  <2> QED BY <2>2, <2>3, <2>5, <2>6, <2>7, Zenon
<1>2. CASE ~ \E i \in 1 .. Len(s) : s[i] = e
  <2>1. RemoveFirst(s, e) = s
    BY <1>2, Zenon DEF RemoveFirst, RemoveFirstMatch
  <2>2. e \notin Range(s)
    BY <1>0, <1>2, Zenon DEF Range
  <2> QED BY <2>1, <2>2, Zenon
<1> QED BY <1>1, <1>2, Zenon

\* In general: what is left were elements before.
LEMMA RemoveAtSubset ==
  ASSUME NEW S, NEW s \in Seq(S), NEW i \in 1 .. Len(s)
  PROVE  Range(RemoveAt(s, i)) \subseteq Range(s)
<1> DEFINE r == RemoveAt(s, i)
<1>0. Len(s) \in Nat /\ DOMAIN s = 1 .. Len(s)
  BY LenProperties, Zenon
<1>1. /\ r \in Seq(S) /\ Len(r) = Len(s) - 1
      /\ \A j \in 1 .. Len(s) - 1 : r[j] = IF j < i THEN s[j] ELSE s[j + 1]
  BY RemoveAtProperties, Zenon
<1> HIDE DEF r
<1>2. DOMAIN r = 1 .. Len(s) - 1
  BY <1>1, LenProperties, Zenon
<1>3. ASSUME NEW j \in 1 .. Len(s) - 1 PROVE \E m \in 1 .. Len(s) : r[j] = s[m]
  BY <1>0, <1>1
<1> QED BY <1>0, <1>2, <1>3, Zenon DEF Range, r

\* Unlinking adds nothing to a list, linked twice or not (dllRemove).
LEMMA RemoveFirstSubset ==
  ASSUME NEW S, NEW s \in Seq(S), NEW e
  PROVE  RemoveFirst(s, e) \in Seq(S) /\ Range(RemoveFirst(s, e)) \subseteq Range(s)
<1>0. Len(s) \in Nat
  BY LenProperties, Zenon
<1>1. CASE \E i \in 1 .. Len(s) : s[i] = e
  <2> DEFINE I == {i \in 1 .. Len(s) : s[i] = e}
  <2>1. Min(I) \in 1 .. Len(s)
    <3>1. I \in SUBSET Nat /\ I # {}
      BY <1>0, <1>1
    <3> HIDE DEF I
    <3>2. Min(I) \in I
      BY <3>1, MinInSet, Zenon
    <3> QED BY <3>2, Zenon DEF I
  <2>2. RemoveFirst(s, e) = RemoveAt(s, Min(I))
    BY <1>1, Zenon DEF RemoveFirst, RemoveFirstMatch
  <2> QED BY <2>1, <2>2, RemoveAtProperties, RemoveAtSubset, Zenon
<1>2. CASE ~ \E i \in 1 .. Len(s) : s[i] = e
  BY <1>2, Zenon DEF RemoveFirst, RemoveFirstMatch
<1> QED BY <1>1, <1>2, Zenon

\* Pushing at the tail adds one entry and keeps the others (dllPushTail).
LEMMA AppendToSet ==
  ASSUME NEW S, NEW s \in Seq(S), NEW e \in S
  PROVE  Append(s, e) \in Seq(S) /\ Range(Append(s, e)) = Range(s) \cup {e}
<1> DEFINE r == Append(s, e)
<1>0. Len(s) \in Nat /\ DOMAIN s = 1 .. Len(s)
  BY LenProperties, Zenon
<1>1. /\ r \in Seq(S) /\ Len(r) = Len(s) + 1
      /\ \A i \in 1 .. Len(s) : r[i] = s[i]
      /\ r[Len(s) + 1] = e
  BY AppendProperties
<1>2. DOMAIN r = 1 .. Len(s) + 1
  BY <1>1, LenProperties, Zenon
<1> HIDE DEF r
<1>5. Range(r) \subseteq Range(s) \cup {e}
  BY <1>0, <1>1, <1>2, SMTT(20) DEF Range
<1>6. Range(s) \cup {e} \subseteq Range(r)
  BY <1>0, <1>1, <1>2, SMTT(20) DEF Range
<1> QED BY <1>1, <1>5, <1>6, Zenon DEF r

\* Appending a new element keeps a list free of repetition.
LEMMA AppendNew ==
  ASSUME NEW S, NEW s \in Seq(S), NEW e \in S, IsInjective(s), e \notin Range(s)
  PROVE  /\ Append(s, e) \in Seq(S)
         /\ IsInjective(Append(s, e))
         /\ Range(Append(s, e)) = Range(s) \cup {e}
<1> DEFINE r == Append(s, e)
<1>0. Len(s) \in Nat /\ DOMAIN s = 1 .. Len(s)
  BY LenProperties, Zenon
<1>1. /\ r \in Seq(S) /\ Len(r) = Len(s) + 1
      /\ \A i \in 1 .. Len(s) : r[i] = s[i]
      /\ r[Len(s) + 1] = e
  BY AppendProperties
<1>2. DOMAIN r = 1 .. Len(s) + 1
  BY <1>1, LenProperties, Zenon
<1> HIDE DEF r
<1>3. \A i \in 1 .. Len(s) : s[i] # e
  BY <1>0, Zenon DEF Range
<1>4. IsInjective(r)
  BY <1>0, <1>1, <1>2, <1>3 DEF IsInjective
<1> QED BY <1>1, <1>4, AppendToSet DEF r

\* A set of positive numbers up to n that contains 1, and i when it contains i - 1, is full.
LEMMA UpTo ==
  ASSUME NEW n \in Nat, NEW G, 1 \in G, \A i \in 2 .. n : i - 1 \in G => i \in G
  PROVE  \A i \in 1 .. n : i \in G
<1> DEFINE Bad == {i \in 1 .. n : i \notin G}
<1>1. SUFFICES ASSUME Bad # {} PROVE FALSE
  BY Zenon
<1>2. Bad \in SUBSET Nat
  OBVIOUS
<1>3. Min(Bad) \in Bad /\ \A j \in Bad : Min(Bad) <= j
  BY <1>1, <1>2, MinInSet, Zenon
<1>4. PICK m \in Bad : \A j \in Bad : m <= j
  BY <1>3, Zenon
<1>5. m # 1 /\ m - 1 \in 1 .. n /\ m \in 2 .. n
  BY <1>4
<1>6. m - 1 \in G
  BY <1>4, <1>5, SMTT(20)
<1> QED BY <1>4, <1>5, <1>6, Zenon

\* Concatenating lists keeps their elements and adds none.
LEMMA FlattenProperties ==
  ASSUME NEW S, NEW n \in Nat \ {0}, NEW q, q \in Seq(Seq(S)), Len(q) = n
  PROVE  /\ Flatten(q) \in Seq(S)
         /\ \A x \in Range(Flatten(q)) : \E i \in 1 .. n : x \in Range(q[i])
<1> DEFINE D(f, m) == f = [i \in 1 .. m |-> IF i = 1 THEN q[i] ELSE f[i - 1] \o q[i]]
           G == {m \in 1 .. n : \E f : D(f, m)}
           flat == CHOOSE f : D(f, n)
<1>1. Flatten(q) = flat[n]
  BY Zenon DEF Flatten
<1>2. 1 \in G
  <2> DEFINE g == [i \in 1 .. 1 |-> q[1]]
  <2>1. D(g, 1)
    OBVIOUS
  <2> HIDE DEF D, g
  <2>2. \E f : D(f, 1)
    BY <2>1, Zenon
  <2> QED BY <2>2
<1>3. ASSUME NEW m \in 2 .. n, m - 1 \in G PROVE m \in G
  <2>1. PICK f : D(f, m - 1)
    BY <1>3, Zenon
  <2> DEFINE g == [i \in 1 .. m |-> IF i = m THEN f[m - 1] \o q[m] ELSE f[i]]
  <2>2. \A i \in 1 .. m - 1 : g[i] = f[i]
    OBVIOUS
  <2>3. ASSUME NEW i \in 1 .. m PROVE g[i] = IF i = 1 THEN q[i] ELSE g[i - 1] \o q[i]
    <3>1. CASE i = m
      <4>1. m # 1 /\ m - 1 \in 1 .. m - 1 /\ m \in 1 .. m
        OBVIOUS
      <4>2. g[m] = f[m - 1] \o q[m]
        BY <4>1, Zenon
      <4> HIDE DEF g
      <4> QED BY <2>2, <3>1, <4>1, <4>2, Zenon
    <3>2. CASE i # m
      <4>1. i \in 1 .. m - 1 /\ g[i] = f[i]
        BY <3>2
      <4>2. f[i] = IF i = 1 THEN q[i] ELSE f[i - 1] \o q[i]
        BY <2>1, <4>1, Zenon
      <4>3. i # 1 => i - 1 \in 1 .. m - 1
        BY <4>1
      <4> HIDE DEF g
      <4> QED BY <2>2, <4>1, <4>2, <4>3, Zenon
    <3> QED BY <3>1, <3>2, Zenon
  <2>4. D(g, m)
    BY <2>3, Zenon
  <2> HIDE DEF D, g
  <2>5. \E h : D(h, m)
    BY <2>4, Zenon
  <2> QED BY <2>5
<1>4. n \in G
  <2> HIDE DEF G
  <2>1. \A i \in 1 .. n : i \in G
    BY <1>2, <1>3, UpTo, Zenon
  <2> QED BY <2>1
<1>5. D(flat, n)
  <2>1. \E f : D(f, n)
    BY <1>4, Zenon
  <2> HIDE DEF D
  <2> QED BY <2>1, Zenon
<1>6. \A i \in 1 .. n : q[i] \in Seq(S)
  BY ElementOfSeq, Zenon
<1> DEFINE U == UNION {Range(q[i]) : i \in 1 .. n}
           H == {m \in 1 .. n : flat[m] \in Seq(S) /\ Range(flat[m]) \subseteq U}
<1> HIDE DEF flat
<1>7. flat[1] = q[1] /\ \A m \in 2 .. n : flat[m] = flat[m - 1] \o q[m]
  <2>1. \A m \in 1 .. n : flat[m] = IF m = 1 THEN q[m] ELSE flat[m - 1] \o q[m]
    BY <1>5, Zenon
  <2>2. 1 \in 1 .. n /\ \A m \in 2 .. n : m \in 1 .. n /\ m # 1
    OBVIOUS
  <2> QED BY <2>1, <2>2, Zenon
<1>8. 1 \in H
  <2>1. 1 \in 1 .. n /\ Range(q[1]) \subseteq U
    OBVIOUS
  <2> HIDE DEF U
  <2> QED BY <1>6, <1>7, <2>1, Zenon
<1>9. ASSUME NEW m \in 2 .. n, m - 1 \in H PROVE m \in H
  <2>0. flat[m - 1] \in Seq(S)
    BY <1>9, Zenon
  <2>1. flat[m] = flat[m - 1] \o q[m] /\ flat[m - 1] \in Seq(S) /\ q[m] \in Seq(S)
    <3>1. m \in 1 .. n
      OBVIOUS
    <3> QED BY <1>6, <1>7, <2>0, <3>1, Zenon
  <2>2. flat[m] \in Seq(S)
    BY <2>1, SMTT(20)
  <2>3. Range(flat[m]) \subseteq Range(flat[m - 1]) \cup Range(q[m])
    <3> SUFFICES ASSUME NEW a \in Seq(S), NEW b \in Seq(S)
                 PROVE  Range(a \o b) \subseteq Range(a) \cup Range(b)
      BY <2>1, Zenon
    <3>1. SUFFICES ASSUME NEW i \in 1 .. Len(a \o b)
                   PROVE  (a \o b)[i] \in Range(a) \cup Range(b)
      BY ConcatProperties, LenProperties, SMTT(20) DEF Range
    <3> QED BY ConcatProperties, LenProperties, SMTT(20) DEF Range
  <2>4. Range(q[m]) \subseteq U
    BY SMTT(20)
  <2> HIDE DEF U
  <2> QED BY <1>9, <2>2, <2>3, <2>4
<1>10. n \in H
  <2> HIDE DEF H
  <2>1. \A i \in 1 .. n : i \in H
    BY <1>8, <1>9, UpTo, Zenon
  <2> QED BY <2>1
<1>11. flat[n] \in Seq(S) /\ Range(flat[n]) \subseteq U
  BY <1>10, Zenon
<1> QED BY <1>1, <1>11

----------------------------------------------------------------------------
(* Counting.  f[k] is the number of bytes charged to k. *)

\* Only the charges of K matter for the bytes of K.
LEMMA FilledSame ==
  ASSUME NEW f, NEW g, NEW K, NEW n \in Nat, \A k \in K : f[k] = g[k]
  PROVE  Filled(f, K, n) = Filled(g, K, n)
BY Zenon DEF Filled

\* The bytes of finitely many bounded entries can be counted.
LEMMA FilledFinite ==
  ASSUME NEW f, NEW K, IsFiniteSet(K), NEW n \in Nat
  PROVE  IsFiniteSet(Filled(f, K, n)) /\ Cardinality(Filled(f, K, n)) \in Nat
<1>1. IsFiniteSet(1 .. n)
  BY FS_Interval, SMTT(20)
<1>2. IsFiniteSet(K \X (1 .. n))
  BY <1>1, FS_Product, Zenon
<1>3. Filled(f, K, n) \in SUBSET (K \X (1 .. n))
  BY Zenon DEF Filled
<1>4. IsFiniteSet(Filled(f, K, n))
  BY <1>2, <1>3, FS_Subset, Zenon
<1> QED BY <1>4, FS_CardinalityType, Zenon

\* The bytes of one key.
LEMMA FilledOne ==
  ASSUME NEW f, NEW k, NEW n \in Nat, f[k] \in 0 .. n
  PROVE  IsFiniteSet(Filled(f, {k}, n)) /\ Cardinality(Filled(f, {k}, n)) = f[k]
<1>1. Filled(f, {k}, n) = {k} \X (1 .. f[k])
  BY DEF Filled
<1>2. IsFiniteSet({k}) /\ Cardinality({k}) = 1
  BY FS_Singleton, Zenon
<1>3. IsFiniteSet(1 .. f[k]) /\ Cardinality(1 .. f[k]) = f[k]
  <2>1. 1 \in Int /\ f[k] \in Int
    OBVIOUS
  <2>2. /\ IsFiniteSet(1 .. f[k])
        /\ Cardinality(1 .. f[k]) = IF 1 > f[k] THEN 0 ELSE f[k] - 1 + 1
    BY <2>1, FS_Interval, Zenon
  <2> QED BY <2>2
<1>4. /\ IsFiniteSet({k} \X (1 .. f[k]))
      /\ Cardinality({k} \X (1 .. f[k])) = Cardinality({k}) * Cardinality(1 .. f[k])
  BY <1>2, <1>3, FS_Product, Zenon
<1>5. 1 * f[k] = f[k]
  OBVIOUS
<1> QED BY <1>1, <1>2, <1>3, <1>4, <1>5, Zenon

\* Splitting off one key.
LEMMA FilledSplit ==
  ASSUME NEW f, NEW K, IsFiniteSet(K), NEW k \in K, NEW n \in Nat, f[k] \in 0 .. n
  PROVE  Cardinality(Filled(f, K, n)) = Cardinality(Filled(f, K \ {k}, n)) + f[k]
<1> DEFINE A == Filled(f, K \ {k}, n)
           B == Filled(f, {k}, n)
<1>1. Filled(f, K, n) = A \cup B
  BY Zenon DEF Filled
<1>6. A \cap B = {}
  BY Zenon DEF Filled
<1>2. IsFiniteSet(K \ {k})
  BY FS_RemoveElement, Zenon
<1>3. IsFiniteSet(A) /\ Cardinality(A) \in Nat
  BY <1>2, FilledFinite, Zenon
<1>4. IsFiniteSet(B) /\ Cardinality(B) = f[k]
  BY FilledOne, Zenon
<1>5. Cardinality(A \cup B) = Cardinality(A) + Cardinality(B) - Cardinality(A \cap B)
  BY <1>3, <1>4, FS_Union, Zenon
<1>7. Cardinality(A \cap B) = 0
  BY <1>6, FS_EmptySet, Zenon
<1> QED BY <1>1, <1>3, <1>4, <1>5, <1>7, SMTT(20)

\* Changing the charge of one key of K changes the count of K by the difference.
LEMMA FilledChange ==
  ASSUME NEW f, NEW g, NEW K, IsFiniteSet(K), NEW k \in K, NEW n \in Nat,
         f[k] \in 0 .. n, g[k] \in 0 .. n, \A j \in K \ {k} : f[j] = g[j]
  PROVE  Cardinality(Filled(g, K, n)) = Cardinality(Filled(f, K, n)) - f[k] + g[k]
<1>1. Filled(f, K \ {k}, n) = Filled(g, K \ {k}, n)
  BY FilledSame
<1>2. IsFiniteSet(K \ {k})
  BY FS_RemoveElement, Zenon
<1>3. Cardinality(Filled(f, K \ {k}, n)) \in Nat
  BY <1>2, FilledFinite, Zenon
<1>4. Cardinality(Filled(f, K, n)) = Cardinality(Filled(f, K \ {k}, n)) + f[k]
  BY FilledSplit, Zenon
<1>5. Cardinality(Filled(g, K, n)) = Cardinality(Filled(g, K \ {k}, n)) + g[k]
  BY FilledSplit, Zenon
<1> QED BY <1>1, <1>3, <1>4, <1>5, SMTT(20)

----------------------------------------------------------------------------
(* What the steps take for granted *)

\* The lists and the counts do what the steps take them to do.
LEMMA FactsHold == Facts
<1>1. MinFact
  BY MinInSet, Zenon DEF MinFact
<1>2. RemoveAtFact
  BY RemoveAtProperties, RemoveAtSubset, Zenon DEF RemoveAtFact
<1>3. RemoveFirstFact
  BY RemoveFirstProperties, RemoveFirstSubset, Zenon DEF RemoveFirstFact
<1>4. AppendFact
  BY AppendNew, AppendToSet DEF AppendFact
<1>5. FlattenFact
  <2> SUFFICES ASSUME NEW q \in Seq(Seq(Entries)), q # <<>>
               PROVE  /\ Flatten(q) \in Seq(Entries)
                      /\ \A x \in Range(Flatten(q)) : \E i \in 1 .. Len(q) : x \in Range(q[i])
    BY Zenon DEF FlattenFact
  <2>1. Len(q) \in Nat \ {0}
    BY EmptySeq, LenProperties, Zenon
  <2> QED BY <2>1, FlattenProperties, Zenon
<1>6. FilledFact
  <2> SUFFICES ASSUME NEW K, IsFiniteSet(K), NEW n \in Nat
               PROVE  /\ \A f : IsFiniteSet(Filled(f, K, n)) /\ Cardinality(Filled(f, K, n)) \in Nat
                      /\ \A f : \A k \in K : f[k] \in 0 .. n =>
                           Cardinality(Filled(f, K, n)) = Cardinality(Filled(f, K \ {k}, n)) + f[k]
                      /\ \A f, g : \A k \in K :
                           f[k] \in 0 .. n /\ g[k] \in 0 .. n /\ (\A j \in K \ {k} : f[j] = g[j]) =>
                             Cardinality(Filled(g, K, n)) = Cardinality(Filled(f, K, n)) - f[k] + g[k]
    BY Zenon DEF FilledFact
  <2> QED BY FilledFinite, FilledSplit, FilledChange, SMTT(20)
<1>7. CountingFact
  <2> SUFFICES ASSUME NEW S, IsFiniteSet(S)
               PROVE  /\ Cardinality(S) \in Nat
                      /\ Cardinality(S) = 0 => S = {}
                      /\ \A T \in SUBSET S : IsFiniteSet(T) /\ Cardinality(T) <= Cardinality(S)
                      /\ \A x \in S : IsFiniteSet(S \ {x}) /\ Cardinality(S \ {x}) = Cardinality(S) - 1
                      /\ \A x : x \notin S => /\ IsFiniteSet(S \cup {x})
                                              /\ Cardinality(S \cup {x}) = Cardinality(S) + 1
    BY FS_EmptySet, Zenon DEF CountingFact
  <2>1. Cardinality(S) \in Nat /\ (Cardinality(S) = 0 => S = {})
    BY FS_CardinalityType, FS_EmptySet, Zenon
  <2>2. \A T \in SUBSET S : IsFiniteSet(T) /\ Cardinality(T) <= Cardinality(S)
    BY FS_Subset, Zenon
  <2>3. \A x \in S : IsFiniteSet(S \ {x}) /\ Cardinality(S \ {x}) = Cardinality(S) - 1
    BY FS_RemoveElement, Zenon
  <2>4. \A x : x \notin S => IsFiniteSet(S \cup {x}) /\ Cardinality(S \cup {x}) = Cardinality(S) + 1
    BY FS_AddElement, Zenon
  <2> QED BY <2>1, <2>2, <2>3, <2>4, Zenon
<1> QED BY <1>1, <1>2, <1>3, <1>4, <1>5, <1>6, <1>7, Zenon DEF Facts

----------------------------------------------------------------------------
(* Theorems *)

\* Each conjunct of the invariant holds in every reachable state.
THEOREM Invariance == Spec => []IInv
<1>0. Facts
  BY FactsHold, Zenon
<1>1. Init => IInv
  BY <1>0, InitOK, Zenon
<1>2. IInv /\ [Next]_vars => IInv'
  BY <1>0, NextOK, Zenon
<1> QED BY <1>1, <1>2, PTL DEF Spec

\* Every variable keeps the type of its Go field: no operation leaves a nil entry
\* in a list, a negative counter or a thread in a state with no continuation.
THEOREM TypeCorrect == Spec => []TypeOK
BY Invariance, IInvType, PTL

\* sh.used and db.used equal the sizes of the stored entries after every step of
\* every operation, for any number of concurrent clients.
THEOREM AccountingCorrect == Spec => []Accounting
<1>1. IInv => Accounting
  BY Zenon DEF IInv, ShardOK
<1> QED BY <1>1, Invariance, PTL

\* The recency and insertion lists of a shard hold the entries of its map, each
\* exactly once, between any two steps.
THEOREM ShardListsCorrect == Spec => []ShardLists
<1>1. IInv => ShardLists
  BY Zenon DEF IInv, ShardOK
<1> QED BY <1>1, Invariance, PTL

\* Both invariants hold in every reachable state.
LEMMA WhereInvariance == Spec => [](IInv /\ WhereInv)
<1>0. Facts
  BY FactsHold, Zenon
<1>1. Init => IInv /\ WhereInv
  BY <1>0, WhereInit, InitOK, Zenon
<1>2. IInv /\ WhereInv /\ [Next]_vars => (IInv /\ WhereInv)'
  BY <1>0, WhereStep, NextOK, Zenon
<1> QED BY <1>1, <1>2, PTL DEF Spec

\* SET, EXPIRE, SET KEEPTTL and INCR never store a deadline beyond MaxTTL (Set and
\* setExpireAt clamp what they are given; IncrBy and KEEPTTL pass on a clamped one),
\* for any number of keys, clients and shards and under changes of the strategy.
THEOREM TTLLimited == Spec => []TTLWithinMax
<1>1. IInv /\ WhereInv => TTLWithinMax
  BY Zenon DEF IInv, ShardOK, ShardType, WhereInv, DeadlinesOK, Within, TTLWithinMax
<1> QED BY <1>1, WhereInvariance, PTL

\* SET NX and SET XX are decided under the mutex that the write is done under.
THEOREM WritesConditional == Spec => ConditionalWrites
<1>0. Facts
  BY FactsHold, Zenon
<1>2. IInv /\ WhereInv /\ [Next]_vars =>
        [\A t \in Clients :
           (pc[t] = "write" /\ pc'[t] \notin {"write", "idle"}) =>
              /\ loc[t].mode = "nx" => ~ Found(t)
              /\ loc[t].mode = "xx" => Found(t)]_vars
  BY <1>0, WriteConditional, Zenon
<1> QED BY <1>2, WhereInvariance, PTL DEF Spec, ConditionalWrites

\* ensureSpaceShardBudget gives up only when pickLocalVictim has nothing to offer, and
\* that is when the shard has no other entry the policy may evict.
THEOREM OutOfMemoryJustified == Spec => OomJustified
<1>0. Facts
  BY FactsHold, Zenon
<1>2. IInv /\ WhereInv /\ [Next]_vars =>
        [\A t \in Clients :
           (pc[t] = "budget" /\ pc'[t] = "idle") =>
              \A k \in ShardKeys(Shard(t)) \ {loc[t].key} : data[k] # Nil => ~ eligible(data[k])]_vars
  BY <1>0, BudgetGivesUp, Zenon
<1> QED BY <1>2, WhereInvariance, PTL DEF Spec, OomJustified

\* Under GlobalTrack and Steal db.used exceeds MaxMemory by at most MaxSize for each
\* client, however the checks of db.used and the writes of concurrent Sets interleave.
THEOREM OvershootLimited ==
  ASSUME SwitchTo = {}
  PROVE  Spec => []OvershootBounded
<1>0. Facts
  BY FactsHold, Zenon
<1>1. Init => OvershootBounded
  BY <1>0, OvershootInit, Zenon
<1>2. IInv /\ WhereInv /\ OvershootBounded /\ [Next]_vars => OvershootBounded'
  BY <1>0, NextOK, OvershootNext, Zenon
<1> QED BY <1>1, <1>2, WhereInvariance, PTL DEF Spec

\* The invariant holds in every reachable state.
LEMMA ListInvariance ==
  ASSUME SwitchTo = {}
  PROVE  Spec => []ListInv
<1>1. IInv /\ WhereInv /\ ListInv /\ [Next]_vars => ListInv'
  BY FactsHold, ListInvStep, Zenon
<1> QED BY <1>1, ListInvInit, WhereInvariance, PTL DEF Spec

\* As long as the strategy is not changed, no interleaving of Set, Get, Del, expiry, flush and
\* eviction links an entry twice into a tenant-wide list.
THEOREM NeverLinkedTwice ==
  ASSUME SwitchTo = {}
  PROVE  Spec => []LinkedOnce
<1>1. ListInv => LinkedOnce
  BY Zenon DEF ListInv
<1> QED BY <1>1, ListInvariance, PTL

\* Under GlobalTrack every stored entry is in the insertion list, or its Set is about to
\* push it there, as long as the strategy is not changed.
THEOREM FifoListComplete ==
  ASSUME SwitchTo = {}
  PROVE  Spec => []FifoComplete
<1>1. ListInv => FifoComplete
  BY Zenon DEF ListInv
<1> QED BY <1>1, ListInvariance, PTL

\* As long as the strategy is not changed, no shard under ShardBudget ever holds more than
\* its budget: ensureSpace checks for room and Set writes under one hold of the mutex.
THEOREM BudgetsKept ==
  ASSUME SwitchTo = {}
  PROVE  Spec => []BudgetRespected
<1>1. IInv /\ WhereInv /\ BudgetInv /\ [Next]_vars => BudgetInv'
  BY FactsHold, BudgetStep, Zenon
<1>2. BudgetInv => BudgetRespected
  BY Zenon DEF BudgetInv, BudgetRespected
<1> QED BY <1>1, <1>2, BudgetInit, WhereInvariance, PTL DEF Spec
=============================================================================
