--------------------------- MODULE PersistProofs ----------------------------
(***************************************************************************)
(* Theorems about Persist: what Load rebuilds from the lines of the AOF,   *)
(* and what survives a crash at any point of the operations and of SAVE.   *)
(***************************************************************************)
EXTENDS PersistSteps, FiniteSetTheorems, SequenceTheorems

----------------------------------------------------------------------------
(* Numbers *)

\* A set of naturals up to n that contains 0, and i when it contains i - 1, is full.
LEMMA FromZero ==
  ASSUME NEW n \in Nat, NEW G, 0 \in G, \A i \in 1 .. n : i - 1 \in G => i \in G
  PROVE  \A i \in 0 .. n : i \in G
<1> DEFINE Bad == {i \in 0 .. n : i \notin G}
<1>1. SUFFICES ASSUME Bad # {} PROVE FALSE
  BY Zenon
<1>2. IsWellFoundedOn(OpToRel(<, Nat), Nat)
  BY NatLessThanWellFounded, Zenon
<1>3. PICK m \in Bad : \A y \in Bad : ~ (<<y, m>> \in OpToRel(<, Nat))
  <2>1. Bad \subseteq Nat
    OBVIOUS
  <2> HIDE DEF Bad
  <2> QED BY <1>1, <1>2, <2>1, WFMin, Zenon
<1>4. m \in 0 .. n /\ m \notin G
  BY <1>3, Zenon
<1>5. m \in 1 .. n
  <2>1. m # 0
    BY <1>4, Zenon
  <2> QED BY <1>4, <2>1
<1>6. \A y \in Bad : ~ (y < m)
  <2> TAKE y \in Bad
  <2>1. y \in Nat /\ m \in Nat
    BY <1>4
  <2> QED BY <1>3, <2>1, Zenon DEF OpToRel
<1>7. m - 1 \in G
  <2>1. m - 1 \in 0 .. n /\ m - 1 < m
    BY <1>5
  <2> QED BY <1>6, <2>1, Zenon
<1> QED BY <1>4, <1>5, <1>7, Zenon

\* A nonempty set of numbers up to n has a largest element.
LEMMA Largest ==
  ASSUME NEW n \in Nat, NEW I \in SUBSET (1 .. n), I # {}
  PROVE  \E i \in I : \A j \in I : j <= i
<1> DEFINE G == {m \in 0 .. n : (\E i \in I : i <= m) => \E i \in I : \A j \in I : j <= m => j <= i}
<1>1. 0 \in G
  OBVIOUS
<1>2. ASSUME NEW m \in 1 .. n, m - 1 \in G PROVE m \in G
  <2>1. CASE m \in I
    BY <2>1
  <2>2. CASE m \notin I
    <3>1. \A j \in I : j <= m => j <= m - 1
      BY <2>2
    <3>2. (\E i \in I : i <= m - 1) => \E i \in I : \A j \in I : j <= m - 1 => j <= i
      BY <1>2, Zenon
    <3> QED BY <3>1, <3>2
  <2> QED BY <2>1, <2>2, Zenon
<1>3. n \in G
  <2> HIDE DEF G
  <2>1. \A i \in 0 .. n : i \in G
    BY <1>1, <1>2, FromZero, Zenon
  <2> QED BY <2>1
<1>4. \A j \in I : j <= n
  OBVIOUS
<1>5. \E i \in I : i <= n
  BY <1>4, Zenon
<1>6. PICK i \in I : \A j \in I : j <= n => j <= i
  BY <1>3, <1>5, Zenon
<1> QED BY <1>4, <1>6, Zenon

----------------------------------------------------------------------------
(* The last line on a key *)

\* The last line on k is the one after which there is none.
LEMMA FinalLast ==
  ASSUME NEW L, NEW lines \in Seq(L), NEW k, NEW b, NEW i \in On(lines, k),
         \A j \in On(lines, k) : j <= i
  PROVE  Final(lines, k, b) = EntryOf(lines[i])
<1> DEFINE m == CHOOSE x \in On(lines, k) : \A j \in On(lines, k) : j <= x
<1>1. m \in On(lines, k) /\ \A j \in On(lines, k) : j <= m
  BY Zenon
<1>2. On(lines, k) \subseteq Int
  BY DEF On
<1>3. m = i
  BY <1>1, <1>2
<1>4. Final(lines, k, b) = EntryOf(lines[m])
  BY Zenon DEF Final
<1> QED BY <1>3, <1>4, Zenon

\* There is a last line on k if there is any.
LEMMA LastLine ==
  ASSUME NEW L, NEW lines \in Seq(L), NEW k, On(lines, k) # {}
  PROVE  \E i \in On(lines, k) : \A j \in On(lines, k) : j <= i
<1>1. Len(lines) \in Nat /\ On(lines, k) \in SUBSET (1 .. Len(lines))
  BY LenProperties, Zenon DEF On
<1> QED BY <1>1, Largest, Zenon

\* Lines q after lines p act on what p has made.
LEMMA ConcatMakes ==
  ASSUME NEW p \in Seq(DataLine), NEW q \in Seq(DataLine), NEW k, NEW b
  PROVE  /\ Final(p \o q, k, b) = Final(q, k, Final(p, k, b))
         /\ On(p \o q, k) = {} <=> On(p, k) = {} /\ On(q, k) = {}
<1> DEFINE r == p \o q
           n == Len(p)
<1>1. /\ r \in Seq(DataLine) /\ n \in Nat /\ Len(q) \in Nat /\ Len(r) = n + Len(q)
      /\ \A i \in 1 .. Len(r) : r[i] = IF i <= n THEN p[i] ELSE q[i - n]
  BY ConcatProperties, LenProperties, Zenon
<1> HIDE DEF r, n
<1>2. \A i \in 1 .. n : i \in On(r, k) <=> i \in On(p, k)
  BY <1>1 DEF On, n
<1>3. ASSUME NEW i \in 1 .. Len(q) PROVE i + n \in On(r, k) <=> i \in On(q, k)
  <2>1. i + n \in 1 .. Len(r) /\ ~ (i + n <= n) /\ (i + n) - n = i
    BY <1>1
  <2>2. r[i + n] = q[i]
    BY <1>1, <2>1, Zenon
  <2> QED BY <2>1, <2>2, Zenon DEF On
<1>4. \A i \in On(r, k) : i \in On(p, k) \/ (i - n \in On(q, k) /\ i > n)
  BY <1>1 DEF On, n
<1>5. On(p, k) \subseteq On(r, k) /\ \A i \in On(q, k) : i + n \in On(r, k)
  BY <1>1, <1>2, <1>3, Zenon DEF On, n
<1>6. On(r, k) = {} <=> On(p, k) = {} /\ On(q, k) = {}
  BY <1>4, <1>5, Zenon
<1>7. Final(r, k, b) = Final(q, k, Final(p, k, b))
  <2>1. CASE On(q, k) # {}
    <3>1. PICK i \in On(q, k) : \A j \in On(q, k) : j <= i
      BY <2>1, LastLine, Zenon
    <3>2. i + n \in On(r, k) /\ \A j \in On(r, k) : j <= i + n
      <4>1. ASSUME NEW j \in On(r, k) PROVE j <= i + n
        <5>1. CASE j \in On(p, k)
          BY <1>1, <3>1, <5>1 DEF On, n
        <5>2. CASE j - n \in On(q, k)
          BY <1>1, <3>1, <5>2 DEF On
        <5> QED BY <1>4, <5>1, <5>2, Zenon
      <4> QED BY <1>5, <4>1, Zenon
    <3>3. Final(r, k, b) = EntryOf(r[i + n])
      BY <1>1, <3>2, FinalLast, Zenon
    <3>4. Final(q, k, Final(p, k, b)) = EntryOf(q[i])
      BY <3>1, FinalLast, Zenon
    <3>5. r[i + n] = q[i]
      BY <1>1, <3>1 DEF On
    <3> QED BY <3>3, <3>4, <3>5, Zenon
  <2>2. CASE On(q, k) = {} /\ On(p, k) # {}
    <3>1. PICK i \in On(p, k) : \A j \in On(p, k) : j <= i
      BY <2>2, LastLine, Zenon
    <3>2. i \in On(r, k) /\ \A j \in On(r, k) : j <= i
      BY <1>4, <1>5, <2>2, <3>1, Zenon
    <3>3. Final(r, k, b) = EntryOf(r[i])
      BY <1>1, <3>2, FinalLast, Zenon
    <3>4. Final(p, k, b) = EntryOf(p[i])
      BY <3>1, FinalLast, Zenon
    <3>5. r[i] = p[i]
      BY <1>1, <3>1 DEF On, n
    <3>6. Final(q, k, Final(p, k, b)) = Final(p, k, b)
      BY <2>2, Zenon DEF Final
    <3> QED BY <3>3, <3>4, <3>5, <3>6, Zenon
  <2>3. CASE On(q, k) = {} /\ On(p, k) = {}
    <3>1. On(r, k) = {}
      BY <1>6, <2>3, Zenon
    <3> QED BY <2>3, <3>1, Zenon DEF Final
  <2> QED BY <2>1, <2>2, <2>3, Zenon
<1> QED BY <1>6, <1>7, Zenon DEF r

\* It does.
LEMMA AppendMakes == \A lines \in Seq(DataLine), r \in DataLine, k \in Keys : Appended(lines, r, k)
<1> SUFFICES ASSUME NEW lines \in Seq(DataLine), NEW r \in DataLine, NEW k \in Keys
             PROVE  Appended(lines, r, k)
  BY Zenon
<1> DEFINE q == <<r>>
<1>1. q \in Seq(DataLine) /\ Append(lines, r) = lines \o q /\ Len(q) = 1 /\ q[1] = r
  BY ConcatProperties, AppendProperties, LenProperties
<1>2. On(q, k) = IF r.key = k THEN {1} ELSE {}
  <2> HIDE DEF q
  <2> QED BY <1>1 DEF On
<1> HIDE DEF q
<1>3. \A c : Final(q, k, c) = IF r.key = k THEN EntryOf(r) ELSE c
  <2>1. CASE r.key = k
    <3>1. 1 \in On(q, k) /\ \A j \in On(q, k) : j <= 1
      BY <1>2, <2>1
    <3>2. \A c : Final(q, k, c) = EntryOf(q[1])
      BY <1>1, <3>1, FinalLast, Zenon
    <3> QED BY <1>1, <2>1, <3>2, Zenon
  <2>2. CASE r.key # k
    BY <1>2, <2>2, Zenon DEF Final
  <2> QED BY <2>1, <2>2, Zenon
<1>4. ASSUME NEW b PROVE Final(lines \o q, k, b) = Final(q, k, Final(lines, k, b))
  <2>1. q \in Seq(DataLine)
    BY <1>1, Zenon
  <2> QED BY <2>1, ConcatMakes
<1>5. On(lines \o q, k) = {} <=> On(lines, k) = {} /\ On(q, k) = {}
  <2>1. q \in Seq(DataLine)
    BY <1>1, Zenon
  <2> QED BY <2>1, ConcatMakes, Zenon
<1>6. On(q, k) = {} <=> r.key # k
  BY <1>2, Zenon
<1>7. \A b : Final(Append(lines, r), k, b) = IF r.key = k THEN EntryOf(r) ELSE Final(lines, k, b)
  BY <1>1, <1>3, <1>4, Zenon
<1>8. On(Append(lines, r), k) # {} <=> (On(lines, k) # {} \/ k = r.key)
  BY <1>1, <1>5, <1>6, Zenon
<1> QED BY <1>7, <1>8, Zenon DEF Appended

\* What lines of SET and DEL make of a key is an entry, and depends on what was there
\* only when there is no line of that key.
LEMMA LinesSettle ==
  ASSUME NEW lines \in Seq(DataLine), NEW k
  PROVE  /\ \A b \in Entry : Final(lines, k, b) \in Entry
         /\ On(lines, k) # {} => \A a, b : Final(lines, k, a) = Final(lines, k, b)
         /\ On(lines, k) = {} => \A b : Final(lines, k, b) = b
<1>1. \A r \in DataLine : EntryOf(r) \in Entry
  BY NothingTypes, Zenon DEF DataLine, Line, EntryOf, Entry
<1>2. \A i \in On(lines, k) : lines[i] \in DataLine
  BY ElementOfSeq, Zenon DEF On
<1>3. CASE On(lines, k) # {}
  <2>1. PICK i \in On(lines, k) : \A j \in On(lines, k) : j <= i
    BY <1>3, LastLine, Zenon
  <2>2. \A b : Final(lines, k, b) = EntryOf(lines[i])
    BY <2>1, FinalLast, Zenon
  <2> QED BY <1>1, <1>2, <1>3, <2>2, Zenon
<1>4. CASE On(lines, k) = {}
  BY <1>4, Zenon DEF Final
<1> QED BY <1>3, <1>4, Zenon

----------------------------------------------------------------------------
(* Replaying *)

\* One line of a replay.
Apply(st, r, now) == IF st.ok THEN applyAOF(st, r, now) ELSE st

\* The states that a replay goes through.
States(base, lines, now) ==
  CHOOSE f : f = [n \in 0 .. Len(lines) |-> IF n = 0 THEN [mem |-> base, ok |-> TRUE]
                                            ELSE Apply(f[n - 1], lines[n], now)]

\* They exist, and the last one is the result of the replay.
LEMMA ReplayStates ==
  ASSUME NEW base, NEW lines \in Seq(Line), NEW now
  PROVE  /\ States(base, lines, now)[0] = [mem |-> base, ok |-> TRUE]
         /\ \A n \in 1 .. Len(lines) : States(base, lines, now)[n] =
                                        Apply(States(base, lines, now)[n - 1], lines[n], now)
         /\ Replay(base, lines, now) = States(base, lines, now)[Len(lines)]
<1> DEFINE N == Len(lines)
           F(f, n) == IF n = 0 THEN [mem |-> base, ok |-> TRUE] ELSE Apply(f[n - 1], lines[n], now)
           D(f, m) == f = [n \in 0 .. m |-> F(f, n)]
           G == {m \in 0 .. N : \E f : D(f, m)}
           st == States(base, lines, now)
<1>0. N \in Nat
  BY LenProperties, Zenon
<1>1. Replay(base, lines, now) = st[N] /\ st = CHOOSE f : D(f, N)
  BY Zenon DEF Replay, Apply, States
<1> HIDE DEF N
<1>2. 0 \in G
  <2> DEFINE g == [n \in 0 .. 0 |-> [mem |-> base, ok |-> TRUE]]
  <2>1. D(g, 0)
    OBVIOUS
  <2> HIDE DEF D, g
  <2>2. \E f : D(f, 0)
    BY <2>1, Zenon
  <2> QED BY <1>0, <2>2
<1>3. ASSUME NEW m \in 1 .. N, m - 1 \in G PROVE m \in G
  <2>1. PICK f : D(f, m - 1)
    BY <1>3, Zenon
  <2> DEFINE g == [n \in 0 .. m |-> IF n = m THEN Apply(f[m - 1], lines[m], now) ELSE f[n]]
  <2>2. \A n \in 0 .. m - 1 : g[n] = f[n]
    BY <1>0
  <2>3. ASSUME NEW n \in 0 .. m PROVE g[n] = F(g, n)
    <3>1. CASE n = m
      <4>1. m # 0 /\ m - 1 \in 0 .. m - 1 /\ m \in 0 .. m
        BY <1>0
      <4>2. g[m] = Apply(f[m - 1], lines[m], now)
        BY <4>1, Zenon
      <4> HIDE DEF g
      <4> QED BY <2>2, <3>1, <4>1, <4>2, Zenon
    <3>2. CASE n # m
      <4>1. n \in 0 .. m - 1 /\ g[n] = f[n]
        BY <1>0, <3>2
      <4>2. f[n] = F(f, n)
        BY <2>1, <4>1, Zenon
      <4>3. n # 0 => n - 1 \in 0 .. m - 1
        BY <1>0, <4>1
      <4> HIDE DEF g
      <4> QED BY <2>2, <4>1, <4>2, <4>3, Zenon
    <3> QED BY <3>1, <3>2, Zenon
  <2>4. D(g, m)
    <3>1. g = [n \in 0 .. m |-> g[n]]
      BY Zenon
    <3> HIDE DEF g, F
    <3> QED BY <2>3, <3>1, Zenon
  <2> HIDE DEF D, g
  <2>5. \E h : D(h, m)
    BY <2>4, Zenon
  <2> QED BY <1>0, <2>5
<1>4. N \in G
  <2> HIDE DEF G
  <2>1. \A i \in 0 .. N : i \in G
    BY <1>0, <1>2, <1>3, FromZero, Zenon
  <2> QED BY <1>0, <2>1
<1>5. D(st, N)
  <2>1. \E f : D(f, N)
    BY <1>4, Zenon
  <2> HIDE DEF D
  <2> QED BY <1>1, <2>1, Zenon
<1> HIDE DEF st
<1>6. \A n \in 0 .. N : st[n] = F(st, n)
  <2> HIDE DEF F
  <2> QED BY <1>5, Zenon
<1>7. st[0] = [mem |-> base, ok |-> TRUE]
  <2>1. 0 \in 0 .. N
    BY <1>0
  <2> QED BY <1>6, <2>1, Zenon
<1>8. ASSUME NEW n \in 1 .. N PROVE st[n] = Apply(st[n - 1], lines[n], now)
  <2>1. n \in 0 .. N /\ n # 0
    BY <1>0
  <2> QED BY <1>6, <2>1, Zenon
<1> QED BY <1>1, <1>7, <1>8, Zenon DEF N, st

\* With no line to replay the base is left.
LEMMA NothingReplays ==
  ASSUME NEW base, NEW now
  PROVE  Replay(base, <<>>, now) = [mem |-> base, ok |-> TRUE]
<1>1. <<>> \in Seq(Line) /\ Len(<<>>) = 0
  OBVIOUS
<1>2. \A lines \in Seq(Line) : /\ States(base, lines, now)[0] = [mem |-> base, ok |-> TRUE]
                               /\ Replay(base, lines, now) = States(base, lines, now)[Len(lines)]
  BY ReplayStates, Zenon
<1>3. \A lines \in Seq(Line) : Len(lines) = 0 => Replay(base, lines, now) = [mem |-> base, ok |-> TRUE]
  BY <1>2, Zenon
<1> QED BY <1>1, <1>3, Zenon

\* Replaying lines gives a DB.
LEMMA ReplayTypes ==
  ASSUME NEW base \in [Keys -> Entry], NEW lines \in Seq(Line), NEW now
  PROVE  Replay(base, lines, now) \in [mem : [Keys -> Entry], ok : BOOLEAN]
<1> DEFINE N == Len(lines)
           T == [mem : [Keys -> Entry], ok : BOOLEAN]
<1>0. N \in Nat /\ \A n \in 1 .. N : lines[n] \in Line
  BY LenProperties, ElementOfSeq, Zenon
<1> DEFINE st == States(base, lines, now)
<1>1. /\ st[0] = [mem |-> base, ok |-> TRUE]
      /\ \A n \in 1 .. N : st[n] = Apply(st[n - 1], lines[n], now)
      /\ Replay(base, lines, now) = st[N]
  BY ReplayStates, Zenon
<1> HIDE DEF st
<1>2. ASSUME NEW s \in T, NEW r \in Line PROVE Apply(s, r, now) \in T
  <2>1. None \in Entry /\ NoData \in [Keys -> Entry]
    BY Zenon DEF None, NoData, Entry
  <2>2. \A e \in Entry : [s EXCEPT !.mem[r.key] = e] \in T
    BY Zenon
  <2>3. [s EXCEPT !.ok = FALSE] \in T /\ [s EXCEPT !.mem = NoData] \in T
    BY <2>1, Zenon
  <2>4. [val |-> r.val, exp |-> r.exp] \in Entry /\ r.exp \in Nat
    BY Zenon DEF Line, Entry
  <2>5. ASSUME r.key \notin Keys, NEW e PROVE [s EXCEPT !.mem[r.key] = e] \in T
    BY <2>5, Zenon
  <2>6. ASSUME r.key \in Keys
        PROVE  /\ [s.mem[r.key] EXCEPT !.exp = r.exp] \in Entry
               /\ [s.mem[r.key] EXCEPT !.exp = 0] \in Entry
    BY <2>4, <2>6, Zenon DEF Entry
  <2>7. r.op \in {"SET", "DEL", "EXPIRE", "PERSIST", "FLUSHDB"}
    BY Zenon DEF Line
  <2> HIDE DEF T
  <2>8. CASE r.op = "SET"
    BY <2>2, <2>3, <2>4, <2>8, Zenon DEF Apply, applyAOF
  <2>9. CASE r.op = "DEL"
    BY <2>1, <2>2, <2>9, Zenon DEF Apply, applyAOF
  <2>10. CASE r.op = "EXPIRE"
    BY <2>1, <2>2, <2>5, <2>6, <2>10, Zenon DEF Apply, applyAOF
  <2>11. CASE r.op = "PERSIST"
    BY <2>1, <2>2, <2>5, <2>6, <2>11, Zenon DEF Apply, applyAOF
  <2>12. CASE r.op = "FLUSHDB"
    BY <2>3, <2>12, Zenon DEF Apply, applyAOF
  <2> QED BY <2>7, <2>8, <2>9, <2>10, <2>11, <2>12, Zenon
<1> DEFINE G == {n \in 0 .. N : st[n] \in T}
<1>3. 0 \in G
  <2>1. [mem |-> base, ok |-> TRUE] \in T
    BY Zenon
  <2> HIDE DEF T
  <2> QED BY <1>0, <1>1, <2>1
<1>4. ASSUME NEW n \in 1 .. N, n - 1 \in G PROVE n \in G
  <2>1. st[n - 1] \in T /\ lines[n] \in Line /\ n \in 0 .. N
    BY <1>0, <1>4
  <2> HIDE DEF T
  <2>2. st[n] \in T
    BY <1>1, <1>2, <2>1, Zenon
  <2> QED BY <2>1, <2>2, Zenon
<1>5. N \in G
  <2> HIDE DEF G
  <2>1. \A i \in 0 .. N : i \in G
    BY <1>0, <1>3, <1>4, FromZero, Zenon
  <2> QED BY <1>0, <2>1
<1> QED BY <1>1, <1>5, Zenon

\* A line of SET or DEL is applied whatever the DB holds.
LEMMA ApplyData ==
  ASSUME Roomy, NEW st, st.ok, st \in [mem : [Keys -> Entry], ok : BOOLEAN],
         NEW r \in DataLine, NEW now
  PROVE  /\ Apply(st, r, now).ok
         /\ \A k \in Keys : Apply(st, r, now).mem[k] = IF k = r.key THEN EntryOf(r) ELSE st.mem[k]
<1> DEFINE U == {k \in Keys : st.mem[k] # None}
<1>0. r.key \in Keys /\ r.op \in {"SET", "DEL"}
  BY Zenon DEF DataLine
<1>1. st.mem[r.key] # None \/ Cardinality(U) < Capacity
  <2>1. SUFFICES ASSUME r.key \notin U PROVE Cardinality(U) < Capacity
    BY <1>0, Zenon
  <2>2. U \in SUBSET Keys /\ U # Keys
    BY <1>0, <2>1, Zenon
  <2> HIDE DEF U
  <2>3. IsFiniteSet(Keys) /\ Capacity \in Nat
    BY PersistAssumption, Zenon
  <2>4. /\ IsFiniteSet(U) /\ Cardinality(U) <= Cardinality(Keys)
        /\ Cardinality(Keys) # Cardinality(U)
    BY <2>2, <2>3, FS_Subset, Zenon
  <2>5. Cardinality(U) \in Nat /\ Cardinality(Keys) \in Nat
    BY <2>3, <2>4, FS_CardinalityType, Zenon
  <2>6. Cardinality(Keys) <= Capacity
    BY Zenon DEF Roomy
  <2> HIDE DEF U
  <2> QED BY <2>3, <2>4, <2>5, <2>6
<1>2. Apply(st, r, now) = [st EXCEPT !.mem[r.key] = EntryOf(r)]
  BY <1>0, <1>1, Zenon DEF Apply, applyAOF, EntryOf
<1> QED BY <1>0, <1>2

\* Replaying lines of SET and DEL succeeds, and the last line on a key decides.
LEMMA DataReplays ==
  ASSUME Roomy, NEW base \in [Keys -> Entry], NEW lines \in Seq(DataLine), NEW now
  PROVE  /\ Replay(base, lines, now).ok
         /\ \A k \in Keys : Replay(base, lines, now).mem[k] = Final(lines, k, base[k])
<1> DEFINE N == Len(lines)
           T == [mem : [Keys -> Entry], ok : BOOLEAN]
           st == States(base, lines, now)
           pre(n) == SubSeq(lines, 1, n)
<1>0. /\ N \in Nat /\ lines \in Seq(Line)
      /\ \A n \in 1 .. N : lines[n] \in DataLine
  <2>1. N \in Nat /\ \A n \in 1 .. N : lines[n] \in DataLine
    BY LenProperties, ElementOfSeq, Zenon
  <2>2. DataLine \subseteq Line
    BY Zenon DEF DataLine
  <2> QED BY <2>1, <2>2
<1>1. /\ st[0] = [mem |-> base, ok |-> TRUE]
      /\ \A n \in 1 .. N : st[n] = Apply(st[n - 1], lines[n], now)
      /\ Replay(base, lines, now) = st[N]
  BY <1>0, ReplayStates, Zenon
<1> HIDE DEF st
<1> DEFINE G == {n \in 0 .. N : /\ st[n].ok /\ st[n] \in T
                                /\ \A k \in Keys : st[n].mem[k] = Final(pre(n), k, base[k])}
<1>2. 0 \in G
  <2>1. st[0].ok /\ st[0] \in T /\ st[0].mem = base
    BY <1>1
  <2>2. pre(0) = <<>>
    BY SubSeqEmpty
  <2>3. \A k \in Keys : Final(<<>>, k, base[k]) = base[k]
    BY DEF Final, On
  <2> HIDE DEF pre, T
  <2> QED BY <1>0, <2>1, <2>2, <2>3, SMTT(20)
<1>3. ASSUME NEW n \in 1 .. N, n - 1 \in G PROVE n \in G
  <2> DEFINE r == lines[n]
             p == pre(n - 1)
  <2>1. /\ n \in 0 .. N /\ r \in DataLine /\ n - 1 \in Int /\ n \in 1 .. N
        /\ st[n - 1].ok /\ st[n - 1] \in T
        /\ \A k \in Keys : st[n - 1].mem[k] = Final(p, k, base[k])
    BY <1>0, <1>3
  <2>2. /\ Apply(st[n - 1], r, now).ok
        /\ \A k \in Keys : Apply(st[n - 1], r, now).mem[k] =
                             IF k = r.key THEN EntryOf(r) ELSE st[n - 1].mem[k]
    BY <2>1, ApplyData
  <2>3. st[n] = Apply(st[n - 1], r, now)
    BY <1>1, Zenon
  <2>4. p \in Seq(DataLine)
    <3>1. \A i \in 1 .. n - 1 : lines[i] \in DataLine
      BY <1>0
    <3> QED BY <2>1, <3>1, SubSeqProperties
  <2>5. pre(n) = Append(p, r)
    <3>1. n \in 1 .. Len(lines) /\ 1 \in 1 .. Len(lines)
      BY <1>0
    <3>2. pre(n) = p \o <<r>>
      BY <3>1, SubSeqRecursiveSecond, Zenon
    <3> HIDE DEF p, r
    <3> QED BY <2>1, <2>4, <3>2
  <2>6. \A k \in Keys : Final(Append(p, r), k, base[k]) =
                          IF r.key = k THEN EntryOf(r) ELSE Final(p, k, base[k])
    <3> HIDE DEF p, r
    <3>1. \A k \in Keys : Appended(p, r, k)
      BY <2>1, <2>4, AppendMakes, Zenon
    <3> QED BY <3>1, Zenon DEF Appended
  <2>7. st[n] \in T
    <3>1. \A s \in T : s.ok => Apply(s, r, now) \in T
      <4> SUFFICES ASSUME NEW s \in T, s.ok PROVE Apply(s, r, now) \in T
        BY Zenon
      <4>1. EntryOf(r) \in Entry
        BY <2>1, Zenon DEF EntryOf, DataLine, Line, Entry, None
      <4>2. r.op \in {"SET", "DEL"} /\ None \in Entry
        BY <2>1, Zenon DEF DataLine, None, Entry
      <4>3. \A e \in Entry : [s EXCEPT !.mem[r.key] = e] \in T
        BY Zenon
      <4>4. [s EXCEPT !.ok = FALSE] \in T
        BY Zenon
      <4> HIDE DEF T, r
      <4> QED BY <4>1, <4>2, <4>3, <4>4, Zenon DEF Apply, applyAOF, EntryOf
    <3> HIDE DEF T, r
    <3> QED BY <2>1, <2>3, <3>1, Zenon
  <2>8. \A k \in Keys : st[n].mem[k] = Final(pre(n), k, base[k])
    <3> HIDE DEF p, r, pre
    <3> QED BY <2>1, <2>2, <2>3, <2>5, <2>6
  <2> HIDE DEF T, pre
  <2> QED BY <2>1, <2>2, <2>3, <2>7, <2>8, Zenon
<1>4. N \in G
  <2> HIDE DEF G
  <2>1. \A i \in 0 .. N : i \in G
    BY <1>0, <1>2, <1>3, FromZero, Zenon
  <2> QED BY <1>0, <2>1
<1>5. pre(N) = lines
  BY SubSeqFull, Zenon
<1>6. st[N].ok /\ \A k \in Keys : st[N].mem[k] = Final(pre(N), k, base[k])
  BY <1>4, Zenon
<1> HIDE DEF pre
<1> QED BY <1>1, <1>5, <1>6, Zenon

\* rewriteAOF writes one SET line for each entry of the image, and no other.
LEMMA LinesMakeImage ==
  ASSUME NEW image \in [Keys -> Entry]
  PROVE  /\ Lines(image) \in Seq(DataLine)
         /\ \A k \in Keys : Final(Lines(image), k, None) = image[k]
<1> DEFINE S == {k \in Keys : image[k] # None}
           N == Cardinality(S)
           order == CHOOSE f \in Bijection(1 .. N, S) : TRUE
           line(k) == [op |-> "SET", key |-> k, val |-> image[k].val, exp |-> image[k].exp]
<1>1. IsFiniteSet(S) /\ N \in Nat
  <2>1. IsFiniteSet(Keys) /\ S \in SUBSET Keys
    BY PersistAssumption, Zenon
  <2> HIDE DEF S
  <2> QED BY <2>1, FS_Subset, FS_CardinalityType, Zenon
<1>2. order \in [1 .. N -> S] /\ IsInjective(order)
      /\ \A k \in S : \E i \in 1 .. N : order[i] = k
  <2>1. ExistsBijection(1 .. N, S)
    <3> HIDE DEF S
    <3> QED BY <1>1, FS_CardinalityType, Zenon
  <2> HIDE DEF S, N
  <2>2. order \in Bijection(1 .. N, S)
    BY <2>1, Zenon DEF ExistsBijection
  <2> HIDE DEF order
  <2> QED BY <2>2, Zenon DEF Bijection, Injection, Surjection
<1>3. \A k \in S : \E i \in 1 .. N : order[i] = k
  BY <1>2, Zenon
<1>4. Lines(image) = [i \in 1 .. N |-> line(order[i])]
  <2>1. DOMAIN order = 1 .. N
    <3> HIDE DEF S, N, order
    <3> QED BY <1>2, Zenon
  <2>2. Lines(image) = [i \in DOMAIN order |-> line(order[i])]
    BY Zenon DEF Lines
  <2> HIDE DEF order, N, line
  <2> QED BY <2>1, <2>2, Zenon
<1>5. \A k \in S : line(k) \in DataLine /\ EntryOf(line(k)) = image[k] /\ line(k).key = k
  <2> SUFFICES ASSUME NEW k \in S
               PROVE  line(k) \in DataLine /\ EntryOf(line(k)) = image[k] /\ line(k).key = k
    BY Zenon
  <2>1. image[k] \in Entry /\ k \in Keys
    BY Zenon
  <2>2. image[k] = [val |-> image[k].val, exp |-> image[k].exp]
    BY <2>1, Zenon DEF Entry
  <2> QED BY <2>1, <2>2, Zenon DEF DataLine, Line, Entry, EntryOf
<1>6. \A k \in Keys : k \notin S => image[k] = None
  BY Zenon
<1>7. S \subseteq Keys
  BY Zenon
<1> DEFINE q == Lines(image)
<1> HIDE DEF S, N, order, line
<1>8. q \in Seq(DataLine) /\ Len(q) = N /\ \A i \in 1 .. N : q[i] = line(order[i])
  <2>1. \A i \in 1 .. N : line(order[i]) \in DataLine
    BY <1>2, <1>5, Zenon
  <2> QED BY <1>1, <1>4, <2>1
<1> HIDE DEF q
<1>9. \A i \in 1 .. N : q[i].key = order[i] /\ order[i] \in S
  BY <1>2, <1>5, <1>8, Zenon
<1>10. ASSUME NEW k \in Keys PROVE Final(q, k, None) = image[k]
  <2>1. CASE k \in S
    <3>1. PICK i \in 1 .. N : order[i] = k
      BY <1>3, <2>1, Zenon
    <3>2. i \in On(q, k) /\ \A j \in On(q, k) : j = i
      BY <1>2, <1>8, <1>9, <3>1 DEF On, IsInjective
    <3>3. i <= i
      BY <1>1
    <3>4. Final(q, k, None) = EntryOf(q[i])
      BY <1>8, <3>2, <3>3, FinalLast, Zenon
    <3> QED BY <1>5, <1>8, <2>1, <3>1, <3>4, Zenon
  <2>2. CASE k \notin S
    <3>1. On(q, k) = {}
      BY <1>8, <1>9, <2>2, Zenon DEF On
    <3> QED BY <1>6, <2>2, <3>1, Zenon DEF Final
  <2> QED BY <2>1, <2>2, Zenon
<1> QED BY <1>8, <1>10, Zenon DEF q

----------------------------------------------------------------------------
(* What holds of every replay *)

\* What SAVE writes and Load replays is what the steps take it to be.
LEMMA ReplaysHold == Replays
<1>1. \A lines \in Seq(DataLine), r \in DataLine, k \in Keys : Appended(lines, r, k)
  BY AppendMakes, Zenon
<1>2. ASSUME NEW p \in Seq(DataLine), NEW q \in Seq(DataLine), NEW k \in Keys PROVE Joined(p, q, k)
  <2>1. ASSUME NEW b PROVE Final(p \o q, k, b) = Final(q, k, Final(p, k, b))
    BY ConcatMakes
  <2>2. On(p \o q, k) = {} <=> On(p, k) = {} /\ On(q, k) = {}
    BY ConcatMakes, Zenon
  <2> QED BY <2>1, <2>2, Zenon DEF Joined
<1>3. ASSUME NEW lines \in Seq(DataLine), NEW k PROVE Settled(lines, k)
  BY LinesSettle, Zenon DEF Settled
<1>4. \A base, now : Replay(base, <<>>, now) = [mem |-> base, ok |-> TRUE]
  BY NothingReplays, Zenon
<1>5. \A base \in [Keys -> Entry], lines \in Seq(Line), now \in Nat :
        Replay(base, lines, now) \in [mem : [Keys -> Entry], ok : BOOLEAN]
  BY ReplayTypes, Zenon
<1>6. Roomy => \A base \in [Keys -> Entry], lines \in Seq(DataLine), now \in Nat :
                 /\ Replay(base, lines, now).ok
                 /\ \A k \in Keys : Replay(base, lines, now).mem[k] = Final(lines, k, base[k])
  BY DataReplays
<1>7. ASSUME Roomy, NEW m PROVE Fits(m)
  <2> DEFINE S == {k \in Keys : m[k] # None}
  <2>1. Cardinality(S) <= Cardinality(Keys) /\ Cardinality(S) \in Nat /\ Cardinality(Keys) \in Nat
    BY PersistAssumption, FS_Subset, FS_CardinalityType, Zenon
  <2> HIDE DEF S
  <2>2. Cardinality(S) <= Capacity
    BY <1>7, <2>1, PersistAssumption DEF Roomy
  <2> QED BY <2>2, Zenon DEF Fits, S
<1> QED BY <1>1, <1>2, <1>3, <1>4, <1>5, <1>6, <1>7, LinesMakeImage, Zenon DEF Replays

----------------------------------------------------------------------------
(* What holds always *)

\* Every variable of the engine holds a value of its type: no line of the AOF is malformed,
\* the synced prefix never exceeds the file, and no scan of the shards (ExportAll, FlushDB)
\* runs past the last one, through saves, crashes and restarts.
THEOREM EngineTypes == Spec => []TypeOK
<1>1. TypeInv => TypeOK
  BY Zenon DEF TypeInv, FilesOK, FlagsOK, ThreadsOK, TypeOK, Labels
<1>2. TypeInv /\ [Next]_vars => TypeInv'
  BY ReplaysHold, TypeStep, Zenon
<1> QED BY <1>1, <1>2, InitTypes, PTL DEF Spec

\* In snapshot mode a restart goes back no further than the last completed SAVE: a key
\* not written since that SAVE began comes back as it is, although ExportAll runs shard
\* by shard against concurrent writers, and whatever later saves and crashes do.  MaxMemory
\* has room for every key: an export that caught more entries than fit is refused.
THEOREM SnapshotKept ==
  ASSUME Roomy
  PROVE  Spec => []SinceLastSave
<1>1. TypeInv /\ SnapInv => SinceLastSave
  <2> SUFFICES ASSUME TypeInv, SnapInv, status = "up", cfg.mode = "snapshot",
                      NEW k \in untouched.done, Live(mem[k], clock)
               PROVE  Recovered[k] = mem[k]
    BY Zenon DEF SinceLastSave
  <2>1. k \in Keys
    BY Zenon DEF TypeInv, FlagsOK
  <2>2. snap[k] = mem[k]
    BY Zenon DEF SnapInv
  <2>3. Recovered = LoadLines(aof, clock).mem
    BY ReplaysHold, LoadsSnapshot, Zenon DEF Recovered, TornLog, HasAOF
  <2> QED BY <2>1, <2>2, <2>3, ReplaysHold, LoadsSnapshot, Zenon
<1>2. Init => TypeInv /\ GateInv /\ SnapInv
  BY InitTypes, GateInit, SnapInit, Zenon
<1>3. TypeInv /\ GateInv /\ SnapInv /\ [Next]_vars => (TypeInv /\ GateInv /\ SnapInv)'
  BY ReplaysHold, TypeStep, GateStep, SnapStep, Zenon
<1> QED BY <1>1, <1>2, <1>3, PTL DEF Spec

\* Whenever the process dies, Load brings back every live entry whose SET has returned:
\* in the middle of SAVE too, when appendAOF writes to the log and to the catchup buffer
\* and rewriteAOF or installCatchupAsAOF exchange the files.  Clients SET and DEL, and each
\* key has one writer: EXPIRE, and two writers, lose entries.
THEOREM WritesComeBack ==
  ASSUME SetDel, SingleWriters, Roomy
  PROVE  Spec => []NothingLost
<1>0. Replays
  BY ReplaysHold, Zenon
<1>1. TypeInv /\ DataInv /\ LogInv /\ WholeInv => NothingLost
  <2> SUFFICES ASSUME TypeInv, DataInv, LogInv, WholeInv, Healthy,
                      NEW k \in Keys, Live(mem[k], clock), ~InFlight(k)
               PROVE  Recovered[k] = mem[k]
    BY Zenon DEF NothingLost, Healthy
  <2> QED BY <1>0, FilesAgree, Zenon DEF Agrees
<1>2. Init => TypeInv /\ GateInv /\ SnapInv /\ DataInv /\ LogInv /\ WholeInv
  BY InitTypes, GateInit, SnapInit, LogInit, WholeInit, Zenon
<1>3. TypeInv /\ GateInv /\ SnapInv /\ DataInv /\ LogInv /\ WholeInv /\ [Next]_vars
        => (TypeInv /\ GateInv /\ SnapInv /\ DataInv /\ LogInv /\ WholeInv)'
  BY <1>0, TypeStep, GateStep, SnapStep, DataStep, LogStep, WholeStep, Zenon
<1> QED BY <1>1, <1>2, <1>3, PTL DEF Spec

\* Load brings back no entry whose DEL has returned, although a crash in the middle of
\* SAVE leaves the old log to be replayed over the new snapshot.  Nothing is evicted and no
\* system call fails: an eviction and a lost DEL line write nothing.
THEOREM DeletesStay ==
  ASSUME SetDel, SingleWriters, Roomy, ~Evictions, MaxFailures = 0
  PROVE  Spec => []NothingResurrected
<1>0. Replays
  BY ReplaysHold, Zenon
<1>1. TypeInv /\ DataInv /\ LogInv /\ WholeInv => NothingResurrected
  <2> SUFFICES ASSUME TypeInv, DataInv, LogInv, WholeInv, status = "up", HasAOF,
                      NEW k \in Keys, ~Live(mem[k], clock), ~InFlight(k)
               PROVE  ~Live(Recovered[k], clock)
    BY Zenon DEF NothingResurrected
  <2>1. Healthy
    BY LogTypes DEF Healthy, LeftType
  <2> QED BY <1>0, <2>1, FilesAgree, Zenon DEF Agrees
<1>2. Init => TypeInv /\ GateInv /\ SnapInv /\ DataInv /\ LogInv /\ WholeInv
  BY InitTypes, GateInit, SnapInit, LogInit, WholeInit, Zenon
<1>3. TypeInv /\ GateInv /\ SnapInv /\ DataInv /\ LogInv /\ WholeInv /\ [Next]_vars
        => (TypeInv /\ GateInv /\ SnapInv /\ DataInv /\ LogInv /\ WholeInv)'
  BY <1>0, TypeStep, GateStep, SnapStep, DataStep, LogStep, WholeStep, Zenon
<1> QED BY <1>1, <1>2, <1>3, PTL DEF Spec

\* With fsync always a write that has returned survives the loss of the machine, whichever
\* lines are lost, through rewrites of the log: SAVE fsyncs the new file before it takes the
\* place of the old one.  Load accepts what is left, cut between two lines.
THEOREM SyncedComeBack ==
  ASSUME SetDel, SingleWriters, Roomy, Durable
  PROVE  Spec => []SyncedSurvives
<1>0. Replays
  BY ReplaysHold, Zenon
<1>1. TypeInv /\ DataInv /\ LogInv /\ SyncInv => SyncedSurvives
  <2> SUFFICES ASSUME TypeInv, DataInv, LogInv, SyncInv, status = "up", cfg.mode = "aof",
                      cfg.fsync = "always", left.failures = MaxFailures,
                      NEW n \in synced .. Len(aof)
               PROVE  /\ LoadLines(SubSeq(aof, 1, n), clock).ok
                      /\ \A k \in Keys : Live(mem[k], clock) /\ ~InFlight(k)
                            => LoadLines(SubSeq(aof, 1, n), clock).mem[k] = mem[k]
    BY Zenon DEF SyncedSurvives, PowerSafe
  <2> DEFINE lines == SubSeq(aof, 1, n)
  <2>1. HasAOF /\ Healthy
    BY Zenon DEF Healthy, HasAOF
  <2>2. aof \in Seq(DataLine) /\ SubSeq(aof, 1, Len(aof)) = aof
    BY SubSeqFull, Zenon DEF DataInv
  <2>3. lines = aof \/ \E c \in Clients : \E p \in Seq(DataLine) :
                         pc[c] = "sync" /\ aof = Append(p, loc[c].line) /\ lines = p
    <3>1. CASE NoSync
      <4>1. synced = Len(aof) /\ Len(aof) \in Nat
        BY <2>2, <3>1 DEF SyncInv
      <4>2. n = Len(aof)
        BY <4>1
      <4> QED BY <2>2, <4>2, Zenon
    <3>2. CASE ~NoSync
      <4>1. PICK c \in Clients : pc[c] = "sync"
        BY <3>2, Zenon DEF NoSync
      <4>2. PICK p \in Seq(DataLine) : aof = Append(p, loc[c].line) /\ synced = Len(p)
        BY <4>1, Zenon DEF SyncInv, Unsynced
      <4>3. loc[c].line \in DataLine
        BY <4>1, Zenon DEF DataInv
      <4>4. Len(aof) = Len(p) + 1 /\ Len(p) \in Nat /\ SubSeq(aof, 1, Len(p)) = p
        BY <4>2, <4>3
      <4>5. n = Len(p) \/ n = Len(aof)
        BY <4>2, <4>4
      <4> QED BY <2>2, <4>1, <4>2, <4>4, <4>5, Zenon
    <3> QED BY <3>1, <3>2, Zenon
  <2> HIDE DEF lines
  <2>4. lines \in Seq(DataLine)
    BY <2>2, <2>3, Zenon
  <2>5. ASSUME NEW k \in Keys, Live(mem[k], clock), ~InFlight(k)
        PROVE  LoadLines(lines, clock).mem[k] = mem[k]
    <3>1. ~Emitting(k)
      BY <2>5, Zenon DEF Emitting, InFlight
    <3>2. Agrees(Final(aof, k, Base[k]), mem[k], clock)
      BY <2>1, <3>1, Zenon DEF LogInv, AofOK
    <3>3. Final(lines, k, Base[k]) = Final(aof, k, Base[k])
      <4>1. ASSUME NEW c \in Clients, NEW p \in Seq(DataLine), pc[c] = "sync",
                   aof = Append(p, loc[c].line), lines = p
            PROVE  Final(lines, k, Base[k]) = Final(aof, k, Base[k])
        <5>1. loc[c].line \in DataLine /\ loc[c].line.key # k
          BY <2>5, <4>1, Zenon DEF DataInv, InFlight
        <5>2. Appended(p, loc[c].line, k)
          BY <1>0, <5>1, DataAppend, Zenon
        <5> QED BY <4>1, <5>1, <5>2, Zenon DEF Appended
      <4> QED BY <2>3, <4>1, Zenon
    <3>4. Agrees(LoadLines(lines, clock).mem[k], mem[k], clock)
      BY <1>0, <2>1, <2>4, <3>2, <3>3, LoadedAgrees, Zenon
    <3> QED BY <2>5, <3>4, Zenon DEF Agrees
  <2>6. LoadLines(lines, clock).ok
    BY <1>0, <2>1, <2>4, LoadsLog, Zenon
  <2> QED BY <2>5, <2>6, Zenon DEF lines
<1>2. Init => TypeInv /\ GateInv /\ SnapInv /\ DataInv /\ LogInv /\ SyncInv
  BY InitTypes, GateInit, SnapInit, LogInit, SyncInit, Zenon
<1>3. TypeInv /\ GateInv /\ SnapInv /\ DataInv /\ LogInv /\ SyncInv /\ [Next]_vars
        => (TypeInv /\ GateInv /\ SnapInv /\ DataInv /\ LogInv /\ SyncInv)'
  BY <1>0, TypeStep, GateStep, SnapStep, DataStep, LogStep, SyncStep, Zenon
<1> QED BY <1>1, <1>2, <1>3, PTL DEF Spec
=============================================================================
