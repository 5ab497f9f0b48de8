----------------------------- MODULE StoreSteps -----------------------------
(***************************************************************************)
(* Every step of Store keeps IInv: what a shard keeps when an entry is     *)
(* removed, updated or inserted, and the steps of the operations.          *)
(***************************************************************************)
EXTENDS StoreInvariant, TLAPS

----------------------------------------------------------------------------
(* What holds after a step that leaves parts of the state alone *)

\* The conjuncts of the invariant are the type invariant and more.
LEMMA IInvType == IInv => TypeOK
BY Zenon DEF IInv, GlobalType, ShardOK, ShardType, ThreadsOK, TypeOK

\* A jump of one thread to a label whose conditions its variables meet.
LEMMA GotoOK ==
  ASSUME ThreadsOK, NEW t \in Threads, NEW a \in Labels, NEW l \in LocType,
         LocOK(a, l), Goto(t, a, l)
  PROVE  ThreadsOK'
<1>1. pc' \in [Threads -> Labels] /\ loc' \in [Threads -> LocType]
  BY Zenon DEF ThreadsOK, Goto
<1>2. ASSUME NEW u \in Threads PROVE LocOK(pc'[u], loc'[u])
  <2>1. CASE u = t
    BY <2>1, Zenon DEF ThreadsOK, Goto
  <2>2. CASE u # t
    BY <2>2, Zenon DEF ThreadsOK, Goto
  <2> QED BY <2>1, <2>2, Zenon
<1> QED BY <1>1, <1>2, Zenon DEF ThreadsOK

\* A thread between two operations is in a legal state.
LEMMA NoLocOK == NoLoc \in LocType /\ LocOK("idle", NoLoc)
BY Zenon DEF NoLoc, LocType, LocOK, Resumes, KeyOps, SetLabels, Labels

\* The shards of a new DB.
LEMMA NewShards == Init => ShardType /\ MapOK
<1>1. NoEntry \in [key : Keys \cup {Nil}, size : Nat, exp : Nat]
  BY Zenon DEF NoEntry
<1>2. Init => MapOK
  BY Zenon DEF Init, MapOK
<1> QED BY <1>1, <1>2 DEF Init, ShardType

\* A step that touches neither the shards nor db.used keeps the shard invariant.
LEMMA ShardSame ==
  ASSUME ShardOK, UNCHANGED <<shardVars, used>>
  PROVE  ShardOK'
<1>1. UNCHANGED <<data, ent, lru, fifo, shUsed, used>>
  BY Zenon DEF shardVars
<1>2. ShardType' /\ MapOK'
  BY <1>1, Zenon DEF ShardOK, ShardType, MapOK
<1>3. \A s : ShardEntries(s)' = ShardEntries(s)
  BY <1>1, Zenon DEF ShardEntries
<1>4. ShardLists'
  BY <1>1, <1>3, Zenon DEF ShardOK, ShardLists
<1>5. \A K : Bytes(K)' = Bytes(K)
  BY <1>1, Zenon DEF Bytes, SizeOf
<1>6. Accounting'
  BY <1>1, <1>5, Zenon DEF ShardOK, Accounting
<1> QED BY <1>2, <1>4, <1>6, Zenon DEF ShardOK

\* No object becomes reachable.
LEMMA ReachableSame ==
  ASSUME data' = data, \A x \in InUse : x # Nil => ent'[x].key \in Keys, ThreadsOK,
         NEW t \in Threads, NEW a, NEW l, Goto(t, a, l),
         l.ent = Nil \/ l.ent \in InUse,
         Range(gLru') \subseteq InUse, Range(gFifo') \subseteq InUse
  PROVE  ReachableOK'
<1>1. ASSUME NEW x \in InUse' PROVE x = Nil \/ x \in InUse
  <2>1. CASE x \in {data'[k] : k \in Keys}
    BY <2>1, Zenon DEF InUse
  <2>2. CASE x \in Range(gLru') \cup Range(gFifo')
    BY <2>2, Zenon
  <2>3. CASE x \in {loc'[u].ent : u \in Threads}
    <3>1. PICK u \in Threads : x = loc'[u].ent
      BY <2>3, Zenon
    <3>2. CASE u = t
      BY <3>1, <3>2, Zenon DEF Goto, ThreadsOK
    <3>3. CASE u # t
      BY <3>1, <3>3, Zenon DEF Goto, ThreadsOK, InUse
    <3> QED BY <3>2, <3>3, Zenon
  <2> QED BY <1>1, <2>1, <2>2, <2>3, Zenon DEF InUse
<1> QED BY <1>1, Zenon DEF ReachableOK

\* Thread t jumps to a label whose conditions hold there.
Jumps(t) == \E a \in Labels, l \in LocType :
              /\ Goto(t, a, l) /\ LocOK(a, l)
              /\ l.ent = Nil \/ l.ent \in InUse

\* The return of an operation is a legal move of its thread.
LEMMA ReturnJumps == ASSUME NEW t, Return(t) PROVE Jumps(t)
<1>1. "idle" \in Labels /\ NoLoc.ent = Nil
  BY Zenon DEF Labels, NoLoc
<1> QED BY <1>1, NoLocOK, Zenon DEF Jumps, Return

\* A step of one thread that keeps the map, and the key of every entry in use.
LEMMA KeepsMapStep ==
  ASSUME IInv, NEW t \in Threads, Jumps(t), ShardOK', GlobalType',
         data' = data, \A x \in InUse : x # Nil => ent'[x].key \in Keys,
         Range(gLru') \subseteq InUse, Range(gFifo') \subseteq InUse
  PROVE  IInv'
<1>0. PICK a \in Labels, l \in LocType : /\ Goto(t, a, l) /\ LocOK(a, l)
                                         /\ l.ent = Nil \/ l.ent \in InUse
  BY Zenon DEF Jumps
<1>1. ThreadsOK'
  BY <1>0, GotoOK, Zenon DEF IInv
<1>2. ReachableOK'
  BY <1>0, ReachableSame, Zenon DEF IInv
<1> QED BY <1>1, <1>2, Zenon DEF IInv

\* A step of one thread that touches neither a shard nor the global lists.
LEMMA QuietStep ==
  ASSUME IInv, NEW t \in Threads, Jumps(t),
         UNCHANGED <<shardVars, used, globalVars>>, GlobalType'
  PROVE  IInv'
<1>1. ShardOK'
  BY ShardSame, Zenon DEF IInv
<1>2. Range(gLru') \subseteq InUse /\ Range(gFifo') \subseteq InUse
  BY Zenon DEF globalVars, InUse
<1>3. data' = data /\ \A x \in InUse : x # Nil => ent'[x].key \in Keys
  BY Zenon DEF IInv, ReachableOK, shardVars
<1> QED BY <1>1, <1>2, <1>3, KeepsMapStep, Zenon

Charge == [k \in Keys |-> SizeOf(k)]

\* The bytes of the stored entries, as the lemmas on counting see them.
LEMMA BytesFilled == \A K \in SUBSET Keys : Bytes(K) = Filled(Charge, K, MaxSize)
BY Zenon DEF Bytes, Filled, Charge

\* The facts about the constants that the proofs use.
LEMMA ConstantsOK ==
  /\ MaxSize \in Nat /\ MaxMemory \in Nat /\ IsFiniteSet(Keys) /\ IsFiniteSet(Clients)
  /\ ShardCount \in Nat \ {0}
  /\ Nil \notin Entries /\ Nil \notin Keys /\ Nil \notin Threads
  /\ \A k \in Keys : ShardOf[k] \in Shards
  /\ \A s \in Shards : ShardKeys(s) \in SUBSET Keys
<1>1. \A s \in Shards : ShardKeys(s) \in SUBSET Keys
  BY Zenon DEF ShardKeys
<1> QED BY <1>1, StoreAssumption, Zenon

\* A value that takes the place of one of its own size leaves the counters as they are.
LEMMA ShardCountSame ==
  ASSUME shUsed \in [Shards -> Nat], NEW k \in Keys, SizeOf(k) \in Nat
  PROVE  shUsed = [shUsed EXCEPT ![ShardOf[k]] = @ - SizeOf(k) + SizeOf(k)]
<1>1. ShardOf[k] \in Shards
  BY ConstantsOK, Zenon
<1> QED BY <1>1

\* The keys of a shard can be counted.
LEMMA ShardKeysFinite ==
  ASSUME Facts
  PROVE  \A s \in Shards : ShardKeys(s) \in SUBSET Keys /\ IsFiniteSet(ShardKeys(s))
BY ConstantsOK, Zenon DEF Facts, CountingFact

\* What the clients are given to do is well formed.
LEMMA WorkOK ==
  ASSUME policy \in Policies
  PROVE  /\ \A k \in Work[policy].keys : k \in Keys
         /\ \A ttl \in Work[policy].ttls : ttl \in Nat
         /\ \A mode \in Work[policy].modes : mode \in {"plain", "nx", "xx", "keep"}
         /\ Work[policy].calls \in [Clients -> Nat] /\ Work[policy].switches \in Nat
<1>1. Work[policy] \in [ops : SUBSET Operations, keys : SUBSET Keys, ttls : SUBSET Nat,
                        modes : SUBSET {"plain", "nx", "xx", "keep"},
                        calls : [Clients -> Nat], switches : Nat, time : Nat]
  BY StoreAssumption, Zenon
<1> QED BY <1>1, Zenon

\* Every stored entry has a bounded size (memSize).
LEMMA SizeOfBound == ShardType /\ MapOK => \A k \in Keys : SizeOf(k) \in 0 .. MaxSize
BY ConstantsOK DEF ShardType, MapOK, SizeOf

\* What one key is charged is part of both counters.
LEMMA ChargeIncluded ==
  ASSUME Facts, ShardOK, NEW k \in Keys
  PROVE  SizeOf(k) <= used /\ SizeOf(k) <= shUsed[ShardOf[k]]
<1>1. Charge[k] = SizeOf(k) /\ SizeOf(k) \in 0 .. MaxSize
  BY SizeOfBound, Zenon DEF Charge, ShardOK
<1>2. ASSUME NEW K \in SUBSET Keys, IsFiniteSet(K), k \in K
      PROVE  SizeOf(k) <= Cardinality(Bytes(K))
  <2>1. Cardinality(Filled(Charge, K, MaxSize)) = Cardinality(Filled(Charge, K \ {k}, MaxSize)) + Charge[k]
    BY <1>1, <1>2, ConstantsOK DEF Facts, FilledFact
  <2>2. IsFiniteSet(K \ {k})
    BY <1>2, Zenon DEF Facts, CountingFact
  <2>3. Cardinality(Filled(Charge, K \ {k}, MaxSize)) \in Nat
    BY <2>2, ConstantsOK, Zenon DEF Facts, FilledFact
  <2> QED BY <1>1, <2>1, <2>3, BytesFilled
<1>3. k \in ShardKeys(ShardOf[k]) /\ ShardOf[k] \in Shards
  BY ConstantsOK, Zenon DEF ShardKeys
<1> QED BY <1>2, <1>3, ConstantsOK, ShardKeysFinite, Zenon DEF ShardOK, Accounting

\* A step that changes the charge of one key, and both counters with it.
LEMMA AccountingStep ==
  ASSUME Facts, ShardOK, NEW k \in Keys, NEW n \in 0 .. MaxSize, SizeOf(k)' = n,
         \A j \in Keys \ {k} : SizeOf(j)' = SizeOf(j),
         used' = used - SizeOf(k) + n,
         shUsed' = [shUsed EXCEPT ![ShardOf[k]] = @ - SizeOf(k) + n]
  PROVE  Accounting' /\ used' \in Nat /\ shUsed' \in [Shards -> Nat]
<1>0. SizeOf(k) \in 0 .. MaxSize /\ \A j \in Keys : Charge[j] = SizeOf(j) /\ Charge'[j] = SizeOf(j)'
  BY SizeOfBound, Zenon DEF Charge, ShardOK
<1>1. ASSUME NEW K \in SUBSET Keys, IsFiniteSet(K), k \in K
      PROVE  Cardinality(Bytes(K))' = Cardinality(Bytes(K)) - SizeOf(k) + n
  <2>1. /\ Charge[k] \in 0 .. MaxSize /\ Charge'[k] \in 0 .. MaxSize
        /\ \A j \in K \ {k} : Charge[j] = Charge'[j]
    BY <1>0, Zenon
  <2>2. Cardinality(Filled(Charge', K, MaxSize))
          = Cardinality(Filled(Charge, K, MaxSize)) - Charge[k] + Charge'[k]
    <3>1. FilledFact /\ MaxSize \in Nat
      BY ConstantsOK, Zenon DEF Facts
    <3>2. \A f, g : \A i \in K :
            f[i] \in 0 .. MaxSize /\ g[i] \in 0 .. MaxSize /\ (\A j \in K \ {i} : f[j] = g[j]) =>
              Cardinality(Filled(g, K, MaxSize)) = Cardinality(Filled(f, K, MaxSize)) - f[i] + g[i]
      BY <1>1, <3>1 DEF FilledFact
    <3> QED BY <1>1, <2>1, <3>2, Zenon
  <2>3. Bytes(K)' = Filled(Charge', K, MaxSize)
    BY Zenon DEF Bytes, Filled, Charge
  <2> QED BY <1>0, <2>2, <2>3, BytesFilled, Zenon
<1>2. ASSUME NEW K \in SUBSET Keys, k \notin K
      PROVE  Bytes(K)' = Bytes(K)
  BY <1>2 DEF Bytes
<1>3. ShardOf[k] \in Shards /\ \A s \in Shards : k \in ShardKeys(s) <=> s = ShardOf[k]
  BY ConstantsOK, Zenon DEF ShardKeys
<1>4. used' = Cardinality(Bytes(Keys))'
  BY <1>1, ConstantsOK, Zenon DEF ShardOK, Accounting
<1>5. ASSUME NEW s \in Shards PROVE shUsed'[s] = Cardinality(Bytes(ShardKeys(s)))'
  <2>1. ShardKeys(s)' = ShardKeys(s)
    BY Zenon DEF ShardKeys
  <2>2. CASE s = ShardOf[k]
    <3>1. Cardinality(Bytes(ShardKeys(s)))' = Cardinality(Bytes(ShardKeys(s))) - SizeOf(k) + n
      BY <1>1, <1>3, <2>2, ShardKeysFinite, Zenon
    <3> QED BY <3>1, <2>2, Zenon DEF ShardOK, Accounting, ShardType
  <2>3. CASE s # ShardOf[k]
    <3>1. Bytes(ShardKeys(s))' = Bytes(ShardKeys(s))
      BY <1>2, <1>3, <2>3, ConstantsOK, Zenon
    <3> QED BY <3>1, <2>3, Zenon DEF ShardOK, Accounting, ShardType
  <2> QED BY <2>2, <2>3, Zenon
<1>6. used' \in Nat /\ shUsed' \in [Shards -> Nat]
  <2>1. SizeOf(k) <= used /\ SizeOf(k) <= shUsed[ShardOf[k]]
    BY ChargeIncluded, Zenon
  <2>2. n \in Nat /\ SizeOf(k) \in Nat
    BY <1>0, ConstantsOK
  <2>3. used \in Nat /\ shUsed \in [Shards -> Nat]
    BY Zenon DEF ShardOK, ShardType
  <2>4. used' \in Nat
    BY <2>1, <2>2, <2>3
  <2>5. shUsed[ShardOf[k]] - SizeOf(k) + n \in Nat
    BY <1>3, <2>1, <2>2, <2>3
  <2> QED BY <2>3, <2>4, <2>5, Zenon
<1> QED BY <1>4, <1>5, <1>6, Zenon DEF Accounting

----------------------------------------------------------------------------
(* The steps that change a shard *)

\* Entries of different keys are different objects.
LEMMA EntryUnique ==
  ASSUME ShardOK, NEW j \in Keys, NEW k \in Keys, data[j] # Nil, data[j] = data[k]
  PROVE  j = k
BY Zenon DEF ShardOK, MapOK

\* An entry in one of a shard's lists is the entry of one of the shard's keys.
LEMMA ListedEntry ==
  ASSUME ShardOK, NEW s \in Shards, NEW e,
         e \in Range(lru[s]) \cup Range(fifo[s]) \cup ShardEntries(s)
  PROVE  \E k \in Keys : ShardOf[k] = s /\ data[k] = e /\ e \in Entries /\ ent[e].key = k
<1>1. e \in ShardEntries(s)
  BY Zenon DEF ShardOK, ShardLists
<1>2. PICK k \in ShardKeys(s) : e = data[k] /\ e # Nil
  BY <1>1, Zenon DEF ShardEntries
<1> QED BY <1>2, Zenon DEF ShardKeys, ShardOK, ShardType, MapOK

\* removeFromShard keeps lists, map and counters in step.
LEMMA RemovedOK ==
  ASSUME Facts, ShardOK, NEW k \in Keys, data[k] # Nil,
         data' = [data EXCEPT ![k] = Nil],
         lru' = [lru EXCEPT ![ShardOf[k]] = RemoveFirst(@, data[k])],
         fifo' = [fifo EXCEPT ![ShardOf[k]] = RemoveFirst(@, data[k])],
         shUsed' = [shUsed EXCEPT ![ShardOf[k]] = SatSub(@, ent[data[k]].size)],
         used' = SatSub(used, ent[data[k]].size),
         ent' = ent
  PROVE  ShardOK'
<1> DEFINE e == data[k]
           s == ShardOf[k]
<1>0. s \in Shards /\ e \in Entries
  BY ConstantsOK, Zenon DEF ShardOK, ShardType
<1>1. SizeOf(k) = ent[e].size /\ SizeOf(k) \in 0 .. MaxSize
  BY SizeOfBound, Zenon DEF SizeOf, ShardOK
<1>2. SizeOf(k)' = 0 /\ \A j \in Keys \ {k} : SizeOf(j)' = SizeOf(j)
  BY Zenon DEF SizeOf, ShardOK, ShardType
<1>3. SizeOf(k) <= used /\ SizeOf(k) <= shUsed[s]
  BY ChargeIncluded, Zenon
<1>4. /\ used' = used - SizeOf(k) + 0
      /\ shUsed' = [shUsed EXCEPT ![ShardOf[k]] = @ - SizeOf(k) + 0]
  <2>1. used \in Nat /\ shUsed \in [Shards -> Nat] /\ SizeOf(k) \in Nat
    BY <1>1, ConstantsOK DEF ShardOK, ShardType
  <2>2. used' = used - SizeOf(k) + 0
    BY <1>1, <1>3, <2>1 DEF SatSub
  <2>3. SatSub(shUsed[s], SizeOf(k)) = shUsed[s] - SizeOf(k) + 0
    BY <1>0, <1>3, <2>1 DEF SatSub
  <2> QED BY <1>1, <2>2, <2>3, Zenon
<1>5. 0 \in 0 .. MaxSize
  BY ConstantsOK
<1>6. Accounting' /\ used' \in Nat /\ shUsed' \in [Shards -> Nat]
  BY <1>2, <1>4, <1>5, AccountingStep, Zenon
<1>7. MapOK'
  BY Zenon DEF MapOK, ShardOK, ShardType
<1>8. \A r \in Shards : ShardEntries(r)' = IF r = s THEN ShardEntries(r) \ {e} ELSE ShardEntries(r)
  <2> TAKE r \in Shards
  <2>1. \A j \in Keys \ {k} : data'[j] = data[j] /\ (data[j] # Nil => data[j] # e)
    BY EntryUnique, Zenon DEF ShardOK, ShardType
  <2>2. data'[k] = Nil
    BY Zenon DEF ShardOK, ShardType
  <2> QED BY <2>1, <2>2, Zenon DEF ShardEntries, ShardKeys
<1>9. ASSUME NEW r \in Shards
      PROVE  /\ lru'[r] \in Seq(Entries) /\ IsInjective(lru'[r]) /\ Range(lru'[r]) = ShardEntries(r)'
             /\ fifo'[r] \in Seq(Entries) /\ IsInjective(fifo'[r]) /\ Range(fifo'[r]) = ShardEntries(r)'
  <2>0. /\ lru[r] \in Seq(Entries) /\ IsInjective(lru[r]) /\ Range(lru[r]) = ShardEntries(r)
        /\ fifo[r] \in Seq(Entries) /\ IsInjective(fifo[r]) /\ Range(fifo[r]) = ShardEntries(r)
    BY Zenon DEF ShardOK, ShardType, ShardLists
  <2>1. CASE r = s
    <3>1. lru'[r] = RemoveFirst(lru[r], e) /\ fifo'[r] = RemoveFirst(fifo[r], e)
      BY <2>1, Zenon DEF ShardOK, ShardType
    <3>2. /\ RemoveFirst(lru[r], e) \in Seq(Entries) /\ IsInjective(RemoveFirst(lru[r], e))
          /\ Range(RemoveFirst(lru[r], e)) = Range(lru[r]) \ {e}
      BY <2>0, Zenon DEF Facts, RemoveFirstFact
    <3>3. /\ RemoveFirst(fifo[r], e) \in Seq(Entries) /\ IsInjective(RemoveFirst(fifo[r], e))
          /\ Range(RemoveFirst(fifo[r], e)) = Range(fifo[r]) \ {e}
      BY <2>0, Zenon DEF Facts, RemoveFirstFact
    <3> QED BY <2>0, <2>1, <3>1, <3>2, <3>3, <1>8, Zenon
  <2>2. CASE r # s
    <3>1. lru'[r] = lru[r] /\ fifo'[r] = fifo[r]
      BY <2>2, Zenon DEF ShardOK, ShardType
    <3> QED BY <2>0, <2>2, <3>1, <1>8, Zenon
  <2> QED BY <2>1, <2>2, Zenon
<1>10. ShardType'
  <2>1. DOMAIN lru' = Shards /\ DOMAIN fifo' = Shards
    BY Zenon DEF ShardOK, ShardType
  <2>2. lru' \in [Shards -> Seq(Entries)] /\ fifo' \in [Shards -> Seq(Entries)]
    BY <1>9, <2>1, Zenon DEF ShardOK, ShardType
  <2> QED BY <1>6, <2>2, Zenon DEF ShardOK, ShardType
<1> QED BY <1>6, <1>7, <1>9, <1>10, Zenon DEF ShardOK, ShardLists

\* dllTouch moves an entry to the tail: nothing is lost or linked twice.
LEMMA TouchedProperties ==
  ASSUME Facts, NEW s \in Seq(Entries), NEW e \in Entries, IsInjective(s)
  PROVE  /\ Touched(s, e) \in Seq(Entries)
         /\ IsInjective(Touched(s, e))
         /\ Range(Touched(s, e)) = Range(s) \cup {e}
<1>1. /\ RemoveFirst(s, e) \in Seq(Entries) /\ IsInjective(RemoveFirst(s, e))
      /\ Range(RemoveFirst(s, e)) = Range(s) \ {e}
  BY Zenon DEF Facts, RemoveFirstFact
<1> DEFINE r == RemoveFirst(s, e)
<1>2. e \notin Range(r)
  BY <1>1, Zenon
<1> HIDE DEF r
<1>3. /\ Append(r, e) \in Seq(Entries) /\ IsInjective(Append(r, e))
      /\ Range(Append(r, e)) = Range(r) \cup {e}
  BY <1>1, <1>2, Zenon DEF Facts, AppendFact, r
<1>4. Touched(s, e) = Append(r, e)
  BY Zenon DEF Touched, r
<1>5. Range(r) \cup {e} = Range(s) \cup {e}
  BY <1>1, Zenon DEF r
<1> QED BY <1>3, <1>4, <1>5, Zenon

\* A read or an update of a stored entry: it may move to the tail of the recency
\* list, and its size and deadline may change with the counters.
LEMMA UpdatedOK ==
  ASSUME Facts, ShardOK, NEW k \in Keys, data[k] # Nil, NEW n \in 1 .. MaxSize,
         UNCHANGED <<data, fifo>>,
         \/ lru' = lru
         \/ lru' = [lru EXCEPT ![ShardOf[k]] = Touched(@, data[k])],
         ent' \in [Entries -> [key : Keys \cup {Nil}, size : Nat, exp : Nat]],
         ent'[data[k]].key = k, ent'[data[k]].size = n,
         \A x \in Entries \ {data[k]} : ent'[x] = ent[x],
         used' = used - SizeOf(k) + n,
         shUsed' = [shUsed EXCEPT ![ShardOf[k]] = @ - SizeOf(k) + n]
  PROVE  ShardOK'
<1> DEFINE e == data[k]
           s == ShardOf[k]
<1>0. s \in Shards /\ e \in Entries /\ n \in 0 .. MaxSize
  BY ConstantsOK DEF ShardOK, ShardType
<1>1. SizeOf(k)' = n
  BY Zenon DEF SizeOf
<1>2. \A j \in Keys \ {k} : data[j] # Nil => data[j] \in Entries /\ data[j] # e
  BY EntryUnique, Zenon DEF ShardOK, ShardType
<1>3. \A j \in Keys \ {k} : SizeOf(j)' = SizeOf(j)
  BY <1>2, Zenon DEF SizeOf
<1>4. Accounting' /\ used' \in Nat /\ shUsed' \in [Shards -> Nat]
  BY <1>0, <1>1, <1>3, AccountingStep, Zenon
<1>5. MapOK'
  BY <1>2, Zenon DEF MapOK, ShardOK
<1>6. \A r \in Shards : ShardEntries(r)' = ShardEntries(r)
  BY Zenon DEF ShardEntries
<1>7. e \in ShardEntries(s)
  BY <1>0, Zenon DEF ShardEntries, ShardKeys
<1>8. ASSUME NEW r \in Shards
      PROVE  lru'[r] \in Seq(Entries) /\ IsInjective(lru'[r]) /\ Range(lru'[r]) = ShardEntries(r)
  <2>0. lru[r] \in Seq(Entries) /\ IsInjective(lru[r]) /\ Range(lru[r]) = ShardEntries(r)
    BY Zenon DEF ShardOK, ShardType, ShardLists
  <2>1. CASE lru'[r] = lru[r]
    BY <2>0, <2>1, Zenon
  <2>2. CASE r = s /\ lru' = [lru EXCEPT ![ShardOf[k]] = Touched(@, data[k])]
    <3>1. lru'[r] = Touched(lru[r], e)
      BY <1>0, <2>2, Zenon DEF ShardOK, ShardType
    <3>2. /\ Touched(lru[r], e) \in Seq(Entries) /\ IsInjective(Touched(lru[r], e))
          /\ Range(Touched(lru[r], e)) = Range(lru[r]) \cup {e}
      BY <1>0, <2>0, TouchedProperties, Zenon
    <3> QED BY <2>0, <2>2, <3>1, <3>2, <1>7, Zenon
  <2> QED BY <2>1, <2>2, Zenon DEF ShardOK, ShardType
<1>9. ShardType'
  <2>1. DOMAIN lru' = Shards
    BY Zenon DEF ShardOK, ShardType
  <2>2. lru' \in [Shards -> Seq(Entries)]
    BY <1>8, <2>1, Zenon DEF ShardOK, ShardType
  <2> QED BY <1>4, <2>2, Zenon DEF ShardOK, ShardType
<1> QED BY <1>4, <1>5, <1>6, <1>8, <1>9, Zenon DEF ShardOK, ShardLists

\* A new entry: an object that nothing refers to.
LEMMA InsertedOK ==
  ASSUME Facts, ShardOK, NEW k \in Keys, data[k] = Nil, NEW n \in 1 .. MaxSize,
         NEW e \in Entries, \A j \in Keys : data[j] # e,
         data' = [data EXCEPT ![k] = e],
         lru' = [lru EXCEPT ![ShardOf[k]] = Append(@, e)],
         fifo' = [fifo EXCEPT ![ShardOf[k]] = Append(@, e)],
         ent' \in [Entries -> [key : Keys \cup {Nil}, size : Nat, exp : Nat]],
         ent'[e].key = k, ent'[e].size = n,
         \A j \in Keys : data[j] # Nil => ent'[data[j]] = ent[data[j]],
         used' = used + n,
         shUsed' = [shUsed EXCEPT ![ShardOf[k]] = @ + n]
  PROVE  ShardOK'
<1> DEFINE s == ShardOf[k]
<1>0. s \in Shards /\ n \in 0 .. MaxSize /\ n \in Nat
  BY ConstantsOK
<1>1. SizeOf(k) = 0 /\ SizeOf(k)' = n
  BY ConstantsOK, Zenon DEF SizeOf, ShardOK, ShardType
<1>2. \A j \in Keys \ {k} : data'[j] = data[j]
  BY Zenon DEF ShardOK, ShardType
<1>3. \A j \in Keys \ {k} : SizeOf(j)' = SizeOf(j)
  BY <1>2 DEF SizeOf
<1>4. /\ used' = used - SizeOf(k) + n
      /\ shUsed' = [shUsed EXCEPT ![ShardOf[k]] = @ - SizeOf(k) + n]
  <2>1. used \in Nat /\ shUsed[s] \in Nat
    BY <1>0, Zenon DEF ShardOK, ShardType
  <2>2. used + n = used - 0 + n /\ shUsed[s] + n = shUsed[s] - 0 + n
    BY <1>0, <2>1
  <2> QED BY <1>1, <2>2, Zenon
<1>5. Accounting' /\ used' \in Nat /\ shUsed' \in [Shards -> Nat]
  BY <1>0, <1>1, <1>3, <1>4, AccountingStep, Zenon
<1>6. MapOK'
  BY <1>2, ConstantsOK, ZenonT(30) DEF MapOK, ShardOK, ShardType
<1>7. \A r \in Shards : /\ ShardEntries(r)' = IF r = s THEN ShardEntries(r) \cup {e} ELSE ShardEntries(r)
                        /\ e \notin ShardEntries(r)
  <2> TAKE r \in Shards
  <2>1. data'[k] = e /\ e # Nil
    BY ConstantsOK, Zenon DEF ShardOK, ShardType
  <2> QED BY <1>2, <2>1 DEF ShardEntries, ShardKeys
<1>8. ASSUME NEW r \in Shards
      PROVE  /\ lru'[r] \in Seq(Entries) /\ IsInjective(lru'[r]) /\ Range(lru'[r]) = ShardEntries(r)'
             /\ fifo'[r] \in Seq(Entries) /\ IsInjective(fifo'[r]) /\ Range(fifo'[r]) = ShardEntries(r)'
  <2>0. /\ lru[r] \in Seq(Entries) /\ IsInjective(lru[r]) /\ Range(lru[r]) = ShardEntries(r)
        /\ fifo[r] \in Seq(Entries) /\ IsInjective(fifo[r]) /\ Range(fifo[r]) = ShardEntries(r)
    BY Zenon DEF ShardOK, ShardType, ShardLists
  <2>1. CASE r = s
    <3>1. lru'[r] = Append(lru[r], e) /\ fifo'[r] = Append(fifo[r], e)
      BY <2>1, Zenon DEF ShardOK, ShardType
    <3>2. e \notin Range(lru[r]) /\ e \notin Range(fifo[r])
      BY <2>0, <1>7, Zenon
    <3>3. /\ Append(lru[r], e) \in Seq(Entries) /\ IsInjective(Append(lru[r], e))
          /\ Range(Append(lru[r], e)) = Range(lru[r]) \cup {e}
      BY <2>0, <3>2, Zenon DEF Facts, AppendFact
    <3>4. /\ Append(fifo[r], e) \in Seq(Entries) /\ IsInjective(Append(fifo[r], e))
          /\ Range(Append(fifo[r], e)) = Range(fifo[r]) \cup {e}
      BY <2>0, <3>2, Zenon DEF Facts, AppendFact
    <3> QED BY <2>0, <2>1, <3>1, <3>3, <3>4, <1>7, Zenon
  <2>2. CASE r # s
    <3>1. lru'[r] = lru[r] /\ fifo'[r] = fifo[r]
      BY <2>2, Zenon DEF ShardOK, ShardType
    <3> QED BY <2>0, <2>2, <3>1, <1>7, Zenon
  <2> QED BY <2>1, <2>2, Zenon
<1>9. ShardType'
  <2>1. DOMAIN lru' = Shards /\ DOMAIN fifo' = Shards
    BY Zenon DEF ShardOK, ShardType
  <2>2. lru' \in [Shards -> Seq(Entries)] /\ fifo' \in [Shards -> Seq(Entries)]
    BY <1>8, <2>1, Zenon DEF ShardOK, ShardType
  <2> QED BY <1>5, <2>2, Zenon DEF ShardOK, ShardType
<1> QED BY <1>5, <1>6, <1>8, <1>9, Zenon DEF ShardOK, ShardLists

\* removeFromShard: map, lists and both counters lose the same entry.
LEMMA RemoveStep ==
  ASSUME Facts, IInv, NEW t \in Threads, NEW k \in Keys, data[k] # Nil,
         NEW l \in LocType, NEW then \in Labels, l.ent = Nil \/ l.ent \in InUse,
         LocOK("unlink", [l EXCEPT !.ent = data[k], !.vk = k, !.then = then]),
         LocOK(AfterUnlink(then), [l EXCEPT !.vk = k, !.then = then]),
         removeFromShard(t, data[k], l, then)
  PROVE  IInv'
<1> DEFINE e == data[k]
<1>0. e \in Entries /\ ent[e].key = k /\ ShardOf[k] \in Shards
  BY ConstantsOK, Zenon DEF IInv, ShardOK, ShardType, MapOK
<1>1. ShardOK'
  BY <1>0, RemovedOK, Zenon DEF IInv, removeFromShard
<1>2. PICK a, m : /\ Goto(t, a, m) /\ a \in Labels /\ m \in LocType /\ LocOK(a, m)
                  /\ m.ent \in {l.ent, e}
  <2>1. CASE strategy = GlobalTrack
    <3> DEFINE m == [l EXCEPT !.ent = e, !.vk = k, !.then = then]
    <3>1. Goto(t, "unlink", m)
      BY <1>0, <2>1, Zenon DEF removeFromShard
    <3>2. m \in LocType /\ m.ent = e
      BY <1>0, Zenon DEF LocType
    <3>3. "unlink" \in Labels
      BY Zenon DEF Labels
    <3> QED BY <3>1, <3>2, <3>3, Zenon
  <2>2. CASE strategy # GlobalTrack
    <3> DEFINE m == [l EXCEPT !.vk = k, !.then = then]
    <3>1. Goto(t, AfterUnlink(then), m)
      BY <1>0, <2>2, Zenon DEF removeFromShard
    <3>2. m \in LocType /\ m.ent = l.ent
      BY Zenon DEF LocType
    <3>3. AfterUnlink(then) \in Labels
      BY Zenon DEF AfterUnlink, Labels
    <3> QED BY <3>1, <3>2, <3>3, Zenon
  <2> QED BY <2>1, <2>2, Zenon
<1>3. ThreadsOK'
  BY <1>2, GotoOK, Zenon DEF IInv
<1>4. GlobalType'
  BY <1>0, Zenon DEF IInv, GlobalType, removeFromShard, Holder
<1>5. ReachableOK'
  <2>1. ASSUME NEW x \in InUse', x # Nil PROVE x \in InUse
    <3>1. CASE x \in {data'[j] : j \in Keys}
      BY <2>1, <3>1, Zenon DEF removeFromShard, InUse, IInv, ShardOK, ShardType
    <3>2. CASE x \in Range(gLru') \cup Range(gFifo')
      BY <3>2, Zenon DEF removeFromShard, InUse
    <3>3. CASE x \in {loc'[u].ent : u \in Threads}
      <4>1. PICK u \in Threads : x = loc'[u].ent
        BY <3>3, Zenon
      <4>2. CASE u = t
        <5>1. x \in {l.ent, e}
          BY <1>2, <4>1, <4>2, Zenon DEF Goto, IInv, ThreadsOK
        <5> QED BY <2>1, <5>1, Zenon DEF InUse
      <4>3. CASE u # t
        BY <1>2, <4>1, <4>3, Zenon DEF Goto, IInv, ThreadsOK, InUse
      <4> QED BY <4>2, <4>3, Zenon
    <3> QED BY <2>1, <3>1, <3>2, <3>3, Zenon DEF InUse
  <2>2. ent' = ent
    BY Zenon DEF removeFromShard
  <2> QED BY <2>1, <2>2, Zenon DEF IInv, ReachableOK
<1> QED BY <1>1, <1>3, <1>4, <1>5, Zenon DEF IInv

\* The section of removeFromShard under gMu keeps the invariant.
LEMMA UnlinkStep ==
  ASSUME Facts, IInv, NEW t \in Threads, Unlink(t)
  PROVE  IInv'
<1> DEFINE l == loc[t]
           a == AfterUnlink(l.then)
           m == [l EXCEPT !.ent = Nil]
<1>1. l \in LocType /\ pc[t] = "unlink" /\ LocOK("unlink", l)
  BY Zenon DEF IInv, ThreadsOK, Unlink
<1>2. a \in Labels /\ m \in LocType /\ m.ent = Nil
  BY <1>1 DEF LocType, AfterUnlink, Labels
<1>3. LocOK(a, m)
  BY <1>1, Zenon DEF LocOK, Resumes, AfterUnlink, SetLabels, LocType
<1>4. Goto(t, a, m)
  BY Zenon DEF Unlink
<1>5. Jumps(t)
  BY <1>2, <1>3, <1>4, Zenon DEF Jumps
<1>6. ShardOK'
  BY ShardSame, Zenon DEF IInv, Unlink
<1>7. /\ gLru' \in Seq(Entries) /\ Range(gLru') \subseteq Range(gLru)
      /\ gFifo' \in Seq(Entries) /\ Range(gFifo') \subseteq Range(gFifo)
  BY Zenon DEF Facts, RemoveFirstFact, IInv, GlobalType, Unlink
<1>8. GlobalType'
  BY <1>1, <1>7, ConstantsOK, Zenon DEF IInv, GlobalType, Unlink, LocOK
<1>9. Range(gLru') \subseteq InUse /\ Range(gFifo') \subseteq InUse
  BY <1>7, Zenon DEF InUse
<1>10. data' = data /\ \A x \in InUse : x # Nil => ent'[x].key \in Keys
  BY Zenon DEF IInv, ReachableOK, Unlink, shardVars
<1> QED BY <1>5, <1>6, <1>8, <1>9, <1>10, KeepsMapStep, Zenon

\* clearExpiry keeps the invariant.
LEMMA ClearStep ==
  ASSUME IInv, NEW t \in Threads, clearExpiry(t)
  PROVE  IInv'
<1> DEFINE l == loc[t]
           r == [l EXCEPT !.vk = Nil, !.then = "idle", !.scan = 0]
           b == IF l.then = "thief" THEN "steal" ELSE l.then
<1>1. l \in LocType /\ pc[t] = "clear" /\ LocOK("clear", l)
  BY Zenon DEF IInv, ThreadsOK, clearExpiry
<1>2. GlobalType'
  BY <1>1, ConstantsOK, Zenon DEF IInv, GlobalType, clearExpiry, LocOK, globalVars
<1>3. CASE l.then = "idle"
  <2>1. Jumps(t)
    BY <1>3, ReturnJumps, Zenon DEF clearExpiry
  <2> QED BY <1>2, <2>1, QuietStep, Zenon DEF clearExpiry
<1>4. CASE l.then # "idle"
  <2>1. Goto(t, b, r)
    BY <1>4, Zenon DEF clearExpiry
  <2>0. l.then \in Labels /\ "idle" \in Labels /\ "steal" \in Labels
    BY <1>1, Zenon DEF LocType, Labels
  <2>2. b \in Labels /\ r \in LocType /\ r.ent = l.ent
    BY <1>1, <2>0, Zenon DEF LocType
  <2>3. LocOK(b, r)
    BY <1>1, Zenon DEF LocOK, Resumes, SetLabels, LocType
  <2>4. r.ent \in InUse
    BY <2>2, Zenon DEF InUse
  <2>5. Jumps(t)
    BY <2>1, <2>2, <2>3, <2>4, Zenon DEF Jumps
  <2> QED BY <1>2, <2>5, QuietStep, Zenon DEF clearExpiry
<1> QED BY <1>3, <1>4, Zenon

----------------------------------------------------------------------------
(* The steps of the operations *)

\* The facts about client t that every step below starts from.
LEMMA ClientFacts ==
  ASSUME IInv, NEW t \in Threads
  PROVE  /\ pc[t] \in Labels /\ loc[t] \in LocType /\ LocOK(pc[t], loc[t])
         /\ loc[t].ent = Nil \/ loc[t].ent \in InUse
BY Zenon DEF IInv, ThreadsOK, InUse

\* The part of Set before its first lock is a legal move of its thread.
LEMMA PrologueJumps ==
  ASSUME IInv, NEW t \in Threads, NEW k \in Keys, NEW sz \in 1 .. MaxSize,
         NEW at \in Nat, NEW mode \in {"plain", "nx", "xx", "keep"},
         SetPrologue(t, k, sz, at, mode)
  PROVE  Jumps(t)
<1>1. CASE strategy = GlobalTrack /\ sz > MaxMemory
  BY <1>1, ReturnJumps, Zenon DEF SetPrologue
<1>2. CASE ~ (strategy = GlobalTrack /\ sz > MaxMemory)
  <2> DEFINE m == [NoLoc EXCEPT !.op = "set", !.key = k, !.size = sz, !.mode = mode,
                                !.exp = Clamp(clock, at), !.now = clock]
  <2>0. Clamp(clock, at) \in Nat /\ clock \in Nat /\ sz \in Nat
    BY StoreAssumption DEF Clamp, IInv, GlobalType
  <2>1. m \in LocType /\ m.ent = Nil
    BY <2>0, NoLocOK, Zenon DEF LocType, NoLoc
  <2>2. "lock" \in Labels
    BY Zenon DEF Labels
  <2>3. LocOK("lock", m)
    BY Zenon DEF LocOK, Resumes, NoLoc, KeyOps, SetLabels
  <2>4. Goto(t, "lock", m)
    BY <1>2, Zenon DEF SetPrologue
  <2> QED BY <2>1, <2>2, <2>3, <2>4, Zenon DEF Jumps
<1> QED BY <1>1, <1>2, Zenon

\* The start of any operation keeps the invariant.
LEMMA StartStep ==
  ASSUME IInv, NEW t \in Clients, Start(t)
  PROVE  IInv'
<1>0. t \in Threads
  BY StoreAssumption, Zenon DEF Threads
<1>w. policy \in Policies
  BY Zenon DEF IInv, GlobalType
<1>1. ASSUME NEW op, Starts(t, op), Jumps(t) PROVE IInv'
  <2>1. GlobalType'
    BY <1>1 DEF Starts, IInv, GlobalType, globalVars
  <2> QED BY <1>0, <1>1, <2>1, QuietStep, Zenon DEF Starts
<1>2. CASE StartSet(t)
  <2>1. PICK k \in Work[policy].keys, sz \in Sizes, ttl \in Work[policy].ttls,
             mode \in Work[policy].modes : SetPrologue(t, k, sz, Deadline(clock, ttl), mode)
    BY <1>2, Zenon DEF StartSet
  <2>2. /\ k \in Keys /\ sz \in 1 .. MaxSize /\ Deadline(clock, ttl) \in Nat
        /\ mode \in {"plain", "nx", "xx", "keep"}
    BY <1>w, WorkOK, StoreAssumption DEF Deadline, IInv, GlobalType
  <2>3. Jumps(t)
    BY <1>0, <2>1, <2>2, PrologueJumps, Zenon
  <2> QED BY <1>1, <1>2, <2>3, Zenon DEF StartSet
<1>3. CASE StartKeyOp(t)
  <2>1. PICK op \in {"get", "exists", "del", "persist"}, k \in Keys :
          /\ Starts(t, op)
          /\ Goto(t, "lock", [NoLoc EXCEPT !.op = op, !.key = k, !.now = clock])
    BY <1>3, <1>w, WorkOK, Zenon DEF StartKeyOp
  <2> DEFINE m == [NoLoc EXCEPT !.op = op, !.key = k, !.now = clock]
  <2>2. m \in LocType /\ m.ent = Nil
    BY NoLocOK, Zenon DEF LocType, NoLoc, IInv, GlobalType
  <2>3. LocOK("lock", m)
    BY Zenon DEF LocOK, Resumes, NoLoc, KeyOps, SetLabels
  <2>4. "lock" \in Labels
    BY Zenon DEF Labels
  <2>5. Jumps(t)
    BY <2>1, <2>2, <2>3, <2>4, Zenon DEF Jumps
  <2> QED BY <1>1, <2>1, <2>5, Zenon
<1>4. CASE StartExpire(t)
  <2>0. PICK k \in Keys, ttl \in Nat :
          Goto(t, "lock", [NoLoc EXCEPT !.op = IF ttl = 0 THEN "del" ELSE "expire",
                                        !.key = k, !.now = clock,
                                        !.exp = Clamp(clock, Deadline(clock, ttl))])
    BY <1>4, <1>w, WorkOK, Zenon DEF StartExpire
  <2>1. PICK op \in {"del", "expire"} :
          Goto(t, "lock", [NoLoc EXCEPT !.op = op, !.key = k, !.now = clock,
                                        !.exp = Clamp(clock, Deadline(clock, ttl))])
    BY <2>0, Zenon
  <2> DEFINE m == [NoLoc EXCEPT !.op = op, !.key = k, !.now = clock,
                                !.exp = Clamp(clock, Deadline(clock, ttl))]
  <2>2. Clamp(clock, Deadline(clock, ttl)) \in Nat /\ clock \in Nat
    BY StoreAssumption DEF Deadline, Clamp, IInv, GlobalType
  <2>3. m \in LocType /\ m.ent = Nil
    BY <2>2, NoLocOK, Zenon DEF LocType, NoLoc
  <2>4. LocOK("lock", m)
    BY Zenon DEF LocOK, Resumes, NoLoc, KeyOps, SetLabels
  <2>5. "lock" \in Labels
    BY Zenon DEF Labels
  <2>6. Jumps(t)
    BY <2>1, <2>3, <2>4, <2>5, Zenon DEF Jumps
  <2> QED BY <1>1, <1>4, <2>6, Zenon DEF StartExpire
<1>5. CASE StartIncr(t)
  <2>1. PICK k \in Keys, sz \in Sizes :
          Goto(t, "lock", [NoLoc EXCEPT !.op = "incr", !.key = k, !.now = clock, !.size = sz])
    BY <1>5, <1>w, WorkOK, Zenon DEF StartIncr
  <2> DEFINE m == [NoLoc EXCEPT !.op = "incr", !.key = k, !.now = clock, !.size = sz]
  <2>2. sz \in 1 .. MaxSize /\ sz \in Nat /\ clock \in Nat
    BY StoreAssumption DEF IInv, GlobalType
  <2>3. m \in LocType /\ m.ent = Nil
    BY <2>2, NoLocOK, Zenon DEF LocType, NoLoc
  <2>4. LocOK("lock", m)
    BY <2>2, Zenon DEF LocOK, Resumes, NoLoc, KeyOps, SetLabels
  <2>5. "lock" \in Labels
    BY Zenon DEF Labels
  <2>6. Jumps(t)
    BY <2>1, <2>3, <2>4, <2>5, Zenon DEF Jumps
  <2> QED BY <1>1, <1>5, <2>6, Zenon DEF StartIncr
<1>6. CASE StartFlush(t)
  <2> DEFINE m == [NoLoc EXCEPT !.op = "flush"]
  <2>1. m \in LocType /\ m.ent = Nil
    BY NoLocOK, Zenon DEF LocType, NoLoc
  <2>2. LocOK("f_scan", m)
    BY Zenon DEF LocOK, Resumes, NoLoc, KeyOps, SetLabels
  <2>3. "f_scan" \in Labels
    BY Zenon DEF Labels
  <2>4. Goto(t, "f_scan", m)
    BY <1>6, Zenon DEF StartFlush
  <2>5. Jumps(t)
    BY <2>1, <2>2, <2>3, <2>4, Zenon DEF Jumps
  <2> QED BY <1>1, <1>6, <2>5, Zenon DEF StartFlush
<1> QED BY <1>2, <1>3, <1>4, <1>5, <1>6, Zenon DEF Start

\* A thread that goes on with the entry it holds, or with none, makes a legal move.
LEMMA JumpsOn ==
  ASSUME IInv, NEW t \in Threads, NEW a \in Labels, NEW m \in LocType,
         LocOK(a, m), Goto(t, a, m), m.ent = loc[t].ent \/ m.ent = Nil
  PROVE  Jumps(t)
BY ClientFacts, Zenon DEF Jumps

\* Nothing but the thread, and perhaps one mutex, changes.
LEMMA StillStep ==
  ASSUME IInv, NEW t \in Threads, Jumps(t),
         UNCHANGED <<shardVars, used, globalVars, expH, strategy, policy, clock, left>>,
         mu' = mu \/ \E s \in Shards, h \in {t, Nil} : Holder(s, h)
  PROVE  IInv'
<1>1. GlobalType'
  BY Zenon DEF IInv, GlobalType, globalVars, Holder
<1> QED BY <1>1, QuietStep, Zenon

\* The deadline of a stored entry is a number.
LEMMA StoredEntry ==
  ASSUME IInv, NEW k \in Keys, data[k] # Nil
  PROVE  /\ data[k] \in Entries /\ data[k] \in InUse /\ ent[data[k]].key = k
         /\ ent[data[k]].exp \in Nat /\ ent[data[k]].size \in 1 .. MaxSize
BY Zenon DEF IInv, ShardOK, ShardType, MapOK, InUse

\* Every object that is referred to is an entry.
LEMMA InUseEntries == IInv => InUse \subseteq Entries \cup {Nil}
<1> SUFFICES ASSUME IInv, NEW x \in InUse PROVE x \in Entries \cup {Nil}
  BY Zenon
<1>1. \A seq \in Seq(Entries) : Range(seq) \subseteq Entries
  BY DEF Range
<1>2. \A t \in Threads : loc[t].ent \in Entries \cup {Nil}
  BY Zenon DEF IInv, ThreadsOK, LocType
<1> QED BY <1>1, <1>2 DEF InUse, IInv, GlobalType, ShardOK, ShardType

\* Lookups that change nothing, and the read of IncrBy, keep the invariant.
LEMMA LookStep ==
  ASSUME IInv, NEW t \in Threads,
         Absent(t) \/ Exists(t) \/ IncrRead(t) \/ IncrSet(t)
  PROVE  IInv'
<1> DEFINE l == loc[t]
<1>0. l \in LocType /\ LocOK(pc[t], l)
  BY ClientFacts, Zenon
<1>1. CASE Absent(t)
  BY <1>1, ReturnJumps, StillStep, Zenon DEF Absent
<1>2. CASE Exists(t)
  BY <1>2, ReturnJumps, StillStep, Zenon DEF Exists
<1>3. CASE IncrRead(t)
  <2> DEFINE m == [l EXCEPT !.exp = IF Found(t) THEN ent[data[l.key]].exp ELSE 0]
  <2>1. l.op = "incr" /\ l.key \in Keys
    BY <1>0, <1>3, Zenon DEF IncrRead, AtLock, LocOK, KeyOps
  <2>2. m \in LocType /\ m.ent = l.ent
    BY <1>0, <2>1, StoredEntry, Zenon DEF LocType, Found
  <2>3. LocOK("incr", m)
    BY <1>0, <2>1, Zenon DEF LocOK, Resumes, SetLabels, LocType
  <2>4. Goto(t, "incr", m) /\ "incr" \in Labels
    BY <1>3, Zenon DEF IncrRead, Labels
  <2>5. Jumps(t)
    BY <2>2, <2>3, <2>4, JumpsOn, Zenon
  <2> QED BY <1>3, <2>5, StillStep, Zenon DEF IncrRead
<1>4. CASE IncrSet(t)
  <2>1. l.key \in Keys /\ l.size \in 1 .. MaxSize /\ l.exp \in Nat
    BY <1>0, <1>4, Zenon DEF IncrSet, LocOK, Resumes, KeyOps, LocType
  <2>2. Jumps(t)
    BY <1>4, <2>1, PrologueJumps, Zenon DEF IncrSet
  <2> QED BY <1>4, <2>2, StillStep, Zenon DEF IncrSet
<1> QED BY <1>1, <1>2, <1>3, <1>4, Zenon

\* Between the labels of Set that keep the local variables as they are.
LEMMA SameLocJumps ==
  ASSUME IInv, NEW t \in Threads, pc[t] \in SetLabels,
         NEW b \in {"write", "pick", "stale"}, Goto(t, b, loc[t]),
         b = "stale" => pc[t] = "evict"
  PROVE  Jumps(t)
<1>1. loc[t] \in LocType /\ LocOK(pc[t], loc[t])
  BY ClientFacts, Zenon
<1>2. LocOK(b, loc[t])
  BY <1>1, Zenon DEF LocOK, Resumes, SetLabels
<1>3. b \in Labels
  BY Zenon DEF Labels
<1> QED BY <1>1, <1>2, <1>3, JumpsOn, Zenon

\* The first critical section of Set keeps the invariant.
LEMMA SetCheckStep ==
  ASSUME IInv, NEW t \in Threads, SetCheck(t)
  PROVE  IInv'
<1> DEFINE l == loc[t]
           s == Shard(t)
           m == [l EXCEPT !.need = Need(t),
                          !.exp = IF l.mode = "keep" /\ Found(t) THEN ent[data[l.key]].exp ELSE @]
<1>0. l \in LocType /\ LocOK(pc[t], l) /\ l.op = "set" /\ l.key \in Keys /\ s \in Shards
  BY ClientFacts, ConstantsOK, Zenon DEF SetCheck, LocOK, KeyOps, Shard
<1>1. Need(t) \in Nat
  BY <1>0, StoredEntry DEF Need, OldSize, SatSub, Found, LocType
<1>2. m \in LocType /\ m.ent = l.ent
  BY <1>0, <1>1, StoredEntry, Zenon DEF Found, LocType
<1>3. \A a \in {"noevict", "gspace", "steal", "budget"} : LocOK(a, m) /\ a \in Labels
  <2> TAKE a \in {"noevict", "gspace", "steal", "budget"}
  <2>1. LocOK(a, m)
    BY <1>0, Zenon DEF LocOK, Resumes, SetLabels, LocType
  <2>2. a \in Labels
    BY Zenon DEF Labels
  <2> QED BY <2>1, <2>2, Zenon
<1>4. \/ Return(t)
      \/ \E a \in {"noevict", "gspace", "steal", "budget"} : Goto(t, a, m)
  BY Zenon DEF SetCheck
<1>5. Jumps(t)
  BY <1>2, <1>3, <1>4, ReturnJumps, JumpsOn, Zenon
<1>6. mu' = mu \/ Holder(s, t)
  BY Zenon DEF SetCheck
<1> QED BY <1>0, <1>5, <1>6, StillStep, Zenon DEF SetCheck

\* The tests of ensureSpace that evict nothing, and a refused write, keep the invariant.
LEMMA FitsStep ==
  ASSUME IInv, NEW t \in Threads,
         \/ NoEvictCheck(t) \/ BudgetFits(t) \/ StealFits(t)
         \/ GlobalSpace(t) \/ WriteRefused(t)
  PROVE  IInv'
<1>0. pc[t] \in {"noevict", "budget", "steal", "gspace", "write"} /\ pc[t] \in SetLabels
  BY Zenon DEF NoEvictCheck, BudgetFits, StealFits, GlobalSpace, WriteRefused, AtWrite, SetLabels
<1>1. Shard(t) \in Shards
  BY <1>0, ClientFacts, ConstantsOK, Zenon DEF LocOK, Resumes, KeyOps, Shard
<1>2. \/ Return(t)
      \/ \E b \in {"write", "pick"} : Goto(t, b, loc[t])
  BY Zenon DEF NoEvictCheck, BudgetFits, StealFits, GlobalSpace, WriteRefused
<1>3. Jumps(t)
  BY <1>0, <1>2, ReturnJumps, SameLocJumps, Zenon
<1>4. mu' = mu \/ \E h \in {t, Nil} : Holder(Shard(t), h)
  BY Zenon DEF NoEvictCheck, BudgetFits, StealFits, GlobalSpace, WriteRefused
<1>5. UNCHANGED <<shardVars, used, globalVars, expH, strategy, policy, clock, left>>
  BY Zenon DEF NoEvictCheck, BudgetFits, StealFits, GlobalSpace, WriteRefused
<1> QED BY <1>1, <1>3, <1>4, <1>5, StillStep, Zenon

\* A caller of removeFromShard is in a legal state after it.
LEMMA RemoveLocOK ==
  ASSUME NEW a, NEW l \in LocType, LocOK(a, l), NEW k \in Keys, NEW e \in Entries,
         NEW then \in {"idle", "locknow", "incr", "budget", "steal", "thief", "gspace",
                       "f_del", "w_peek"},
         then \in SetLabels => l.op = "set", then = "incr" => l.op = "incr",
         then = "w_peek" => l.op = "expire_due"
  PROVE  /\ LocOK("unlink", [l EXCEPT !.ent = e, !.vk = k, !.then = then])
         /\ LocOK(AfterUnlink(then), [l EXCEPT !.vk = k, !.then = then])
<1>1. LocOK("unlink", [l EXCEPT !.ent = e, !.vk = k, !.then = then])
  BY Zenon DEF LocOK, Resumes, SetLabels, LocType
<1>2. LocOK(AfterUnlink(then), [l EXCEPT !.vk = k, !.then = then])
  BY DEF LocOK, Resumes, SetLabels, LocType, AfterUnlink
<1> QED BY <1>1, <1>2, Zenon

\* A removal on behalf of thread t, whatever it does next.
LEMMA DropStep ==
  ASSUME Facts, IInv, NEW t \in Threads, NEW e, NEW k \in Keys, data[k] = e, e # Nil,
         NEW l \in LocType, LocOK(pc[t], l), l.ent = loc[t].ent,
         NEW then \in {"idle", "locknow", "incr", "budget", "steal", "thief", "gspace",
                       "f_del", "w_peek"},
         then \in SetLabels => l.op = "set", then = "incr" => l.op = "incr",
         then = "w_peek" => l.op = "expire_due",
         removeFromShard(t, e, l, then)
  PROVE  IInv'
<1>1. e \in Entries
  BY StoredEntry, Zenon
<1>2. /\ LocOK("unlink", [l EXCEPT !.ent = e, !.vk = k, !.then = then])
      /\ LocOK(AfterUnlink(then), [l EXCEPT !.vk = k, !.then = then])
  BY <1>1, RemoveLocOK, Zenon
<1>3. then \in Labels
  BY Zenon DEF Labels
<1>4. l.ent = Nil \/ l.ent \in InUse
  BY ClientFacts, Zenon
<1> QED BY <1>2, <1>3, <1>4, RemoveStep, Zenon

\* Every victim is the stored entry of some key of the shard.
LEMMA VictimStored ==
  ASSUME IInv, NEW s \in Shards, NEW skip, NEW e \in pickLocalVictim(s, skip)
  PROVE  \E k \in Keys : data[k] = e /\ e # Nil /\ ShardOf[k] = s /\ ent[e].key = k
<1>1. \A seq : FirstVictim(seq, skip) \subseteq Range(seq)
  BY Zenon DEF FirstVictim, Range
<1>2. ttlPick(s, skip) \cup rndPick(s, skip) \cup lfuPick(s, skip) \subseteq ShardEntries(s)
  BY Zenon DEF ttlPick, rndPick, lfuPick
<1>3. e \in Range(lru[s]) \cup Range(fifo[s]) \cup ShardEntries(s)
  BY <1>1, <1>2, Zenon DEF pickLocalVictim
<1>4. ShardOK
  BY Zenon DEF IInv
<1> QED BY <1>3, <1>4, ListedEntry, ConstantsOK

\* Lazy expiry and Del keep the invariant.
LEMMA DiscardStep ==
  ASSUME Facts, IInv, NEW t \in Threads, Discard(t)
  PROVE  IInv'
<1> DEFINE l == loc[t]
           then == CASE l.op = "set" -> "locknow" [] l.op = "incr" -> "incr" [] OTHER -> "idle"
<1>1. l \in LocType /\ LocOK(pc[t], l) /\ l.key \in Keys /\ data[l.key] # Nil
  BY ClientFacts, Zenon DEF Discard, AtLock, Found, LocOK, KeyOps
<1>2. then \in {"idle", "locknow", "incr"}
  BY Zenon
<1>3. (then \in SetLabels => l.op = "set") /\ (then = "incr" => l.op = "incr")
  BY Zenon DEF SetLabels
<1>4. removeFromShard(t, data[l.key], l, then)
  BY Zenon DEF Discard
<1> HIDE DEF then
<1> QED BY <1>1, <1>2, <1>3, <1>4, DropStep, Zenon

\* evictOneLocal, in the own or in another shard, keeps the invariant.
LEMMA LocalEvictStep ==
  ASSUME Facts, IInv, NEW t \in Threads, BudgetEvict(t) \/ StealEvict(t) \/ Thief(t)
  PROVE  IInv'
<1> DEFINE l == loc[t]
<1>0. pc[t] \in {"budget", "steal", "thief"}
  BY Zenon DEF BudgetEvict, StealEvict, Thief
<1>1. l \in LocType /\ LocOK(pc[t], l) /\ l.op = "set" /\ l.key \in Keys /\ Shard(t) \in Shards
  BY <1>0, ClientFacts, ConstantsOK, Zenon DEF LocOK, Resumes, SetLabels, KeyOps, Shard
<1>2. (Shard(t) + 1 + l.scan) % ShardCount \in Shards
  BY <1>1, ConstantsOK DEF LocType, Shards
<1>3. CASE \E s \in Shards : \E e \in pickLocalVictim(s, l.key), then \in {"budget", "steal", "thief"} :
             removeFromShard(t, e, l, then)
  <2>0. PICK s \in Shards : \E e \in pickLocalVictim(s, l.key), then \in {"budget", "steal", "thief"} :
             removeFromShard(t, e, l, then)
    BY <1>3, Zenon
  <2>1. PICK e \in pickLocalVictim(s, l.key), then \in {"budget", "steal", "thief"} :
             removeFromShard(t, e, l, then)
    BY <2>0, Zenon
  <2>2. PICK k \in Keys : data[k] = e /\ e # Nil
    BY VictimStored
  <2> QED BY <1>1, <2>1, <2>2, DropStep, Zenon
<1>4. CASE /\ Return(t) \/ \E n \in Nat : Goto(t, "thief", [l EXCEPT !.scan = n])
           /\ mu' = mu \/ Holder(Shard(t), Nil)
           /\ UNCHANGED <<shardVars, used, globalVars, expH, strategy, policy, clock, left>>
  <2>1. ASSUME NEW n \in Nat, Goto(t, "thief", [l EXCEPT !.scan = n]) PROVE Jumps(t)
    <3> DEFINE m == [l EXCEPT !.scan = n]
    <3>1. m \in LocType /\ m.ent = l.ent
      BY <1>1, Zenon DEF LocType
    <3>2. LocOK("thief", m)
      BY <1>1, Zenon DEF LocOK, Resumes, SetLabels, LocType
    <3>3. "thief" \in Labels
      BY Zenon DEF Labels
    <3> QED BY <2>1, <3>1, <3>2, <3>3, JumpsOn, Zenon
  <2>2. Jumps(t)
    BY <1>4, <2>1, ReturnJumps, Zenon
  <2> QED BY <1>1, <1>4, <2>2, StillStep, Zenon
<1>5. CASE BudgetEvict(t)
  BY <1>1, <1>3, <1>4, <1>5, Zenon DEF BudgetEvict
<1>6. CASE StealEvict(t)
  BY <1>1, <1>3, <1>4, <1>6, Zenon DEF StealEvict
<1>7. CASE Thief(t)
  <2>1. l.scan + 1 \in Nat
    BY <1>1 DEF LocType
  <2> QED BY <1>2, <1>3, <1>4, <1>7, <2>1, Zenon DEF Thief
<1> QED BY <1>5, <1>6, <1>7, Zenon

\* evictOneGlobal's removal of the chosen key keeps the invariant.
LEMMA GlobalEvictStep ==
  ASSUME Facts, IInv, NEW t \in Threads, Evict(t)
  PROVE  IInv'
<1> DEFINE l == loc[t]
<1>1. l \in LocType /\ LocOK("evict", l) /\ pc[t] = "evict" /\ l.vk \in Keys /\ l.op = "set"
  BY ClientFacts, Zenon DEF Evict, LocOK, Resumes, SetLabels
<1>2. CASE data[l.vk] # Nil
  BY <1>1, <1>2, DropStep, Zenon DEF Evict
<1>3. CASE data[l.vk] = Nil
  <2>1. Jumps(t)
    BY <1>1, <1>3, SameLocJumps, Zenon DEF Evict, SetLabels
  <2> QED BY <1>3, <2>1, StillStep, Zenon DEF Evict
<1> QED BY <1>2, <1>3, Zenon

\* FlushDB's removal of a key keeps the invariant.
LEMMA FlushDelStep ==
  ASSUME Facts, IInv, NEW t \in Threads, FlushDel(t)
  PROVE  IInv'
<1> DEFINE l == loc[t]
<1>1. l \in LocType /\ LocOK("f_del", l) /\ pc[t] = "f_del"
  BY ClientFacts, Zenon DEF FlushDel
<1>2. PICK k \in l.todo :
        IF data[k] # Nil THEN removeFromShard(t, data[k], [l EXCEPT !.todo = @ \ {k}], "f_del")
        ELSE /\ Goto(t, "f_del", [l EXCEPT !.todo = @ \ {k}])
             /\ UNCHANGED <<shardVars, used, globalVars, expH, mu, strategy, policy, clock, left>>
  BY Zenon DEF FlushDel
<1> DEFINE m == [l EXCEPT !.todo = @ \ {k}]
<1>3. k \in Keys /\ m \in LocType /\ m.ent = l.ent
  BY <1>1, Zenon DEF LocType
<1>4. LocOK("f_del", m)
  BY <1>1, Zenon DEF LocOK, Resumes, SetLabels, LocType
<1>5. "f_del" \in Labels /\ "f_del" \notin SetLabels
  BY Zenon DEF Labels, SetLabels
<1>6. CASE data[k] # Nil
  BY <1>1, <1>2, <1>3, <1>4, <1>5, <1>6, DropStep, Zenon
<1>7. CASE data[k] = Nil
  <2>1. Jumps(t)
    BY <1>2, <1>3, <1>4, <1>5, <1>7, JumpsOn, Zenon
  <2> QED BY <1>2, <1>7, <2>1, StillStep, Zenon
<1> QED BY <1>6, <1>7, Zenon

\* Thread t jumps to label b on the way from "pick" to "evict": op, key and size
\* stay, and a victim is known where one is needed.
Picks(t, b, m) ==
  /\ Goto(t, b, m) /\ m \in LocType
  /\ b \in {"pick", "scan", "ttlskip", "ttlval", "evict", "gspace"}
  /\ m.op = loc[t].op /\ m.key = loc[t].key /\ m.size = loc[t].size
  /\ m.ent \in {loc[t].ent, Nil}
  /\ b \in {"ttlval", "evict"} => m.vk \in Keys

\* A step of the choice of a tenant-wide victim is a legal move of its thread.
LEMMA PicksJumps ==
  ASSUME IInv, NEW t \in Threads, NEW b, NEW m, Picks(t, b, m),
         pc[t] \in {"pick", "scan", "ttlskip", "ttlval", "ttlnote", "stale"}
  PROVE  Jumps(t)
<1>1. loc[t] \in LocType /\ LocOK(pc[t], loc[t])
  BY ClientFacts, Zenon
<1>2. LocOK(b, m)
  BY <1>1, Zenon DEF Picks, LocOK, Resumes, SetLabels
<1>3. b \in Labels
  BY Zenon DEF Labels, Picks
<1> QED BY <1>2, <1>3, JumpsOn, Zenon DEF Picks

\* The walk of a tenant-wide list keeps the invariant.
LEMMA PickListStep ==
  ASSUME IInv, NEW t \in Threads, PickFromList(t) \/ PickStart(t)
  PROVE  IInv'
<1> DEFINE l == loc[t]
<1>1. l \in LocType /\ pc[t] = "pick"
  BY ClientFacts, Zenon DEF PickFromList, PickStart
<1>2. CASE PickFromList(t)
  <2>1. \A seq : FirstVictim(seq, l.key) \subseteq Range(seq)
    BY Zenon DEF FirstVictim, Range
  <2>2. \/ Return(t)
        \/ \E e \in Range(gLru) \cup Range(gFifo) : Goto(t, "evict", [l EXCEPT !.vk = ent[e].key])
    BY <1>2, <2>1, Zenon DEF PickFromList
  <2>3. ASSUME NEW e \in Range(gLru) \cup Range(gFifo), Goto(t, "evict", [l EXCEPT !.vk = ent[e].key])
        PROVE  Jumps(t)
    <3>1. e \in InUse /\ e \in Entries
      BY ConstantsOK DEF InUse, IInv, GlobalType, Range
    <3>2. ent[e].key \in Keys
      BY <3>1, ConstantsOK, Zenon DEF IInv, ReachableOK
    <3>3. Picks(t, "evict", [l EXCEPT !.vk = ent[e].key])
      BY <1>1, <2>3, <3>2, Zenon DEF Picks, LocType
    <3> QED BY <1>1, <3>3, PicksJumps, Zenon
  <2>4. Jumps(t)
    BY <2>2, <2>3, ReturnJumps, Zenon
  <2> QED BY <1>2, <2>4, StillStep, Zenon DEF PickFromList
<1>3. CASE PickStart(t)
  <2>0. Shards \subseteq Nat /\ 0 \in Nat
    BY ConstantsOK DEF Shards
  <2>1. PICK start \in Nat : Goto(t, "scan", [l EXCEPT !.at = start, !.scan = 0, !.vk = Nil])
    BY <1>3, <2>0, Zenon DEF PickStart
  <2>2. Picks(t, "scan", [l EXCEPT !.at = start, !.scan = 0, !.vk = Nil])
    BY <1>1, <2>1, Zenon DEF Picks, LocType
  <2>3. Jumps(t)
    BY <1>1, <2>2, PicksJumps, Zenon
  <2> QED BY <1>3, <2>3, StillStep, Zenon DEF PickStart
<1> QED BY <1>2, <1>3, Zenon

\* pickGlobalRandom and pickGlobalLFU keep the invariant.
LEMMA PickScanStep ==
  ASSUME IInv, NEW t \in Threads, PickScan(t)
  PROVE  IInv'
<1> DEFINE l == loc[t]
           s == (l.at + l.scan) % ShardCount
           C == {ent[e].key : e \in pickLocalVictim(s, l.key)}
<1>1. l \in LocType /\ pc[t] = "scan"
  BY ClientFacts, Zenon DEF PickScan
<1>2. l.vk \in Keys \cup {Nil} /\ l.at \in Nat /\ l.scan \in Nat /\ l.scan + 1 \in Nat
  BY <1>1 DEF LocType
<1>3. s \in Shards
  BY <1>2, ConstantsOK DEF Shards
<1>4. C \subseteq Keys
  BY <1>3, VictimStored
<1>5. PICK v \in C \cup {l.vk} :
        \/ Goto(t, "scan", [l EXCEPT !.vk = v, !.scan = @ + 1])
        \/ Return(t)
        \/ v # Nil /\ Goto(t, "evict", [l EXCEPT !.vk = v, !.at = 0, !.scan = 0])
  BY Zenon DEF PickScan
<1>6. v \in Keys \cup {Nil}
  BY <1>2, <1>4, Zenon
<1>7. Jumps(t)
  <2>1. CASE Return(t)
    BY <2>1, ReturnJumps, Zenon
  <2>2. CASE Goto(t, "scan", [l EXCEPT !.vk = v, !.scan = @ + 1])
    <3>1. Picks(t, "scan", [l EXCEPT !.vk = v, !.scan = @ + 1])
      BY <1>1, <1>2, <1>6, <2>2, Zenon DEF Picks, LocType
    <3> QED BY <1>1, <3>1, PicksJumps, Zenon
  <2>3. CASE v # Nil /\ Goto(t, "evict", [l EXCEPT !.vk = v, !.at = 0, !.scan = 0])
    <3>1. Picks(t, "evict", [l EXCEPT !.vk = v, !.at = 0, !.scan = 0])
      BY <1>1, <1>6, <2>3, Zenon DEF Picks, LocType
    <3> QED BY <1>1, <3>1, PicksJumps, Zenon
  <2> QED BY <1>5, <2>1, <2>2, <2>3, Zenon
<1> QED BY <1>7, StillStep, Zenon DEF PickScan

\* pickGlobalTTL's peek at the expiry heap keeps the invariant.
LEMMA PickTTLStep ==
  ASSUME IInv, NEW t \in Threads, PickTTL(t)
  PROVE  IInv'
<1> DEFINE l == loc[t]
<1>1. l \in LocType /\ pc[t] = "pick"
  BY ClientFacts, Zenon DEF PickTTL
<1>2. \/ Return(t)
      \/ Goto(t, "ttlskip", [l EXCEPT !.scan = 0])
      \/ \E k \in Keys : Goto(t, "ttlval", [l EXCEPT !.vk = k, !.at = expH[k]])
  BY Zenon DEF PickTTL, HeapTop
<1>3. Jumps(t)
  <2>1. CASE Return(t)
    BY <2>1, ReturnJumps, Zenon
  <2>2. CASE Goto(t, "ttlskip", [l EXCEPT !.scan = 0])
    <3>1. Picks(t, "ttlskip", [l EXCEPT !.scan = 0])
      BY <1>1, <2>2, Zenon DEF Picks, LocType
    <3> QED BY <1>1, <3>1, PicksJumps, Zenon
  <2>3. ASSUME NEW k \in Keys, Goto(t, "ttlval", [l EXCEPT !.vk = k, !.at = expH[k]])
        PROVE  Jumps(t)
    <3>1. expH[k] \in Nat
      BY Zenon DEF IInv, GlobalType
    <3>2. Picks(t, "ttlval", [l EXCEPT !.vk = k, !.at = expH[k]])
      BY <1>1, <2>3, <3>1, Zenon DEF Picks, LocType
    <3> QED BY <1>1, <3>2, PicksJumps, Zenon
  <2> QED BY <1>2, <2>1, <2>2, <2>3, Zenon
<1> QED BY <1>3, StillStep, Zenon DEF PickTTL

\* pickGlobalTTL's fallback to the heaps of the shards keeps the invariant.
LEMMA PickTTLSkipStep ==
  ASSUME IInv, NEW t \in Threads, PickTTLSkip(t)
  PROVE  IInv'
<1> DEFINE l == loc[t]
           s == IF l.scan = 0 THEN Shard(t) ELSE l.scan - 1
<1>1. l \in LocType /\ pc[t] = "ttlskip" /\ LocOK("ttlskip", l) /\ l.scan \in Nat
  BY ClientFacts, Zenon DEF PickTTLSkip, LocType
<1>2. l.key \in Keys /\ Shard(t) \in Shards
  BY <1>1, ConstantsOK, Zenon DEF LocOK, Resumes, SetLabels, KeyOps, Shard
<1>3. ASSUME ~ (l.scan > ShardCount), NEW e \in ttlPick(s, l.key) PROVE ent[e].key \in Keys
  <2>1. s \in Shards
    BY <1>1, <1>2, <1>3, ConstantsOK DEF Shards
  <2>2. e \in Range(lru[s]) \cup Range(fifo[s]) \cup ShardEntries(s)
    BY Zenon DEF ttlPick
  <2>3. ShardOK
    BY Zenon DEF IInv
  <2> QED BY <2>1, <2>2, <2>3, ListedEntry
<1>4. \/ Return(t)
      \/ Goto(t, "ttlskip", [l EXCEPT !.scan = @ + 1])
      \/ \E v \in Keys : Goto(t, "evict", [l EXCEPT !.vk = v, !.scan = 0])
  BY <1>3, Zenon DEF PickTTLSkip
<1>5. Jumps(t)
  <2>1. CASE Return(t)
    BY <2>1, ReturnJumps, Zenon
  <2>2. CASE Goto(t, "ttlskip", [l EXCEPT !.scan = @ + 1])
    <3>1. Picks(t, "ttlskip", [l EXCEPT !.scan = @ + 1])
      BY <1>1, <2>2 DEF Picks, LocType
    <3> QED BY <1>1, <3>1, PicksJumps, Zenon
  <2>3. ASSUME NEW v \in Keys, Goto(t, "evict", [l EXCEPT !.vk = v, !.scan = 0])
        PROVE  Jumps(t)
    <3>1. Picks(t, "evict", [l EXCEPT !.vk = v, !.scan = 0])
      BY <1>1, <2>3, Zenon DEF Picks, LocType
    <3> QED BY <1>1, <3>1, PicksJumps, Zenon
  <2> QED BY <1>4, <2>1, <2>2, <2>3, Zenon
<1> QED BY <1>5, StillStep, Zenon DEF PickTTLSkip

\* pickGlobalTTL's validation of the heap top keeps the invariant.
LEMMA PickTTLValidateStep ==
  ASSUME IInv, NEW t \in Threads, PickTTLValidate(t)
  PROVE  IInv'
<1> DEFINE l == loc[t]
           e == data[l.vk]
<1>1. l \in LocType /\ pc[t] = "ttlval" /\ LocOK("ttlval", l)
  BY ClientFacts, Zenon DEF PickTTLValidate
<1>2. l.vk \in Keys /\ l.op = "set" /\ l.key \in Keys /\ l.size \in 1 .. MaxSize
  BY <1>1, Zenon DEF LocOK, Resumes, SetLabels, KeyOps
<1>3. \/ Goto(t, "clear", [l EXCEPT !.at = 0, !.then = "pick"])
      \/ e # Nil /\ Goto(t, "ttlnote", [l EXCEPT !.at = ent[e].exp, !.ent = e])
      \/ Goto(t, "evict", [l EXCEPT !.at = 0])
  BY Zenon DEF PickTTLValidate
<1>4. Jumps(t)
  <2>1. CASE Goto(t, "clear", [l EXCEPT !.at = 0, !.then = "pick"])
    <3> DEFINE m == [l EXCEPT !.at = 0, !.then = "pick"]
    <3>1. "clear" \in Labels /\ "pick" \in Labels
      BY Zenon DEF Labels
    <3>2. m \in LocType /\ m.ent = l.ent
      BY <1>1, <3>1, Zenon DEF LocType
    <3>3. LocOK("clear", m)
      BY <1>1, <1>2, Zenon DEF LocOK, Resumes, LocType
    <3> QED BY <2>1, <3>1, <3>2, <3>3, JumpsOn, Zenon
  <2>2. CASE e # Nil /\ Goto(t, "ttlnote", [l EXCEPT !.at = ent[e].exp, !.ent = e])
    <3> DEFINE m == [l EXCEPT !.at = ent[e].exp, !.ent = e]
    <3>1. e \in Entries /\ e \in InUse /\ ent[e].exp \in Nat
      BY <1>2, <2>2, StoredEntry, Zenon
    <3>2. m \in LocType /\ m.ent = e
      BY <1>1, <3>1, Zenon DEF LocType
    <3>3. LocOK("ttlnote", m)
      BY <1>1, <1>2, <3>1, Zenon DEF LocOK, Resumes, SetLabels, LocType
    <3>4. "ttlnote" \in Labels
      BY Zenon DEF Labels
    <3> QED BY <2>2, <3>1, <3>2, <3>3, <3>4, Zenon DEF Jumps
  <2>3. CASE Goto(t, "evict", [l EXCEPT !.at = 0])
    <3>1. Picks(t, "evict", [l EXCEPT !.at = 0])
      BY <1>1, <1>2, <2>3, Zenon DEF Picks, LocType
    <3> QED BY <1>1, <3>1, PicksJumps, Zenon
  <2> QED BY <1>3, <2>1, <2>2, <2>3, Zenon
<1> QED BY <1>4, StillStep, Zenon DEF PickTTLValidate

\* Only the deadline of one heap item changes.
LEMMA HeapStep ==
  ASSUME IInv, NEW t \in Threads, Jumps(t), NEW k \in Keys, NEW d \in Nat,
         expH' = [expH EXCEPT ![k] = d],
         UNCHANGED <<shardVars, used, globalVars, mu, strategy, policy, clock, left>>
  PROVE  IInv'
<1>1. GlobalType'
  BY Zenon DEF IInv, GlobalType, globalVars
<1> QED BY <1>1, QuietStep, Zenon

\* pickGlobalTTL's repair of the heap top keeps the invariant.
LEMMA PickTTLNoteStep ==
  ASSUME IInv, NEW t \in Threads, PickTTLNote(t)
  PROVE  IInv'
<1> DEFINE l == loc[t]
           m == [l EXCEPT !.at = 0, !.ent = Nil, !.vk = Nil]
<1>1. l \in LocType /\ pc[t] = "ttlnote" /\ l.vk \in Keys /\ l.ent \in Entries /\ l.at \in Nat
  BY ClientFacts, Zenon DEF PickTTLNote, LocOK, LocType
<1>2. Picks(t, "pick", m)
  BY <1>1, Zenon DEF PickTTLNote, Picks, LocType
<1>3. Jumps(t)
  BY <1>1, <1>2, PicksJumps, Zenon
<1>4. ent[l.ent].exp \in Nat
  BY <1>1, Zenon DEF IInv, ShardOK, ShardType
<1> QED BY <1>1, <1>3, <1>4, HeapStep, Zenon DEF PickTTLNote

\* noteExpiry keeps the invariant.
LEMMA NoteStep ==
  ASSUME IInv, NEW t \in Threads, noteExpiry(t)
  PROVE  IInv'
<1>1. loc[t].key \in Keys /\ loc[t].exp \in Nat
  BY ClientFacts, Zenon DEF noteExpiry, LocOK, Resumes, KeyOps, LocType
<1> QED BY <1>1, ReturnJumps, HeapStep, Zenon DEF noteExpiry

\* Only the global lists change, to lists of objects in use.
LEMMA ListStep ==
  ASSUME IInv, NEW t \in Threads, Jumps(t),
         gLru' \in Seq(Entries), gFifo' \in Seq(Entries),
         Range(gLru') \subseteq InUse, Range(gFifo') \subseteq InUse,
         UNCHANGED <<shardVars, used, expH, mu, strategy, policy, clock, left>>
  PROVE  IInv'
<1>1. GlobalType'
  BY Zenon DEF IInv, GlobalType
<1>2. ShardOK'
  BY ShardSame, Zenon DEF IInv
<1>3. data' = data /\ \A x \in InUse : x # Nil => ent'[x].key \in Keys
  BY Zenon DEF IInv, ReachableOK, shardVars
<1> QED BY <1>1, <1>2, <1>3, KeepsMapStep, Zenon

\* Both lists hold objects in use.
LEMMA ListsInUse ==
  ASSUME IInv
  PROVE  /\ gLru \in Seq(Entries) /\ Range(gLru) \subseteq InUse
         /\ gFifo \in Seq(Entries) /\ Range(gFifo) \subseteq InUse
BY Zenon DEF IInv, GlobalType, InUse

\* evictOneGlobal's removal of a stale node keeps the invariant.
LEMMA EvictStaleStep ==
  ASSUME Facts, IInv, NEW t \in Threads, EvictStale(t)
  PROVE  IInv'
<1> DEFINE l == loc[t]
           I == {i \in 1 .. Len(gLru) : ent[gLru[i]].key = l.vk}
<1>1. l \in LocType /\ pc[t] = "stale"
  BY ClientFacts, Zenon DEF EvictStale
<1>2. Picks(t, "gspace", [l EXCEPT !.vk = Nil])
  BY <1>1, Zenon DEF EvictStale, Picks, LocType
<1>3. Jumps(t)
  BY <1>1, <1>2, PicksJumps, Zenon
<1>4. Len(gLru) \in Nat
  BY ListsInUse
<1>5. gLru' \in Seq(Entries) /\ Range(gLru') \subseteq InUse
  <2>1. CASE I = {}
    <3>1. gLru' = gLru
      BY <2>1, Zenon DEF EvictStale, RemoveFirstMatch
    <3> QED BY <3>1, ListsInUse, Zenon
  <2>2. CASE I # {}
    <3>1. Min(I) \in 1 .. Len(gLru)
      <4>1. I \in SUBSET Nat /\ I # {}
        BY <1>4, <2>2
      <4> QED BY <4>1, Zenon DEF Facts, MinFact
    <3>2. gLru' = RemoveAt(gLru, Min(I))
      BY <2>2, Zenon DEF EvictStale, RemoveFirstMatch
    <3>3. RemoveAt(gLru, Min(I)) \in Seq(Entries) /\ Range(RemoveAt(gLru, Min(I))) \subseteq Range(gLru)
      BY <3>1, ListsInUse, Zenon DEF Facts, RemoveAtFact
    <3> QED BY <3>2, <3>3, ListsInUse, Zenon
  <2> QED BY <2>1, <2>2, Zenon
<1>6. gFifo' = gFifo /\ UNCHANGED <<shardVars, used, expH, mu, strategy, policy, clock, left>>
  BY Zenon DEF EvictStale
<1> QED BY <1>3, <1>5, <1>6, ListsInUse, ListStep, Zenon

\* Linking and touching in the tenant-wide lists keep the invariant.
LEMMA GlobalLinkStep ==
  ASSUME Facts, IInv, NEW t \in Threads, GlobalPush(t) \/ GlobalTouch(t)
  PROVE  IInv'
<1> DEFINE l == loc[t]
           e == l.ent
           m == [l EXCEPT !.ent = Nil]
<1>1. /\ l \in LocType /\ LocOK(pc[t], l) /\ pc[t] \in {"push", "touch"} /\ e \in Entries
      /\ e \in InUse
  BY ClientFacts, ConstantsOK, Zenon DEF GlobalPush, GlobalTouch, LocOK
<1>2. Return(t) \/ (l.op = "set" /\ Goto(t, "note", m))
  <2>1. CASE GlobalPush(t)
    BY <1>1, <2>1, Zenon DEF GlobalPush, LocOK, Resumes, SetLabels
  <2>2. CASE GlobalTouch(t)
    BY <1>1, <2>2, Zenon DEF GlobalTouch, LocOK
  <2> QED BY <2>1, <2>2, Zenon
<1>3. Jumps(t)
  <2>1. CASE Return(t)
    BY <2>1, ReturnJumps, Zenon
  <2>2. CASE l.op = "set" /\ Goto(t, "note", m)
    <3>1. m \in LocType /\ m.ent = Nil
      BY <1>1, Zenon DEF LocType
    <3>2. LocOK("note", m)
      BY <1>1, <2>2, Zenon DEF LocOK, Resumes, SetLabels, LocType
    <3>3. "note" \in Labels
      BY Zenon DEF Labels
    <3> QED BY <2>2, <3>1, <3>2, <3>3, JumpsOn, Zenon
  <2> QED BY <1>2, <2>1, <2>2, Zenon
<1>4. \A seq \in Seq(Entries) : Range(seq) \subseteq InUse =>
         /\ Append(seq, e) \in Seq(Entries) /\ Range(Append(seq, e)) \subseteq InUse
         /\ Touched(seq, e) \in Seq(Entries) /\ Range(Touched(seq, e)) \subseteq InUse
  <2> SUFFICES ASSUME NEW seq \in Seq(Entries), Range(seq) \subseteq InUse
               PROVE  /\ Append(seq, e) \in Seq(Entries) /\ Range(Append(seq, e)) \subseteq InUse
                      /\ Touched(seq, e) \in Seq(Entries) /\ Range(Touched(seq, e)) \subseteq InUse
    BY Zenon
  <2>1. Append(seq, e) \in Seq(Entries) /\ Range(Append(seq, e)) = Range(seq) \cup {e}
    BY <1>1, Zenon DEF Facts, AppendFact
  <2>2. RemoveFirst(seq, e) \in Seq(Entries) /\ Range(RemoveFirst(seq, e)) \subseteq Range(seq)
    BY Zenon DEF Facts, RemoveFirstFact
  <2>3. /\ Append(RemoveFirst(seq, e), e) \in Seq(Entries)
        /\ Range(Append(RemoveFirst(seq, e), e)) = Range(RemoveFirst(seq, e)) \cup {e}
    BY <1>1, <2>2, Zenon DEF Facts, AppendFact
  <2> QED BY <1>1, <2>1, <2>2, <2>3, Zenon DEF Touched
<1>5. /\ gLru' \in {gLru, Append(gLru, e), Touched(gLru, e)}
      /\ gFifo' \in {gFifo, Append(gFifo, e)}
      /\ UNCHANGED <<shardVars, used, expH, mu, strategy, policy, clock, left>>
  BY Zenon DEF GlobalPush, GlobalTouch
<1>6. /\ gLru' \in Seq(Entries) /\ Range(gLru') \subseteq InUse
      /\ gFifo' \in Seq(Entries) /\ Range(gFifo') \subseteq InUse
  BY <1>4, <1>5, ListsInUse, Zenon
<1> QED BY <1>3, <1>5, <1>6, ListStep, Zenon

\* FlushDB's collection of keys, and its end, keep the invariant.
LEMMA FlushScanStep ==
  ASSUME IInv, NEW t \in Threads, FlushScan(t) \/ FlushEnd(t)
  PROVE  IInv'
<1> DEFINE l == loc[t]
           m == [l EXCEPT !.scan = @ + 1,
                          !.todo = @ \cup {k \in ShardKeys(l.scan) : data[k] # Nil}]
<1>1. l \in LocType /\ LocOK(pc[t], l) /\ pc[t] \in {"f_scan", "f_del"}
  BY ClientFacts, Zenon DEF FlushScan, FlushEnd
<1>2. m \in LocType /\ m.ent = l.ent
  <2> DEFINE n == l.scan + 1
             ks == l.todo \cup {k \in ShardKeys(l.scan) : data[k] # Nil}
  <2>1. l.scan \in Nat /\ l.todo \subseteq Keys
    BY <1>1, Zenon DEF LocType
  <2>2. n \in Nat /\ ks \in SUBSET Keys
    BY <2>1 DEF ShardKeys
  <2>3. m = [l EXCEPT !.scan = n, !.todo = ks]
    BY <1>1, Zenon DEF LocType
  <2> HIDE DEF n, ks, m
  <2> QED BY <1>1, <2>2, <2>3, Zenon DEF LocType
<1>3. \A b \in {"f_scan", "f_del"} : LocOK(b, m) /\ b \in Labels
  <2> TAKE b \in {"f_scan", "f_del"}
  <2>1. LocOK(b, m)
    BY <1>1, Zenon DEF LocOK, Resumes, SetLabels, LocType
  <2>2. b \in Labels
    BY Zenon DEF Labels
  <2> QED BY <2>1, <2>2, Zenon
<1>4. Return(t) \/ \E b \in {"f_scan", "f_del"} : Goto(t, b, m)
  BY Zenon DEF FlushScan, FlushEnd
<1>5. Jumps(t)
  BY <1>2, <1>3, <1>4, ReturnJumps, JumpsOn, Zenon
<1> QED BY <1>5, StillStep, Zenon DEF FlushScan, FlushEnd

\* The expiry worker's look at the heap keeps the invariant.
LEMMA WorkerPeekStep ==
  ASSUME IInv, WorkerTick \/ WorkerPeek
  PROVE  IInv'
<1> DEFINE l == loc[Worker]
           w == [NoLoc EXCEPT !.op = "expire_due", !.now = clock]
<1>0. Worker \in Threads /\ l \in LocType /\ LocOK(pc[Worker], l)
  BY ClientFacts, StoreAssumption, Zenon DEF Threads
<1>1. CASE WorkerTick
  <2>1. w \in LocType /\ w.ent = Nil
    BY NoLocOK, Zenon DEF LocType, NoLoc, IInv, GlobalType
  <2>2. LocOK("w_peek", w)
    BY Zenon DEF LocOK, Resumes, NoLoc, KeyOps, SetLabels
  <2>3. Goto(Worker, "w_peek", w) /\ "w_peek" \in Labels
    BY <1>1, Zenon DEF WorkerTick, Labels
  <2>4. Jumps(Worker)
    BY <2>1, <2>2, <2>3, Zenon DEF Jumps
  <2> QED BY <1>0, <1>1, <2>4, StillStep, Zenon DEF WorkerTick
<1>2. CASE WorkerPeek
  <2>1. Return(Worker) \/ \E k \in Keys : Goto(Worker, "w_del", [l EXCEPT !.key = k, !.at = expH[k]])
    BY <1>2, Zenon DEF WorkerPeek, DueTop, HeapTop
  <2>2. ASSUME NEW k \in Keys, Goto(Worker, "w_del", [l EXCEPT !.key = k, !.at = expH[k]])
        PROVE  Jumps(Worker)
    <3> DEFINE m == [l EXCEPT !.key = k, !.at = expH[k]]
    <3>1. expH[k] \in Nat
      BY Zenon DEF IInv, GlobalType
    <3>2. m \in LocType /\ m.ent = l.ent
      BY <1>0, <3>1, Zenon DEF LocType
    <3>3. pc[Worker] = "w_peek"
      BY <1>2, Zenon DEF WorkerPeek
    <3>4. LocOK("w_del", m)
      BY <1>0, <3>3, Zenon DEF LocOK, Resumes, SetLabels, LocType
    <3>5. "w_del" \in Labels
      BY Zenon DEF Labels
    <3> QED BY <1>0, <2>2, <3>2, <3>4, <3>5, JumpsOn, Zenon
  <2>3. Jumps(Worker)
    BY <2>1, <2>2, ReturnJumps, Zenon
  <2> QED BY <1>0, <1>2, <2>3, StillStep, Zenon DEF WorkerPeek
<1> QED BY <1>1, <1>2, Zenon

\* deleteIfExpired keeps the invariant.
LEMMA WorkerDeleteStep ==
  ASSUME Facts, IInv, deleteIfExpired
  PROVE  IInv'
<1> DEFINE l == loc[Worker]
           m == [l EXCEPT !.at = 0]
<1>1. /\ Worker \in Threads /\ l \in LocType /\ LocOK("w_del", l)
      /\ pc[Worker] = "w_del" /\ l.key \in Keys
  BY ClientFacts, StoreAssumption, Zenon DEF Threads, deleteIfExpired, LocOK, Resumes
<1>2. CASE Found(Worker) /\ ~ Live(Worker)
  <2>1. removeFromShard(Worker, data[l.key], m, "w_peek")
    BY <1>2, Zenon DEF deleteIfExpired
  <2>2. m \in LocType /\ m.ent = l.ent
    BY <1>1, Zenon DEF LocType
  <2>3. LocOK("w_del", m)
    BY <1>1, Zenon DEF LocOK, Resumes, SetLabels, LocType
  <2>4. data[l.key] # Nil /\ "w_peek" \notin SetLabels /\ m.op = "expire_due"
    BY <1>1, <1>2, Zenon DEF Found, SetLabels, LocOK, Resumes, LocType
  <2> HIDE DEF m
  <2> QED BY <1>1, <2>1, <2>2, <2>3, <2>4, DropStep, Zenon
<1>3. CASE ~ (Found(Worker) /\ ~ Live(Worker))
  <2>1. Goto(Worker, "w_drop", l)
    BY <1>3, Zenon DEF deleteIfExpired
  <2>2. LocOK("w_drop", l)
    BY <1>1, Zenon DEF LocOK, Resumes, SetLabels
  <2>3. "w_drop" \in Labels
    BY Zenon DEF Labels
  <2>4. Jumps(Worker)
    BY <1>1, <2>1, <2>2, <2>3, JumpsOn, Zenon
  <2> QED BY <1>1, <1>3, <2>4, StillStep, Zenon DEF deleteIfExpired
<1> QED BY <1>2, <1>3, Zenon

\* The expiry worker's removal of a heap item keeps the invariant.
LEMMA WorkerDropStep ==
  ASSUME IInv, WorkerDrop
  PROVE  IInv'
<1> DEFINE l == loc[Worker]
           m == [l EXCEPT !.key = Nil, !.at = 0]
<1>1. /\ Worker \in Threads /\ l \in LocType /\ LocOK("w_drop", l)
      /\ l.key \in Keys
  BY ClientFacts, StoreAssumption, Zenon DEF Threads, WorkerDrop, LocOK, Resumes
<1>2. m \in LocType /\ m.ent = l.ent
  BY <1>1, Zenon DEF LocType
<1>3. l.op \notin KeyOps
  BY <1>1, Zenon DEF LocOK, Resumes, KeyOps
<1>4. LocOK("w_peek", m)
  BY <1>1, <1>3, Zenon DEF LocOK, Resumes, SetLabels, LocType
<1>5. Goto(Worker, "w_peek", m) /\ "w_peek" \in Labels
  BY Zenon DEF WorkerDrop, Labels
<1>6. Jumps(Worker)
  BY <1>1, <1>2, <1>4, <1>5, JumpsOn, Zenon
<1>7. CASE expH[l.key] = l.at
  BY <1>1, <1>6, <1>7, HeapStep, Zenon DEF WorkerDrop
<1>8. CASE expH[l.key] # l.at
  BY <1>1, <1>6, <1>8, StillStep, Zenon DEF WorkerDrop
<1> QED BY <1>7, <1>8, Zenon

----------------------------------------------------------------------------
(* The steps that write, the change of the strategy, and the induction *)

\* Get's touch of the recency list keeps the invariant.
LEMMA GetStep ==
  ASSUME Facts, IInv, NEW t \in Threads, Get(t)
  PROVE  IInv'
<1> DEFINE l == loc[t]
           k == l.key
           e == data[k]
           m == [l EXCEPT !.ent = e]
<1>1. l \in LocType /\ LocOK("lock", l) /\ l.op = "get" /\ k \in Keys /\ e # Nil
  BY ClientFacts, Zenon DEF Get, AtLock, Live, Found, LocOK, KeyOps
<1>2. e \in Entries /\ e \in InUse /\ ent[e].key = k /\ ent[e].size \in 1 .. MaxSize
  BY <1>1, StoredEntry, Zenon
<1>3. ShardOK'
  <2>1. /\ ent \in [Entries -> [key : Keys \cup {Nil}, size : Nat, exp : Nat]]
        /\ used \in Nat /\ shUsed \in [Shards -> Nat]
    BY Zenon DEF IInv, ShardOK, ShardType
  <2>2. SizeOf(k) = ent[e].size /\ SizeOf(k) \in Nat
    BY <1>1, <1>2 DEF SizeOf
  <2>3. used = used - SizeOf(k) + SizeOf(k)
    BY <2>1, <2>2
  <2>4. shUsed = [shUsed EXCEPT ![ShardOf[k]] = @ - SizeOf(k) + SizeOf(k)]
    BY <1>1, <2>1, <2>2, ShardCountSame, Zenon
  <2>5. lru' = [lru EXCEPT ![ShardOf[k]] = Touched(@, data[k])]
    BY Zenon DEF Get, Shard
  <2>6. used' = used /\ shUsed' = shUsed /\ ent' = ent /\ UNCHANGED <<data, fifo>> /\ ShardOK
    BY Zenon DEF Get, IInv
  <2> QED BY <1>1, <1>2, <2>1, <2>2, <2>3, <2>4, <2>5, <2>6, UpdatedOK, Zenon
<1>4. Jumps(t)
  <2>1. CASE Return(t)
    BY <2>1, ReturnJumps, Zenon
  <2>2. CASE Goto(t, "touch", m)
    <3>1. m \in LocType /\ m.ent = e
      BY <1>1, <1>2, Zenon DEF LocType
    <3>2. LocOK("touch", m)
      BY <1>1, <1>2, Zenon DEF LocOK, Resumes, SetLabels, LocType
    <3>3. "touch" \in Labels
      BY Zenon DEF Labels
    <3> QED BY <1>2, <2>2, <3>1, <3>2, <3>3, Zenon DEF Jumps
  <2> QED BY <2>1, <2>2, Zenon DEF Get
<1>5. GlobalType' /\ Range(gLru') \subseteq InUse /\ Range(gFifo') \subseteq InUse
  BY Zenon DEF Get, globalVars, IInv, GlobalType, InUse
<1>6. data' = data /\ \A x \in InUse : x # Nil => ent'[x].key \in Keys
  BY Zenon DEF IInv, ReachableOK, Get
<1> QED BY <1>3, <1>4, <1>5, <1>6, KeepsMapStep, Zenon

\* EXPIRE and PERSIST of a live key: only its deadline changes.
LEMMA DeadlineStep ==
  ASSUME Facts, IInv, NEW t \in Threads, setExpireAt(t) \/ Persist(t)
  PROVE  IInv'
<1> DEFINE l == loc[t]
           k == l.key
           e == data[k]
           m == [l EXCEPT !.vk = k]
<1>1. /\ l \in LocType /\ LocOK("lock", l) /\ l.op \in {"expire", "persist"} /\ k \in Keys /\ e # Nil
      /\ setExpireAt(t) => l.op = "expire"
  BY ClientFacts, Zenon DEF setExpireAt, Persist, AtLock, Live, Found, LocOK, KeyOps
<1>2. e \in Entries /\ e \in InUse /\ ent[e].key = k /\ ent[e].size \in 1 .. MaxSize
  BY <1>1, StoredEntry, Zenon
<1>3. PICK d \in Nat : ent' = [ent EXCEPT ![e].exp = d]
  <2>0. ent \in [Entries -> [key : Keys \cup {Nil}, size : Nat, exp : Nat]]
    BY Zenon DEF IInv, ShardOK, ShardType
  <2>1. l.exp \in Nat
    BY <1>1, Zenon DEF LocType
  <2>2. ent[e].exp \in Nat /\ ent = [ent EXCEPT ![e].exp = ent[e].exp]
    BY <1>2, <2>0, Zenon
  <2> QED BY <2>1, <2>2, Zenon DEF setExpireAt, Persist
<1>4. /\ ent' \in [Entries -> [key : Keys \cup {Nil}, size : Nat, exp : Nat]]
      /\ ent'[e].key = k /\ ent'[e].size = ent[e].size
      /\ \A x \in Entries \ {e} : ent'[x] = ent[x]
  BY <1>2, <1>3, Zenon DEF IInv, ShardOK, ShardType
<1>5. ShardOK'
  <2>1. used \in Nat /\ shUsed \in [Shards -> Nat]
    BY Zenon DEF IInv, ShardOK, ShardType
  <2>2. SizeOf(k) = ent[e].size /\ SizeOf(k) \in Nat
    BY <1>1, <1>2 DEF SizeOf
  <2>3. used = used - SizeOf(k) + SizeOf(k)
    BY <2>1, <2>2
  <2>4. shUsed = [shUsed EXCEPT ![ShardOf[k]] = @ - SizeOf(k) + SizeOf(k)]
    BY <1>1, <2>1, <2>2, ShardCountSame, Zenon
  <2>6. used' = used /\ shUsed' = shUsed /\ UNCHANGED <<data, fifo, lru>> /\ ShardOK
    BY Zenon DEF setExpireAt, Persist, IInv
  <2> QED BY <1>1, <1>2, <1>4, <2>2, <2>3, <2>4, <2>6, UpdatedOK, Zenon
<1>6. Jumps(t)
  <2>1. CASE setExpireAt(t)
    <3>1. Goto(t, "note", l) /\ LocOK("note", l)
      BY <1>1, <2>1, Zenon DEF setExpireAt, LocOK, Resumes, SetLabels
    <3>2. "note" \in Labels
      BY Zenon DEF Labels
    <3> QED BY <1>1, <3>1, <3>2, JumpsOn, Zenon
  <2>2. CASE Return(t)
    BY <2>2, ReturnJumps, Zenon
  <2>3. CASE Goto(t, "clear", m)
    <3>1. m \in LocType /\ m.ent = l.ent
      BY <1>1, Zenon DEF LocType
    <3>2. l.then = "idle"
      BY <1>1, Zenon DEF LocOK
    <3>3. LocOK("clear", m)
      BY <1>1, <3>2, Zenon DEF LocOK, Resumes, SetLabels, LocType
    <3>4. "clear" \in Labels
      BY Zenon DEF Labels
    <3> QED BY <2>3, <3>1, <3>3, <3>4, JumpsOn, Zenon
  <2> QED BY <2>1, <2>2, <2>3, Zenon DEF Persist
<1>7. GlobalType' /\ Range(gLru') \subseteq InUse /\ Range(gFifo') \subseteq InUse
  BY Zenon DEF setExpireAt, Persist, globalVars, IInv, GlobalType, InUse
<1>8. data' = data /\ \A x \in InUse : x # Nil => ent'[x].key \in Keys
  <2>1. ASSUME NEW x \in InUse, x # Nil PROVE ent'[x].key \in Keys
    <3>1. x \in Entries /\ ent[x].key \in Keys
      BY <2>1, InUseEntries, Zenon DEF IInv, ReachableOK
    <3> QED BY <1>1, <1>4, <3>1, Zenon
  <2> QED BY <2>1, Zenon DEF setExpireAt, Persist
<1> QED BY <1>5, <1>6, <1>7, <1>8, KeepsMapStep, Zenon

\* Set of a present key charges the difference of the sizes and keeps the invariant.
LEMMA WriteUpdateStep ==
  ASSUME Facts, IInv, NEW t \in Threads, WriteUpdate(t)
  PROVE  IInv'
<1> DEFINE l == loc[t]
           k == l.key
           e == data[k]
           n == l.size
           exp == IF l.mode = "keep" THEN ent[e].exp ELSE l.exp
<1>1. /\ l \in LocType /\ LocOK("write", l) /\ pc[t] = "write" /\ l.op = "set"
      /\ k \in Keys /\ e # Nil /\ n \in 1 .. MaxSize
  BY ClientFacts, Zenon DEF WriteUpdate, AtWrite, Found, LocOK, Resumes, SetLabels, KeyOps
<1>2. /\ e \in Entries /\ e \in InUse /\ ent[e].key = k /\ ent[e].size \in 1 .. MaxSize
      /\ ent[e].exp \in Nat
  BY <1>1, StoredEntry, Zenon
<1>3. exp \in Nat /\ n \in Nat /\ ent[e].size \in Nat /\ ShardOf[k] \in Shards
  <2>1. l.exp \in Nat /\ n \in Nat
    BY <1>1, Zenon DEF LocType
  <2>2. ShardOf[k] \in Shards
    BY <1>1, StoreAssumption, Zenon
  <2>3. exp \in Nat
    BY <1>2, <2>1, Zenon
  <2>4. MaxSize \in Nat
    BY ConstantsOK, Zenon
  <2>5. ent[e].size \in Nat
    BY <1>2, <2>4
  <2> QED BY <2>1, <2>2, <2>3, <2>5, Zenon
<1> HIDE DEF exp
<1>4. /\ ent' \in [Entries -> [key : Keys \cup {Nil}, size : Nat, exp : Nat]]
      /\ ent'[e].key = k /\ ent'[e].size = n
      /\ \A x \in Entries \ {e} : ent'[x] = ent[x]
  <2>1. ent' = [ent EXCEPT ![e] = [key |-> k, size |-> n, exp |-> exp]]
    BY Zenon DEF WriteUpdate, exp
  <2> QED BY <1>1, <1>2, <1>3, <2>1, Zenon DEF IInv, ShardOK, ShardType
<1>5. ShardOK'
  <2>1. used \in Nat /\ shUsed \in [Shards -> Nat] /\ ShardOK
    BY Zenon DEF IInv, ShardOK, ShardType
  <2>2. SizeOf(k) = ent[e].size
    BY <1>1, Zenon DEF SizeOf
  <2>3. SizeOf(k) <= used
    BY <1>1, <2>1, ChargeIncluded, Zenon
  <2>4. used' = used - SizeOf(k) + n
    <3>1. used' = IF n >= ent[e].size THEN used + (n - ent[e].size)
                                      ELSE SatSub(used, ent[e].size - n)
      BY Zenon DEF WriteUpdate
    <3> HIDE DEF n
    <3>2. /\ n \in Nat /\ SizeOf(k) \in Nat /\ used \in Nat /\ SizeOf(k) <= used
          /\ used' = IF n >= SizeOf(k) THEN used + (n - SizeOf(k))
                                      ELSE SatSub(used, SizeOf(k) - n)
      BY <1>3, <2>1, <2>2, <2>3, <3>1, Zenon
    <3> QED BY <3>2 DEF SatSub
  <2>5. shUsed' = [shUsed EXCEPT ![ShardOf[k]] = @ - SizeOf(k) + n]
    BY <2>2, Zenon DEF WriteUpdate, Shard
  <2>6. lru' = [lru EXCEPT ![ShardOf[k]] = Touched(@, data[k])] /\ UNCHANGED <<data, fifo>>
    BY Zenon DEF WriteUpdate, Shard
  <2> HIDE DEF n, k
  <2> QED BY <1>1, <1>4, <2>1, <2>4, <2>5, <2>6, UpdatedOK, Zenon
<1>6. Jumps(t)
  <2> DEFINE m == [l EXCEPT !.ent = e, !.exp = exp]
             r == [l EXCEPT !.exp = exp]
  <2>1. CASE Goto(t, "touch", m)
    <3>1. m \in LocType /\ m.ent = e
      BY <1>1, <1>2, <1>3, Zenon DEF LocType
    <3>2. LocOK("touch", m)
      BY <1>1, <1>2, Zenon DEF LocOK, Resumes, SetLabels, LocType
    <3>3. "touch" \in Labels
      BY Zenon DEF Labels
    <3> QED BY <1>2, <2>1, <3>1, <3>2, <3>3, Zenon DEF Jumps
  <2>2. CASE Goto(t, "note", r)
    <3>1. r \in LocType /\ r.ent = l.ent
      BY <1>1, <1>3, Zenon DEF LocType
    <3>2. LocOK("note", r)
      BY <1>1, Zenon DEF LocOK, Resumes, SetLabels, LocType
    <3>3. "note" \in Labels
      BY Zenon DEF Labels
    <3> QED BY <2>2, <3>1, <3>2, <3>3, JumpsOn, Zenon
  <2> QED BY <2>1, <2>2, Zenon DEF WriteUpdate, exp
<1>7. GlobalType' /\ Range(gLru') \subseteq InUse /\ Range(gFifo') \subseteq InUse
  BY <1>3, Zenon DEF WriteUpdate, Holder, Shard, globalVars, IInv, GlobalType, InUse
<1>8. data' = data /\ \A x \in InUse : x # Nil => ent'[x].key \in Keys
  <2>1. ASSUME NEW x \in InUse, x # Nil PROVE ent'[x].key \in Keys
    <3>1. x \in Entries /\ ent[x].key \in Keys
      BY <2>1, InUseEntries, Zenon DEF IInv, ReachableOK
    <3> QED BY <1>1, <1>4, <3>1, Zenon
  <2> QED BY <2>1, Zenon DEF WriteUpdate
<1> QED BY <1>5, <1>6, <1>7, <1>8, KeepsMapStep, Zenon

\* Set of an absent key links a new object once and charges its size.
LEMMA WriteInsertStep ==
  ASSUME Facts, IInv, NEW t \in Threads, WriteInsert(t)
  PROVE  IInv'
<1> DEFINE l == loc[t]
           k == l.key
           n == l.size
           e == NewEntry
<1>1. /\ l \in LocType /\ LocOK("write", l) /\ pc[t] = "write" /\ l.op = "set"
      /\ k \in Keys /\ data[k] = Nil /\ n \in 1 .. MaxSize /\ ShardOf[k] \in Shards
  BY ClientFacts, ConstantsOK, Zenon DEF WriteInsert, AtWrite, Found, LocOK, Resumes, SetLabels, KeyOps
<1>2. e \in Entries /\ e \notin InUse
  BY Zenon DEF WriteInsert, NewEntry
<1> HIDE DEF e
<1>3. n \in Nat /\ l.exp \in Nat /\ e # Nil
  BY <1>1, <1>2, ConstantsOK, Zenon DEF LocType
<1>4. ent' = [x \in Entries |-> IF x = e THEN [key |-> k, size |-> n, exp |-> l.exp]
                                ELSE IF x \in InUse THEN ent[x] ELSE NoEntry]
  BY Zenon DEF WriteInsert, e
<1>5. /\ ent' \in [Entries -> [key : Keys \cup {Nil}, size : Nat, exp : Nat]]
      /\ ent'[e].key = k /\ ent'[e].size = n
      /\ \A x \in Entries \cap InUse : ent'[x] = ent[x]
  BY <1>1, <1>2, <1>3, <1>4, Zenon DEF IInv, ShardOK, ShardType, NoEntry
<1>6. ShardOK'
  <2>1. \A j \in Keys : data[j] \in InUse
    BY Zenon DEF InUse
  <2>2. \A j \in Keys : data[j] # e /\ (data[j] # Nil => ent'[data[j]] = ent[data[j]])
    BY <1>2, <1>5, <2>1, StoredEntry, Zenon
  <2>3. /\ data' = [data EXCEPT ![k] = e]
        /\ lru' = [lru EXCEPT ![ShardOf[k]] = Append(@, e)]
        /\ fifo' = [fifo EXCEPT ![ShardOf[k]] = Append(@, e)]
        /\ used' = used + n
        /\ shUsed' = [shUsed EXCEPT ![ShardOf[k]] = @ + n]
    BY Zenon DEF WriteInsert, Shard, e
  <2>4. ShardOK
    BY Zenon DEF IInv
  <2> QED BY <1>1, <1>2, <1>5, <2>2, <2>3, <2>4, InsertedOK, Zenon
<1>7. PICK a \in Labels, m \in LocType : Goto(t, a, m) /\ LocOK(a, m) /\ m.ent \in {e, l.ent}
  <2> DEFINE m == [l EXCEPT !.ent = e]
  <2>1. CASE Goto(t, "push", m)
    <3>1. m \in LocType /\ m.ent = e
      BY <1>1, <1>2 DEF LocType
    <3>2. LocOK("push", m)
      BY <1>1, <1>2, Zenon DEF LocOK, Resumes, SetLabels, LocType
    <3>3. "push" \in Labels
      BY Zenon DEF Labels
    <3> QED BY <2>1, <3>1, <3>2, <3>3, Zenon
  <2>2. CASE Goto(t, "note", l)
    <3>1. LocOK("note", l)
      BY <1>1, Zenon DEF LocOK, Resumes, SetLabels, LocType
    <3>2. "note" \in Labels
      BY Zenon DEF Labels
    <3> QED BY <1>1, <2>2, <3>1, <3>2, Zenon
  <2> QED BY <2>1, <2>2, Zenon DEF WriteInsert, e
<1>8. ThreadsOK'
  BY <1>7, GotoOK, Zenon DEF IInv
<1>9. GlobalType'
  BY <1>1, Zenon DEF WriteInsert, Holder, Shard, globalVars, IInv, GlobalType
<1>10. ReachableOK'
  <2>1. ASSUME NEW x \in InUse', x # Nil, x # e PROVE x \in InUse
    <3>1. CASE x \in {data'[j] : j \in Keys}
      <4>1. PICK j \in Keys : x = data'[j]
        BY <3>1, Zenon
      <4>2. data' = [data EXCEPT ![k] = e]
        BY Zenon DEF WriteInsert, e
      <4> QED BY <2>1, <4>1, <4>2, Zenon DEF InUse, IInv, ShardOK, ShardType
    <3>2. CASE x \in Range(gLru') \cup Range(gFifo')
      BY <3>2, Zenon DEF WriteInsert, globalVars, InUse
    <3>3. CASE x \in {loc'[u].ent : u \in Threads}
      <4>1. PICK u \in Threads : x = loc'[u].ent
        BY <3>3, Zenon
      <4>2. CASE u = t
        BY <1>7, <2>1, <4>1, <4>2, Zenon DEF Goto, IInv, ThreadsOK, InUse
      <4>3. CASE u # t
        BY <1>7, <4>1, <4>3, Zenon DEF Goto, IInv, ThreadsOK, InUse
      <4> QED BY <4>2, <4>3, Zenon
    <3> QED BY <2>1, <3>1, <3>2, <3>3, Zenon DEF InUse
  <2>2. ASSUME NEW x \in InUse, x # Nil PROVE ent'[x].key \in Keys
    <3>1. x \in Entries /\ ent[x].key \in Keys
      BY <2>2, InUseEntries, Zenon DEF IInv, ReachableOK
    <3> QED BY <1>5, <3>1, Zenon
  <2> QED BY <1>1, <1>5, <2>1, <2>2, ZenonT(30) DEF ReachableOK
<1> QED BY <1>6, <1>8, <1>9, <1>10, Zenon DEF IInv

\* A new DB satisfies the invariant.
LEMMA InitOK == Facts /\ Init => IInv
<1> SUFFICES ASSUME Facts, Init PROVE IInv
  BY Zenon
<1>0. policy \in Policies /\ strategy \in {GlobalTrack, Steal, ShardBudget}
  BY StoreAssumption, Zenon DEF Init
<1>1. GlobalType
  BY <1>0, WorkOK DEF Init, GlobalType
<1>2. ThreadsOK
  <2>1. "idle" \in Labels
    BY Zenon DEF Labels
  <2> QED BY <2>1, NoLocOK, Zenon DEF Init, ThreadsOK
<1>3. ShardType /\ MapOK
  BY NewShards, Zenon
<1>4. ShardLists
  <2> SUFFICES ASSUME NEW s \in Shards
               PROVE  /\ IsInjective(lru[s]) /\ Range(lru[s]) = ShardEntries(s)
                      /\ IsInjective(fifo[s]) /\ Range(fifo[s]) = ShardEntries(s)
    BY Zenon DEF ShardLists
  <2>1. ShardEntries(s) = {}
    BY Zenon DEF Init, ShardEntries, ShardKeys
  <2>2. lru[s] = <<>> /\ fifo[s] = <<>>
    BY Zenon DEF Init
  <2> QED BY <2>1, <2>2 DEF IsInjective, Range
<1>5. Accounting
  <2>1. \A K \in SUBSET Keys : Bytes(K) = {}
    BY ConstantsOK DEF Bytes, SizeOf, Init
  <2>2. Bytes(Keys) = {} /\ \A s \in Shards : Bytes(ShardKeys(s)) = {}
    BY <2>1, ConstantsOK, Zenon
  <2> QED BY <2>2, Zenon DEF Facts, CountingFact, Accounting, Init
<1>6. ReachableOK
  <2>1. \A e \in InUse : e = Nil
    BY DEF InUse, Init, Range, NoLoc
  <2> QED BY <2>1, Zenon DEF ReachableOK
<1> QED BY <1>1, <1>2, <1>3, <1>4, <1>5, <1>6, Zenon DEF IInv, ShardOK

\* Every step of a client keeps the invariant.
LEMMA StepOK ==
  ASSUME Facts, IInv, NEW t \in Clients, Step(t)
  PROVE  IInv'
<1>0. t \in Threads
  BY StoreAssumption, Zenon DEF Threads
<1>1. CASE Unlink(t) \/ clearExpiry(t)
  BY <1>0, <1>1, UnlinkStep, ClearStep, Zenon
<1>2. CASE Absent(t) \/ Exists(t) \/ IncrRead(t) \/ IncrSet(t)
  BY <1>0, <1>2, LookStep, Zenon
<1>3. CASE Discard(t) \/ Get(t) \/ setExpireAt(t) \/ Persist(t)
  BY <1>0, <1>3, DiscardStep, GetStep, DeadlineStep, Zenon
<1>4. CASE SetCheck(t)
  BY <1>0, <1>4, SetCheckStep, Zenon
<1>5. CASE NoEvictCheck(t) \/ BudgetFits(t) \/ StealFits(t) \/ GlobalSpace(t) \/ WriteRefused(t)
  BY <1>0, <1>5, FitsStep, Zenon
<1>6. CASE BudgetEvict(t) \/ StealEvict(t) \/ Thief(t)
  BY <1>0, <1>6, LocalEvictStep, Zenon
<1>7. CASE PickFromList(t) \/ PickStart(t)
  BY <1>0, <1>7, PickListStep, Zenon
<1>8. CASE PickScan(t) \/ PickTTL(t) \/ PickTTLSkip(t)
  BY <1>0, <1>8, PickScanStep, PickTTLStep, PickTTLSkipStep, Zenon
<1>9. CASE PickTTLValidate(t) \/ PickTTLNote(t)
  BY <1>0, <1>9, PickTTLValidateStep, PickTTLNoteStep, Zenon
<1>10. CASE Evict(t) \/ EvictStale(t)
  BY <1>0, <1>10, GlobalEvictStep, EvictStaleStep, Zenon
<1>11. CASE WriteUpdate(t) \/ WriteInsert(t)
  BY <1>0, <1>11, WriteUpdateStep, WriteInsertStep, Zenon
<1>12. CASE GlobalPush(t) \/ GlobalTouch(t)
  BY <1>0, <1>12, GlobalLinkStep, Zenon
<1>13. CASE noteExpiry(t)
  BY <1>0, <1>13, NoteStep, Zenon
<1>14. CASE FlushScan(t) \/ FlushEnd(t)
  BY <1>0, <1>14, FlushScanStep, Zenon
<1>15. CASE FlushDel(t)
  BY <1>0, <1>15, FlushDelStep, Zenon
<1> QED BY <1>1, <1>2, <1>3, <1>4, <1>5, <1>6, <1>7, <1>8, <1>9, <1>10, <1>11, <1>12,
           <1>13, <1>14, <1>15, Zenon DEF Step

\* Every step of the expiry worker keeps the invariant.
LEMMA WorkerStepOK ==
  ASSUME Facts, IInv, WorkerStep
  PROVE  IInv'
<1>0. Worker \in Threads
  BY StoreAssumption, Zenon DEF Threads
<1>1. CASE Unlink(Worker) \/ clearExpiry(Worker)
  BY <1>0, <1>1, UnlinkStep, ClearStep, Zenon
<1>2. CASE WorkerTick \/ WorkerPeek
  BY <1>2, WorkerPeekStep, Zenon
<1>3. CASE deleteIfExpired
  BY <1>3, WorkerDeleteStep, Zenon
<1>4. CASE WorkerDrop
  BY <1>4, WorkerDropStep, Zenon
<1> QED BY <1>1, <1>2, <1>3, <1>4, Zenon DEF WorkerStep

\* The tenant-wide lists that SetShardingStrategy builds hold the entries of the shards.
LEMMA RebuiltList ==
  ASSUME Facts, NEW list \in [Shards -> Seq(Entries)]
  PROVE  LET r == Flatten([i \in 1 .. ShardCount |-> list[i - 1]])
         IN  r \in Seq(Entries) /\ \A x \in Range(r) : \E s \in Shards : x \in Range(list[s])
<1> DEFINE q == [i \in 1 .. ShardCount |-> list[i - 1]]
<1>1. ShardCount \in Nat \ {0} /\ \A i \in 1 .. ShardCount : i - 1 \in Shards
  BY ConstantsOK DEF Shards
<1>2. \A i \in 1 .. ShardCount : q[i] = list[i - 1] /\ q[i] \in Seq(Entries)
  BY <1>1, Zenon
<1>3. q \in Seq(Seq(Entries)) /\ Len(q) = ShardCount
  BY <1>1, <1>2
<1> HIDE DEF q
<1>4. /\ Flatten(q) \in Seq(Entries)
      /\ \A x \in Range(Flatten(q)) : \E i \in 1 .. ShardCount : x \in Range(q[i])
  <2>1. q # <<>>
    BY <1>1, <1>3, Zenon
  <2> QED BY <1>3, <2>1, Zenon DEF Facts, FlattenFact
<1>5. \A x \in Range(Flatten(q)) : \E s \in Shards : x \in Range(list[s])
  BY <1>1, <1>2, <1>4, Zenon
<1> QED BY <1>4, <1>5, Zenon DEF q

\* Every step of SetShardingStrategy keeps the invariant.
LEMMA SwitchOK ==
  ASSUME Facts, IInv, SwitchStart \/ AdminStep
  PROVE  IInv'
<1> DEFINE l == loc[Admin]
<1>0. Admin \in Threads /\ l \in LocType /\ LocOK(pc[Admin], l)
  BY ClientFacts, Zenon DEF Threads
<1>1. CASE SwitchStart
  <2>1. PICK st \in SwitchTo : Goto(Admin, "a_lock", [NoLoc EXCEPT !.op = "switch", !.at = st])
    BY <1>1, Zenon DEF SwitchStart
  <2> DEFINE m == [NoLoc EXCEPT !.op = "switch", !.at = st]
  <2>2. st \in Nat /\ 0 \in Shards
    <3>1. st \in {1, 2, 3}
      BY StoreAssumption, Zenon DEF GlobalTrack, Steal, ShardBudget
    <3> QED BY <3>1, ConstantsOK DEF Shards
  <2>3. m \in LocType /\ m.ent = Nil
    BY <2>2, NoLocOK, Zenon DEF LocType, NoLoc
  <2>4. LocOK("a_lock", m)
    BY <2>2, Zenon DEF LocOK, Resumes, NoLoc, KeyOps, SetLabels
  <2>5. "a_lock" \in Labels
    BY Zenon DEF Labels
  <2>6. Jumps(Admin)
    BY <2>1, <2>3, <2>4, <2>5, Zenon DEF Jumps
  <2>7. GlobalType'
    <3>1. left[Admin] \in Nat /\ left[Admin] > 0 /\ left' = [left EXCEPT ![Admin] = @ - 1]
      BY <1>1, Zenon DEF SwitchStart, IInv, GlobalType
    <3>2. left' \in [Clients \cup {Admin} -> Nat]
      BY <3>1 DEF IInv, GlobalType
    <3> QED BY <1>1, <3>2, Zenon DEF SwitchStart, IInv, GlobalType, globalVars
  <2> QED BY <1>0, <1>1, <2>6, <2>7, QuietStep, Zenon DEF SwitchStart
<1>2. CASE SwitchLock
  <2> DEFINE m == [l EXCEPT !.scan = @ + 1]
  <2>1. pc[Admin] = "a_lock" /\ l.scan \in Shards /\ l.at \in SwitchTo
    BY <1>0, <1>2, Zenon DEF SwitchLock, LocOK
  <2>2. m \in LocType /\ m.ent = l.ent
    BY <1>0 DEF LocType
  <2>3. \A b \in {"a_lock", "a_swap"} : b \in Labels
    BY Zenon DEF Labels
  <2>4. PICK b \in {"a_lock", "a_swap"} :
           Goto(Admin, b, m) /\ (b = "a_lock" => l.scan + 1 \in Shards)
    BY <1>2, <2>1, ConstantsOK DEF SwitchLock, Shards
  <2>5. LocOK(b, m)
    BY <1>0, <2>1, <2>4, Zenon DEF LocOK, Resumes, SetLabels, LocType
  <2>6. Jumps(Admin)
    BY <1>0, <2>2, <2>3, <2>4, <2>5, JumpsOn, Zenon
  <2> QED BY <1>0, <1>2, <2>1, <2>6, StillStep, Zenon DEF SwitchLock
<1>3. CASE SwitchSwap
  <2>1. l.at \in {GlobalTrack, Steal, ShardBudget}
    BY <1>0, <1>3, StoreAssumption, Zenon DEF SwitchSwap, LocOK
  <2>2. lru \in [Shards -> Seq(Entries)] /\ fifo \in [Shards -> Seq(Entries)]
    BY Zenon DEF IInv, ShardOK, ShardType
  <2>3. \A s \in Shards : Range(lru[s]) \subseteq InUse /\ Range(fifo[s]) \subseteq InUse
    BY DEF IInv, ShardOK, ShardLists, ShardEntries, ShardKeys, InUse
  <2>4. <<>> \in Seq(Entries) /\ Range(<<>>) = {}
    BY DEF Range
  <2>5. gLru' \in Seq(Entries) /\ Range(gLru') \subseteq InUse
    <3>1. gLru' \in {Flatten([i \in 1 .. ShardCount |-> lru[i - 1]]), <<>>}
      BY <1>3, Zenon DEF SwitchSwap
    <3> QED BY <2>2, <2>3, <2>4, <3>1, RebuiltList, Zenon
  <2>6. gFifo' \in Seq(Entries) /\ Range(gFifo') \subseteq InUse
    <3>1. gFifo' \in {Flatten([i \in 1 .. ShardCount |-> fifo[i - 1]]), <<>>}
      BY <1>3, Zenon DEF SwitchSwap
    <3> QED BY <2>2, <2>3, <2>4, <3>1, RebuiltList, Zenon
  <2>7. GlobalType'
    BY <1>3, <2>1, <2>5, <2>6, Zenon DEF SwitchSwap, IInv, GlobalType
  <2>8. ShardOK'
    BY <1>3, ShardSame, Zenon DEF SwitchSwap, IInv
  <2>9. data' = data /\ \A x \in InUse : x # Nil => ent'[x].key \in Keys
    BY <1>3, Zenon DEF SwitchSwap, IInv, ReachableOK, shardVars
  <2>10. Jumps(Admin)
    BY <1>3, ReturnJumps, Zenon DEF SwitchSwap
  <2> QED BY <1>0, <2>5, <2>6, <2>7, <2>8, <2>9, <2>10, KeepsMapStep, Zenon
<1> QED BY <1>1, <1>2, <1>3, Zenon DEF AdminStep

\* The passing of time keeps the invariant.
LEMMA UnchangedOK ==
  ASSUME IInv, UNCHANGED <<shardVars, used, globalVars, expH, mu, strategy, policy, left, pc, loc>>,
         clock' \in Nat
  PROVE  IInv'
<1>1. ShardOK'
  BY ShardSame, Zenon DEF IInv
<1>2. GlobalType'
  BY Zenon DEF IInv, GlobalType, globalVars
<1>3. ThreadsOK'
  BY Zenon DEF IInv, ThreadsOK
<1>4. ReachableOK'
  BY Zenon DEF IInv, ReachableOK, InUse, shardVars, globalVars
<1> QED BY <1>1, <1>2, <1>3, <1>4, Zenon DEF IInv

\* Every step keeps the invariant.
LEMMA NextOK ==
  ASSUME Facts, IInv, [Next]_vars
  PROVE  IInv'
<1>1. CASE \E t \in Clients : Start(t)
  BY <1>1, StartStep, Zenon
<1>2. CASE \E t \in Clients : Step(t)
  BY <1>2, StepOK, Zenon
<1>3. CASE WorkerStep
  BY <1>3, WorkerStepOK, Zenon
<1>4. CASE SwitchStart \/ AdminStep
  BY <1>4, SwitchOK, Zenon
<1>5. CASE Advance
  BY <1>5, UnchangedOK DEF Advance, IInv, GlobalType
<1>6. CASE Done \/ UNCHANGED vars
  BY <1>6, UnchangedOK, Zenon DEF Done, vars, shardVars, globalVars, IInv, GlobalType
<1> QED BY <1>1, <1>2, <1>3, <1>4, <1>5, <1>6, Zenon DEF Next
=============================================================================
