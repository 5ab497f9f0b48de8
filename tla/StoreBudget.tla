---------------------------- MODULE StoreBudget -----------------------------
(***************************************************************************)
(* Every step of Store keeps the bound on the memory used, the tenant-wide *)
(* lists and, under the strategy ShardBudget, the budgets of the shards.   *)
(***************************************************************************)
EXTENDS StoreMoves

----------------------------------------------------------------------------
(* The choice of a victim *)

\* The list policies find a victim whenever the list holds one, ...
LEMMA FirstVictimFound ==
  ASSUME Facts, NEW seq \in Seq(Entries), NEW skip, NEW x \in Range(seq),
         ent[x].key # skip, eligible(x)
  PROVE  FirstVictim(seq, skip) # {}
<1> DEFINE I == {i \in DOMAIN seq : ent[seq[i]].key # skip /\ eligible(seq[i])}
<1>1. DOMAIN seq = 1 .. Len(seq) /\ Len(seq) \in Nat
  OBVIOUS
<1>2. PICK n \in DOMAIN seq : seq[n] = x
  BY Zenon DEF Range
<1>3. n \in I /\ I \in SUBSET Nat
  BY <1>1, <1>2
<1>4. Min(I) \in I /\ \A m \in I : Min(I) <= m
  BY <1>3, Zenon DEF Facts, MinFact
<1>5. Min(I) \in {j \in I : \A m \in I : j <= m}
  BY <1>4, Zenon
<1>6. seq[Min(I)] \in FirstVictim(seq, skip)
  BY <1>5, Zenon DEF FirstVictim
<1> QED BY <1>6, Zenon

\* ... ttlPick finds one whenever the shard holds a volatile entry, ...
LEMMA TtlPickFound ==
  ASSUME Facts, IInv, NEW s \in Shards, NEW skip, NEW x \in ShardEntries(s),
         ent[x].key # skip, ent[x].exp # 0
  PROVE  ttlPick(s, skip) # {}
<1> DEFINE C == {e \in ShardEntries(s) : ent[e].key # skip /\ ent[e].exp # 0}
           D == {ent[e].exp : e \in C}
<1>1. \A e \in ShardEntries(s) : ent[e].exp \in Nat
  BY StoredFacts, Zenon DEF ShardEntries, ShardKeys
<1>2. D \in SUBSET Nat /\ D # {}
  BY <1>1, Zenon
<1>3. Min(D) \in D /\ \A d \in D : Min(D) <= d
  BY <1>2, Zenon DEF Facts, MinFact
<1>4. PICK e \in C : ent[e].exp = Min(D)
  BY <1>3, Zenon
<1>5. e \in ttlPick(s, skip)
  BY <1>3, <1>4, Zenon DEF ttlPick
<1> QED BY <1>5, Zenon

\* ... and so does every policy that evicts.
LEMMA VictimFound ==
  ASSUME Facts, IInv, policy # NoEviction, NEW s \in Shards, NEW skip,
         NEW k \in ShardKeys(s) \ {skip}, data[k] # Nil, eligible(data[k])
  PROVE  pickLocalVictim(s, skip) # {}
<1>1. /\ data[k] \in ShardEntries(s) /\ ent[data[k]].key # skip
      /\ data[k] \in Range(lru[s]) /\ data[k] \in Range(fifo[s])
      /\ lru[s] \in Seq(Entries) /\ fifo[s] \in Seq(Entries)
  BY StoredFacts DEF ShardKeys, ShardEntries, IInv, ShardOK, ShardLists, ShardType
<1>2. FirstVictim(lru[s], skip) # {} /\ FirstVictim(fifo[s], skip) # {}
  BY <1>1, FirstVictimFound, Zenon
<1>3. policy \in TtlPolicies => ttlPick(s, skip) # {}
  BY <1>1, TtlPickFound, Zenon DEF TtlPolicies, eligible, volatileOnly
<1>4. rndPick(s, skip) # {} /\ lfuPick(s, skip) # {}
  BY <1>1, Zenon DEF rndPick, lfuPick
<1>5. policy \in LruPolicies \cup FifoPolicies \cup TtlPolicies \cup RandomPolicies \cup LfuPolicies
  BY Zenon DEF IInv, GlobalType, Policies
<1> QED BY <1>2, <1>3, <1>4, <1>5, Zenon DEF pickLocalVictim

----------------------------------------------------------------------------
(* The memory limit *)

\* Multiplication by a size.
LEMMA MulMono == ASSUME NEW m \in Nat, NEW a \in Nat, NEW b \in Nat, a <= b PROVE m * a <= m * b
OBVIOUS

\* One more of that size.
LEMMA MulStep == ASSUME NEW m \in Nat, NEW a \in Nat PROVE m * (a + 1) = m * a + m
OBVIOUS

\* The writers are finitely many.
LEMMA WritersFinite ==
  ASSUME Facts
  PROVE  /\ IsFiniteSet(Writers) /\ Cardinality(Writers) \in Nat /\ Cardinality(Clients) \in Nat
         /\ Cardinality(Writers) <= Cardinality(Clients)
<1>1. Writers \subseteq Clients /\ IsFiniteSet(Clients)
  BY Parameters, Zenon DEF Writers
<1> QED BY <1>1, Zenon DEF Facts, CountingFact

\* A step of client t keeps the bound.
LEMMA OvershootStep ==
  ASSUME Facts, IInv, IInv', WhereInv, SwitchTo = {}, strategy # ShardBudget, OvershootBounded,
         NEW t \in Clients, Start(t) \/ Step(t)
  PROVE  OvershootBounded'
<1> DEFINE w == Cardinality(Writers)
           v == Cardinality(Writers')
           c == Cardinality(Clients)
<1>0. /\ t \in Threads /\ used \in Nat /\ used' \in Nat /\ MaxMemory \in Nat /\ MaxSize \in Nat
  BY Parameters, Zenon DEF Threads, IInv, ShardOK, ShardType
<1>1. /\ IsFiniteSet(Writers) /\ w \in Nat /\ c \in Nat /\ w <= c
      /\ IsFiniteSet(Writers') /\ v \in Nat /\ v <= c
  <2>1. IsFiniteSet(Writers') /\ v \in Nat /\ v <= c
    <3>1. Writers' \subseteq Clients /\ IsFiniteSet(Clients)
      BY Parameters, Zenon DEF Writers
    <3> QED BY <3>1, Zenon DEF Facts, CountingFact
  <2> QED BY <2>1, WritersFinite, Zenon
<1>2. \A u \in Clients \ {t} : pc'[u] = pc[u]
  <2>1. Moves(t)
    BY StartMoves, StepMoves, Zenon
  <2> QED BY <1>0, <2>1, MovesOne, Zenon DEF Threads
<1>3. used + MaxSize * w <= MaxMemory + MaxSize * c
  BY Zenon DEF OvershootBounded
<1>4. MaxSize * w \in Nat /\ MaxSize * v \in Nat /\ MaxSize * c \in Nat
  BY <1>0, <1>1
<1>5. MaxSize * v <= MaxSize * c
  BY <1>0, <1>1, MulMono, Zenon
<1>6. CASE pc'[t] # "write" /\ used' <= used
  <2>1. Writers' \subseteq Writers
    BY <1>2, <1>6, Zenon DEF Writers
  <2>2. v <= w
    BY <1>1, <2>1, Zenon DEF Facts, CountingFact
  <2>3. MaxSize * v <= MaxSize * w
    BY <1>0, <1>1, <2>2, MulMono, Zenon
  <2>4. used' + MaxSize * v <= MaxMemory + MaxSize * c
    <3> HIDE DEF w, v, c
    <3> QED BY <1>0, <1>3, <1>4, <1>6, <2>3
  <2> QED BY <2>4, Zenon DEF OvershootBounded
<1>7. CASE pc'[t] = "write" /\ used' = used /\ used <= MaxMemory
  <2>1. used' + MaxSize * v <= MaxMemory + MaxSize * c
    <3> HIDE DEF w, v, c
    <3> QED BY <1>0, <1>4, <1>5, <1>7
  <2> QED BY <2>1, Zenon DEF OvershootBounded
<1>8. CASE pc[t] = "write" /\ pc'[t] # "write" /\ used' <= used + MaxSize
  <2>1. Writers' = Writers \ {t} /\ t \in Writers
    BY <1>2, <1>8, Zenon DEF Writers
  <2>2. v = w - 1
    BY <1>1, <2>1, Zenon DEF Facts, CountingFact
  <2>3. MaxSize * w = MaxSize * v + MaxSize
    <3>1. w = v + 1
      BY <1>1, <2>2
    <3> QED BY <1>0, <1>1, <3>1, MulStep, Zenon
  <2>4. used' + MaxSize * v <= MaxMemory + MaxSize * c
    <3> HIDE DEF w, v, c
    <3> QED BY <1>0, <1>3, <1>4, <1>8, <2>3
  <2> QED BY <2>4, Zenon DEF OvershootBounded
<1> QED BY <1>6, <1>7, <1>8, MemoryStep, Zenon

\* The steps that are not a client's add nothing to db.used and start no write.
LEMMA OvershootOther ==
  ASSUME Facts, IInv, IInv', WhereInv, SwitchTo = {}, OvershootBounded,
         WorkerStep \/ SwitchStart \/ AdminStep \/ Advance \/ Done \/ UNCHANGED vars
  PROVE  OvershootBounded' /\ UNCHANGED strategy
<1>0. used \in Nat /\ MaxMemory \in Nat /\ MaxSize \in Nat /\ Worker \in Threads
  BY Parameters, Zenon DEF Threads, IInv, ShardOK, ShardType
<1>1. ~ (SwitchStart \/ AdminStep)
  BY SwitchMoves, Zenon DEF AdminStep
<1>2. UNCHANGED strategy
  BY <1>1, Zenon DEF WorkerStep, Unlink, clearExpiry, WorkerTick, WorkerPeek, deleteIfExpired,
              WorkerDrop, removeFromShard, Advance, Done, vars
<1>3. Writers' = Writers
  <2>1. CASE WorkerStep
    <3>1. Moves(Worker)
      BY <1>0, <2>1, AfterRemovalMoves, WorkerMoves, Zenon DEF WorkerStep
    <3>2. \A u \in Clients : u \in Threads \ {Worker}
      BY StoreAssumption, Zenon DEF Threads
    <3> QED BY <1>0, <3>1, <3>2, MovesOne, Zenon DEF Writers
  <2>2. CASE Advance \/ Done \/ UNCHANGED vars
    BY <2>2, Zenon DEF Advance, Done, vars, Writers
  <2> QED BY <1>1, <2>1, <2>2, Zenon
<1>4. used' \in Nat /\ used' <= used
  <2>1. CASE WorkerStep
    <3>1. used' <= used
      <4>1. CASE Quiet(Worker) \/ Unlink(Worker)
        <5>1. used' = used
          BY <4>1, Zenon DEF Quiet, Unlink
        <5> QED BY <1>0, <5>1
      <4>2. CASE \E k \in Keys : Removes(Worker, k)
        BY <4>2, RemovalFrees, Zenon DEF Threads
      <4> QED BY <2>1, <4>1, <4>2, WorkerKinds, Zenon
    <3> QED BY <3>1, Zenon DEF IInv, ShardOK, ShardType
  <2>2. CASE Advance \/ Done \/ UNCHANGED vars
    BY <1>0, <2>2 DEF Advance, Done, vars
  <2> QED BY <1>1, <2>1, <2>2, Zenon
<1>5. ASSUME used + MaxSize * Cardinality(Writers) <= MaxMemory + MaxSize * Cardinality(Clients)
      PROVE  used' + MaxSize * Cardinality(Writers) <= MaxMemory + MaxSize * Cardinality(Clients)
  <2>1. /\ MaxSize * Cardinality(Writers) \in Nat /\ MaxSize * Cardinality(Clients) \in Nat
    BY <1>0, WritersFinite
  <2> QED BY <1>0, <1>4, <1>5, <2>1
<1> QED BY <1>2, <1>3, <1>5, Zenon DEF OvershootBounded

----------------------------------------------------------------------------
(* The tenant-wide lists *)

\* Dropping one position keeps a list free of repetition.
LEMMA RemoveAtInjective ==
  ASSUME Facts, NEW s \in Seq(Entries), NEW i \in 1 .. Len(s), IsInjective(s)
  PROVE  IsInjective(RemoveAt(s, i))
<1> DEFINE r == RemoveAt(s, i)
<1>0. Len(s) \in Nat /\ DOMAIN s = 1 .. Len(s)
  OBVIOUS
<1>1. /\ r \in Seq(Entries) /\ Len(r) = Len(s) - 1
      /\ \A j \in 1 .. Len(s) - 1 : r[j] = IF j < i THEN s[j] ELSE s[j + 1]
  BY Zenon DEF Facts, RemoveAtFact
<1> HIDE DEF r
<1>2. DOMAIN r = 1 .. Len(s) - 1
  BY <1>1
<1> DEFINE p(j) == IF j < i THEN j ELSE j + 1
<1>3. \A j \in 1 .. Len(s) - 1 : p(j) \in 1 .. Len(s) /\ r[j] = s[p(j)]
  BY <1>0, <1>1
<1>4. \A j, m \in 1 .. Len(s) - 1 : p(j) = p(m) => j = m
  BY <1>0
<1>5. \A a, b \in 1 .. Len(s) : s[a] = s[b] => a = b
  BY <1>0, Zenon DEF IsInjective
<1>6. IsInjective(r)
  <2> HIDE DEF p
  <2> QED BY <1>2, <1>3, <1>4, <1>5, SMTT(20) DEF IsInjective
<1> QED BY <1>6, Zenon DEF r

\* dllTouch moves an entry to the tail: nothing is lost or linked twice.
LEMMA TouchKeeps ==
  ASSUME Facts, NEW s \in Seq(Entries), NEW e \in Entries, IsInjective(s)
  PROVE  /\ Touched(s, e) \in Seq(Entries)
         /\ IsInjective(Touched(s, e))
         /\ Range(Touched(s, e)) = Range(s) \cup {e}
<1>1. /\ RemoveFirst(s, e) \in Seq(Entries) /\ IsInjective(RemoveFirst(s, e))
      /\ Range(RemoveFirst(s, e)) = Range(s) \ {e}
  BY Zenon DEF Facts, RemoveFirstFact
<1> DEFINE r == RemoveFirst(s, e)
<1>2. e \notin Range(r)
  BY <1>1, Zenon
<1> HIDE DEF r
<1>3. /\ Append(r, e) \in Seq(Entries) /\ IsInjective(Append(r, e))
      /\ Range(Append(r, e)) = Range(r) \cup {e}
  BY <1>1, <1>2, Zenon DEF Facts, AppendFact, r
<1>4. Touched(s, e) = Append(r, e)
  BY Zenon DEF Touched, r
<1>5. Range(r) \cup {e} = Range(s) \cup {e}
  BY <1>1, Zenon DEF r
<1> QED BY <1>3, <1>4, <1>5, Zenon

\* A step of thread t that pushes nothing: the lists lose entries at most, and no entry
\* that is still in the map.
LEMMA ListsShrink ==
  ASSUME IInv, ListInv, NEW t \in Threads, pc[t] # "push", pc'[t] # "push",
         \A u \in Threads \ {t} : pc'[u] = pc[u] /\ loc'[u] = loc[u],
         strategy' = strategy,
         \A k \in Keys : data'[k] \in {data[k], Nil},
         pc'[t] = "unlink" => \A k \in Keys : data'[k] # loc'[t].ent,
         IsInjective(gLru'), IsInjective(gFifo'),
         Range(gLru') \subseteq Range(gLru), Range(gFifo') \subseteq Range(gFifo),
         \A k \in Keys : data'[k] # Nil /\ data[k] \in Range(gFifo) => data[k] \in Range(gFifo')
  PROVE  ListInv'
<1>1. LinkedOnce'
  BY Zenon DEF LinkedOnce
<1>2. FifoComplete'
  <2> SUFFICES ASSUME strategy = GlobalTrack, NEW k \in Keys, data'[k] # Nil
               PROVE  \/ data'[k] \in Range(gFifo')
                      \/ \E u \in Clients : pc'[u] = "push" /\ loc'[u].ent = data'[k]
    BY Zenon DEF FifoComplete
  <2>1. data'[k] = data[k]
    BY Zenon
  <2>2. CASE data[k] \in Range(gFifo)
    BY <2>1, <2>2, Zenon
  <2>3. CASE data[k] \notin Range(gFifo)
    <3>1. PICK u \in Clients : pc[u] = "push" /\ loc[u].ent = data[k]
      BY <2>1, <2>3, Zenon DEF ListInv, FifoComplete
    <3>2. pc'[u] = pc[u] /\ loc'[u] = loc[u]
      BY <3>1, Zenon DEF Threads
    <3> QED BY <2>1, <3>1, <3>2, Zenon
  <2> QED BY <2>2, <2>3, Zenon
<1>3. \A u \in Threads : pc'[u] = "push" => pc[u] = "push" /\ loc'[u] = loc[u]
  BY Zenon
<1>4. \A u \in Threads : pc'[u] = "push" => loc'[u].ent \notin Range(gLru') \cup Range(gFifo')
  BY <1>3, Zenon DEF ListInv
<1>5. \A u, v \in Threads : u # v /\ pc'[u] = "push" /\ pc'[v] = "push" => loc'[u].ent # loc'[v].ent
  BY <1>3 DEF ListInv
<1>6. ASSUME NEW u \in Threads, pc'[u] = "unlink", NEW k \in Keys PROVE data'[k] # loc'[u].ent
  <2>1. CASE u = t
    BY <1>6, <2>1, Zenon
  <2>2. CASE u # t
    <3>1. pc[u] = "unlink" /\ loc'[u] = loc[u]
      BY <1>6, <2>2, Zenon
    <3>2. loc[u].ent # Nil
      BY <3>1, ThreadFacts, Parameters, Zenon DEF LocOK
    <3> QED BY <3>1, <3>2 DEF ListInv
  <2> QED BY <2>1, <2>2, Zenon
<1> QED BY <1>1, <1>2, <1>4, <1>5, <1>6, Zenon DEF ListInv

\* The lists stay as they are.
LEMMA ListsSame ==
  ASSUME IInv, ListInv, NEW t \in Threads, pc[t] # "push", pc'[t] # "push",
         \A u \in Threads \ {t} : pc'[u] = pc[u] /\ loc'[u] = loc[u],
         strategy' = strategy,
         \A k \in Keys : data'[k] \in {data[k], Nil},
         pc'[t] = "unlink" => \A k \in Keys : data'[k] # loc'[t].ent,
         UNCHANGED globalVars
  PROVE  ListInv'
<1>1. gLru' = gLru /\ gFifo' = gFifo /\ IsInjective(gLru) /\ IsInjective(gFifo)
  BY Zenon DEF ListInv, LinkedOnce, globalVars
<1> QED BY <1>1, ListsShrink, Zenon

\* A removal keeps the invariant: the entry leaves the map before it is unlinked.
LEMMA RemovalLists ==
  ASSUME IInv, ListInv, NEW t \in Threads, NEW k \in Keys, Removes(t, k), pc[t] # "push",
         \A u \in Threads \ {t} : pc'[u] = pc[u] /\ loc'[u] = loc[u], strategy' = strategy
  PROVE  ListInv'
<1>1. pc'[t] \in {"unlink", "clear", "incr"} /\ \A j \in Keys : data'[j] = IF j = k THEN Nil ELSE data[j]
  BY RemovalFrees, Zenon
<1>2. PICK l, then : removeFromShard(t, data[k], l, then)
  BY Zenon DEF Removes
<1>3. UNCHANGED globalVars
  BY <1>2, Zenon DEF removeFromShard, globalVars
<1>4. data[k] # Nil
  BY Zenon DEF Removes
<1>5. pc'[t] = "unlink" => loc'[t].ent = data[k]
  <2>1. CASE strategy = GlobalTrack
    <3>1. Goto(t, "unlink", [l EXCEPT !.ent = data[k], !.vk = ent[data[k]].key, !.then = then])
      BY <1>2, <2>1, Zenon DEF removeFromShard
    <3>2. loc' = [loc EXCEPT ![t] = [l EXCEPT !.ent = data[k], !.vk = ent[data[k]].key, !.then = then]]
      BY <3>1, Zenon DEF Goto
    <3> QED BY <3>2 DEF IInv, ThreadsOK
  <2>2. CASE strategy # GlobalTrack
    <3>1. \E m : Goto(t, AfterUnlink(then), m)
      BY <1>2, <2>2, Zenon DEF removeFromShard
    <3>2. pc'[t] \in {"clear", "incr"}
      BY <3>1, Zenon DEF Goto, AfterUnlink, IInv, ThreadsOK
    <3> QED BY <3>2, Zenon
  <2> QED BY <2>1, <2>2, Zenon
<1>6. \A j \in Keys : data'[j] # data[k]
  <2>1. \A j \in Keys \ {k} : data[j] # data[k]
    BY <1>4, KeysApart, Zenon DEF IInv
  <2> QED BY <1>1, <1>4, <2>1, Zenon
<1> QED BY <1>1, <1>3, <1>5, <1>6, ListsSame, Zenon

\* Unlinking, dropping a stale node and touching keep the invariant.
LEMMA RelinkLists ==
  ASSUME Facts, IInv, ListInv, NEW t \in Threads, Unlink(t) \/ EvictStale(t) \/ GlobalTouch(t),
         \A u \in Threads \ {t} : pc'[u] = pc[u] /\ loc'[u] = loc[u]
  PROVE  ListInv'
<1> DEFINE l == loc[t]
<1>0. /\ gLru \in Seq(Entries) /\ gFifo \in Seq(Entries) /\ IsInjective(gLru) /\ IsInjective(gFifo)
      /\ pc[t] # "push" /\ LocOK(pc[t], l)
  BY ThreadFacts, Zenon DEF IInv, GlobalType, ListInv, LinkedOnce, Unlink, EvictStale, GlobalTouch
<1>1. data' = data /\ strategy' = strategy
  BY Zenon DEF Unlink, EvictStale, GlobalTouch, shardVars
<1>2. pc'[t] \notin {"push", "unlink"}
  <2>1. \E a \in {"incr", "clear", "gspace", "idle", "note"} : \E m : Goto(t, a, m)
    BY Zenon DEF Unlink, EvictStale, GlobalTouch, AfterUnlink, Return
  <2> QED BY <2>1, Zenon DEF Goto, IInv, ThreadsOK
<1>3. /\ IsInjective(gLru') /\ IsInjective(gFifo')
      /\ Range(gLru') \subseteq Range(gLru) /\ Range(gFifo') \subseteq Range(gFifo)
      /\ \A k \in Keys : data[k] \in Range(gFifo) => data[k] \in Range(gFifo')
  <2>1. CASE Unlink(t)
    <3>1. gLru' = RemoveFirst(gLru, l.ent) /\ gFifo' = RemoveFirst(gFifo, l.ent) /\ pc[t] = "unlink"
      BY <2>1, Zenon DEF Unlink
    <3>2. /\ IsInjective(RemoveFirst(gLru, l.ent)) /\ Range(RemoveFirst(gLru, l.ent)) = Range(gLru) \ {l.ent}
          /\ IsInjective(RemoveFirst(gFifo, l.ent)) /\ Range(RemoveFirst(gFifo, l.ent)) = Range(gFifo) \ {l.ent}
      BY <1>0, Zenon DEF Facts, RemoveFirstFact
    <3>3. \A k \in Keys : data[k] # l.ent
      BY <3>1, Zenon DEF ListInv
    <3> QED BY <3>1, <3>2, <3>3, Zenon
  <2>2. CASE EvictStale(t)
    <3> DEFINE I == {i \in 1 .. Len(gLru) : ent[gLru[i]].key = l.vk}
    <3>1. gFifo' = gFifo /\ Len(gLru) \in Nat
      BY <1>0, <2>2 DEF EvictStale
    <3>2. IsInjective(gLru') /\ Range(gLru') \subseteq Range(gLru)
      <4>1. CASE I = {}
        <5>1. gLru' = gLru
          BY <2>2, <4>1, Zenon DEF EvictStale, RemoveFirstMatch
        <5> QED BY <1>0, <5>1, Zenon
      <4>2. CASE I # {}
        <5>1. Min(I) \in 1 .. Len(gLru)
          <6>1. I \in SUBSET Nat /\ I # {}
            BY <3>1, <4>2
          <6> QED BY <6>1, Zenon DEF Facts, MinFact
        <5>2. gLru' = RemoveAt(gLru, Min(I))
          BY <2>2, <4>2, Zenon DEF EvictStale, RemoveFirstMatch
        <5>3. Range(RemoveAt(gLru, Min(I))) \subseteq Range(gLru)
          BY <1>0, <5>1, Zenon DEF Facts, RemoveAtFact
        <5> QED BY <1>0, <5>1, <5>2, <5>3, RemoveAtInjective, Zenon
      <4> QED BY <4>1, <4>2, Zenon
    <3> QED BY <1>0, <3>1, <3>2, Zenon
  <2>3. CASE GlobalTouch(t)
    <3>1. gFifo' = gFifo /\ (gLru' = gLru \/ (l.ent \in Range(gLru) /\ gLru' = Touched(gLru, l.ent)))
      BY <2>3, Zenon DEF GlobalTouch
    <3>2. l.ent \in Entries
      BY <1>0, <2>3, Zenon DEF GlobalTouch, LocOK
    <3>3. IsInjective(Touched(gLru, l.ent)) /\ Range(Touched(gLru, l.ent)) = Range(gLru) \cup {l.ent}
      BY <1>0, <3>2, TouchKeeps, Zenon
    <3> QED BY <1>0, <3>1, <3>3, Zenon
  <2> QED BY <2>1, <2>2, <2>3, Zenon
<1> QED BY <1>0, <1>1, <1>2, <1>3, ListsShrink, Zenon

\* The insertion of a new entry keeps the invariant: nothing refers to it yet.
LEMMA InsertLists ==
  ASSUME IInv, ListInv, NEW t \in Clients, WriteInsert(t),
         \A u \in Threads \ {t} : pc'[u] = pc[u] /\ loc'[u] = loc[u]
  PROVE  ListInv'
<1> DEFINE l == loc[t]
           e == NewEntry
<1>0. /\ t \in Threads /\ l \in LocType /\ l.key \in Keys
      /\ data \in [Keys -> Entries \cup {Nil}]
  BY ThreadFacts, Zenon DEF Threads, WriteInsert, AtWrite, LocOK, Resumes, SetLabels, KeyOps, IInv, ShardOK, ShardType
<1>1. e \in Entries /\ e \notin InUse
  BY Zenon DEF WriteInsert, NewEntry
<1>2. UNCHANGED <<gLru, gFifo, strategy>> /\ data' = [data EXCEPT ![l.key] = e]
  BY Zenon DEF WriteInsert, globalVars
<1>3. IF strategy = GlobalTrack THEN pc'[t] = "push" /\ loc'[t].ent = e ELSE pc'[t] = "note"
  <2>1. IF strategy = GlobalTrack THEN Goto(t, "push", [l EXCEPT !.ent = e]) ELSE Goto(t, "note", l)
    BY Zenon DEF WriteInsert
  <2>2. [l EXCEPT !.ent = e].ent = e
    BY <1>0, Zenon DEF LocType
  <2> HIDE DEF e
  <2> QED BY <1>0, <2>1, <2>2, Zenon DEF Goto, IInv, ThreadsOK
<1>4. /\ e \notin Range(gLru) \cup Range(gFifo)
      /\ \A u \in Threads : loc[u].ent # e
  BY <1>1, Zenon DEF InUse
<1>5. \A k \in Keys : data'[k] = IF k = l.key THEN e ELSE data[k]
  BY <1>0, <1>2, Zenon
<1> HIDE DEF e
<1>6. LinkedOnce'
  BY <1>2, Zenon DEF ListInv, LinkedOnce
<1>7. FifoComplete'
  <2> SUFFICES ASSUME strategy = GlobalTrack, NEW k \in Keys, data'[k] # Nil
               PROVE  \/ data'[k] \in Range(gFifo)
                      \/ \E u \in Clients : pc'[u] = "push" /\ loc'[u].ent = data'[k]
    BY <1>2, Zenon DEF FifoComplete
  <2>1. CASE k = l.key
    BY <1>3, <1>5, <2>1, Zenon
  <2>2. CASE k # l.key
    <3>1. data'[k] = data[k]
      BY <1>5, <2>2, Zenon
    <3>2. CASE data[k] \in Range(gFifo)
      BY <3>1, <3>2, Zenon
    <3>3. CASE data[k] \notin Range(gFifo)
      <4>1. PICK u \in Clients : pc[u] = "push" /\ loc[u].ent = data[k]
        BY <3>1, <3>3, Zenon DEF ListInv, FifoComplete
      <4>2. u \in Threads \ {t}
        BY <4>1, Zenon DEF Threads, WriteInsert, AtWrite
      <4> QED BY <3>1, <4>1, <4>2, Zenon
    <3> QED BY <3>2, <3>3, Zenon
  <2> QED BY <2>1, <2>2, Zenon
<1>8. \A u \in Threads : pc'[u] = "push" => \/ u = t /\ loc'[u].ent = e
                                            \/ u # t /\ pc[u] = "push" /\ loc'[u] = loc[u]
  BY <1>3, Zenon
<1>9. \A u \in Threads : pc'[u] = "push" => loc'[u].ent \notin Range(gLru') \cup Range(gFifo')
  BY <1>2, <1>4, <1>8, Zenon DEF ListInv
<1>10. \A u, v \in Threads : u # v /\ pc'[u] = "push" /\ pc'[v] = "push" => loc'[u].ent # loc'[v].ent
  BY <1>4, <1>8 DEF ListInv
<1>11. ASSUME NEW u \in Threads, pc'[u] = "unlink", NEW k \in Keys PROVE data'[k] # loc'[u].ent
  <2>1. u # t
    BY <1>3, <1>11, Zenon
  <2>2. pc[u] = "unlink" /\ loc'[u] = loc[u]
    BY <1>11, <2>1, Zenon
  <2> QED BY <1>4, <1>5, <2>2 DEF ListInv
<1> QED BY <1>6, <1>7, <1>9, <1>10, <1>11, Zenon DEF ListInv

\* The push of a new entry keeps the invariant.
LEMMA PushLists ==
  ASSUME Facts, IInv, ListInv, NEW t \in Threads, GlobalPush(t),
         \A u \in Threads \ {t} : pc'[u] = pc[u] /\ loc'[u] = loc[u]
  PROVE  ListInv'
<1> DEFINE e == loc[t].ent
<1>0. /\ gLru \in Seq(Entries) /\ gFifo \in Seq(Entries) /\ IsInjective(gLru) /\ IsInjective(gFifo)
      /\ pc[t] = "push" /\ e \in Entries /\ e \notin Range(gLru) /\ e \notin Range(gFifo)
  BY ThreadFacts, Zenon DEF IInv, GlobalType, ListInv, LinkedOnce, GlobalPush, LocOK
<1>1. data' = data /\ strategy' = strategy /\ gLru' = Append(gLru, e) /\ gFifo' = Append(gFifo, e)
  BY Zenon DEF GlobalPush, shardVars
<1>2. pc'[t] = "note"
  BY Zenon DEF GlobalPush, Goto, IInv, ThreadsOK
<1>3. /\ IsInjective(gLru') /\ Range(gLru') = Range(gLru) \cup {e}
      /\ IsInjective(gFifo') /\ Range(gFifo') = Range(gFifo) \cup {e}
  BY <1>0, <1>1, Zenon DEF Facts, AppendFact
<1>4. \A u \in Threads : pc'[u] \in {"push", "unlink"} => u # t /\ pc[u] = pc'[u] /\ loc'[u] = loc[u]
  BY <1>2, Zenon
<1>5. FifoComplete'
  <2> SUFFICES ASSUME strategy = GlobalTrack, NEW k \in Keys, data[k] # Nil
               PROVE  \/ data[k] \in Range(gFifo')
                      \/ \E u \in Clients : pc'[u] = "push" /\ loc'[u].ent = data[k]
    BY <1>1, Zenon DEF FifoComplete
  <2>1. CASE data[k] \in Range(gFifo)
    BY <1>3, <2>1, Zenon
  <2>2. CASE data[k] \notin Range(gFifo)
    <3>1. PICK u \in Clients : pc[u] = "push" /\ loc[u].ent = data[k]
      BY <2>2, Zenon DEF ListInv, FifoComplete
    <3>2. CASE u = t
      BY <1>3, <3>1, <3>2, Zenon
    <3>3. CASE u # t
      <4>1. pc'[u] = pc[u] /\ loc'[u] = loc[u]
        BY <3>3, Zenon DEF Threads
      <4> QED BY <3>1, <4>1, Zenon
    <3> QED BY <3>2, <3>3, Zenon
  <2> QED BY <2>1, <2>2, Zenon
<1>6. \A u \in Threads : pc'[u] = "push" => loc'[u].ent \notin Range(gLru') \cup Range(gFifo')
  <2> SUFFICES ASSUME NEW u \in Threads, pc'[u] = "push"
               PROVE  loc'[u].ent \notin Range(gLru') \cup Range(gFifo')
    BY Zenon
  <2>1. u # t /\ pc[u] = "push" /\ loc'[u] = loc[u]
    BY <1>4, Zenon
  <2>2. loc[u].ent # e
    BY <1>0, <2>1, Zenon DEF ListInv
  <2> QED BY <1>3, <2>1, <2>2, Zenon DEF ListInv
<1>7. \A u, v \in Threads : u # v /\ pc'[u] = "push" /\ pc'[v] = "push" => loc'[u].ent # loc'[v].ent
  BY <1>4 DEF ListInv
<1>8. \A u \in Threads : pc'[u] = "unlink" => \A k \in Keys : data'[k] # loc'[u].ent
  BY <1>1, <1>4, Zenon DEF ListInv
<1> QED BY <1>3, <1>5, <1>6, <1>7, <1>8, Zenon DEF ListInv, LinkedOnce

\* A step of a client keeps the invariant.
LEMMA ClientLists ==
  ASSUME Facts, IInv, WhereInv, ListInv, NEW t \in Clients, Start(t) \/ Step(t)
  PROVE  ListInv'
<1>0. t \in Threads /\ \A u \in Threads \ {t} : pc'[u] = pc[u] /\ loc'[u] = loc[u]
  BY MovesOne, StartMoves, StepMoves, Zenon DEF Threads
<1>1. strategy' = strategy
  BY StepFrame, Zenon DEF Start, StartSet, StartKeyOp, StartExpire, StartIncr, StartFlush, Starts
<1>2. CASE GlobalPush(t)
  BY <1>0, <1>2, PushLists, Zenon
<1>3. CASE ~ GlobalPush(t)
  <2>0. pc[t] # "push"
    BY <1>3, StartIdle, StepsAt, Zenon
  <2>1. CASE Quiet(t)
    <3>1. data' = data /\ UNCHANGED globalVars /\ pc'[t] \notin {"unlink", "push"}
      BY <2>1, Zenon DEF Quiet, shardVars
    <3> QED BY <1>0, <1>1, <2>0, <3>1, ListsSame, Zenon
  <2>2. CASE \E k \in Keys : Removes(t, k)
    BY <1>0, <1>1, <2>0, <2>2, RemovalLists, Zenon
  <2>3. CASE Get(t) \/ setExpireAt(t) \/ Persist(t) \/ WriteUpdate(t)
    <3>1. data' = data /\ UNCHANGED globalVars
      BY <2>3, Zenon DEF Get, setExpireAt, Persist, WriteUpdate, globalVars
    <3>2. \E a \in {"touch", "idle", "note", "clear"} : \E m : Goto(t, a, m)
      BY <2>3, Zenon DEF Get, setExpireAt, Persist, WriteUpdate, Return
    <3>3. pc'[t] \notin {"unlink", "push"}
      BY <1>0, <3>2, Zenon DEF Goto, IInv, ThreadsOK
    <3> QED BY <1>0, <1>1, <2>0, <3>1, <3>3, ListsSame, Zenon
  <2>4. CASE WriteInsert(t)
    BY <1>0, <2>4, InsertLists, Zenon
  <2>5. CASE Unlink(t) \/ EvictStale(t) \/ GlobalTouch(t)
    BY <1>0, <2>5, RelinkLists, Zenon
  <2> QED BY <1>3, <2>1, <2>2, <2>3, <2>4, <2>5, StartKinds, StepKinds, Zenon
<1> QED BY <1>2, <1>3, Zenon

\* Every step keeps the invariant.
LEMMA ListInvStep ==
  ASSUME Facts, SwitchTo = {}, IInv, WhereInv, ListInv, [Next]_vars
  PROVE  ListInv'
<1>1. CASE \E t \in Clients : Start(t) \/ Step(t)
  BY <1>1, ClientLists, Zenon
<1>2. CASE WorkerStep
  <2>0. Worker \in Threads /\ \A u \in Threads \ {Worker} : pc'[u] = pc[u] /\ loc'[u] = loc[u]
    <3>1. Worker \in Threads
      BY Zenon DEF Threads
    <3> QED BY <1>2, <3>1, MovesOne, AfterRemovalMoves, WorkerMoves, Zenon DEF WorkerStep
  <2>1. strategy' = strategy
    BY <1>2, Zenon DEF WorkerStep, Unlink, clearExpiry, WorkerTick, WorkerPeek, deleteIfExpired,
                WorkerDrop, removeFromShard
  <2>2. pc[Worker] # "push"
    BY <1>2, Zenon DEF WorkerStep, Unlink, clearExpiry, WorkerTick, WorkerPeek, deleteIfExpired, WorkerDrop
  <2>3. CASE Quiet(Worker)
    <3>1. data' = data /\ UNCHANGED globalVars /\ pc'[Worker] \notin {"unlink", "push"}
      BY <2>3, Zenon DEF Quiet, shardVars
    <3> QED BY <2>0, <2>1, <2>2, <3>1, ListsSame, Zenon
  <2>4. CASE \E k \in Keys : Removes(Worker, k)
    BY <2>0, <2>1, <2>2, <2>4, RemovalLists, Zenon
  <2>5. CASE Unlink(Worker)
    BY <2>0, <2>5, RelinkLists, Zenon
  <2> QED BY <1>2, <2>3, <2>4, <2>5, WorkerKinds, Zenon
<1>3. ~ (SwitchStart \/ AdminStep)
  BY SwitchMoves, Zenon DEF AdminStep
<1>4. CASE Advance \/ Done \/ UNCHANGED vars
  <2>1. UNCHANGED <<data, gLru, gFifo, strategy, pc, loc>>
    BY <1>4, Zenon DEF Advance, Done, vars, shardVars, globalVars
  <2> QED BY <2>1, Zenon DEF ListInv, LinkedOnce, FifoComplete
<1> QED BY <1>1, <1>2, <1>3, <1>4, Zenon DEF Next

\* The initial state has nothing linked and nothing to link.
LEMMA ListInvInit == Init => ListInv
<1> SUFFICES ASSUME Init PROVE ListInv
  BY Zenon
<1>1. /\ gLru = <<>> /\ gFifo = <<>> /\ \A k \in Keys : data[k] = Nil
      /\ \A t \in Threads : pc[t] = "idle"
  BY Zenon DEF Init
<1> QED BY <1>1 DEF ListInv, LinkedOnce, FifoComplete, IsInjective

----------------------------------------------------------------------------
(* The budgets of the shards *)

\* No shard changes but s: neither its mutex, nor its counter, nor the size of an entry.
Elsewhere(s) ==
  \A r \in Shards \ {s} : /\ mu'[r] = mu[r] /\ shUsed'[r] = shUsed[r]
                          /\ \A k \in ShardKeys(r) : SizeOf(k)' = SizeOf(k)

\* Under ShardBudget no thread is at a label of another strategy.
LEMMA BudgetActions ==
  ASSUME SwitchTo = {}, IInv, WhereInv, strategy = ShardBudget, NEW t \in Clients, Step(t)
  PROVE  \/ clearExpiry(t) \/ Absent(t) \/ Discard(t) \/ Get(t) \/ Exists(t) \/ setExpireAt(t)
         \/ Persist(t) \/ IncrRead(t) \/ IncrSet(t) \/ SetCheck(t) \/ NoEvictCheck(t)
         \/ BudgetFits(t) \/ BudgetEvict(t) \/ WriteRefused(t) \/ WriteUpdate(t) \/ WriteInsert(t)
         \/ noteExpiry(t) \/ FlushScan(t) \/ FlushDel(t) \/ FlushEnd(t)
<1>1. PlaceOK(pc[t], loc[t])
  BY MoveFacts, Zenon DEF Threads
<1>2. pc[t] \notin EvictLabels \cup {"steal", "thief", "unlink", "push", "touch"}
  BY <1>1 DEF PlaceOK, Resumes, EvictLabels, ShardBudget, GlobalTrack, Steal
<1>3. /\ ~ Unlink(t) /\ ~ StealFits(t) /\ ~ StealEvict(t) /\ ~ Thief(t)
      /\ ~ GlobalSpace(t) /\ ~ PickFromList(t) /\ ~ PickStart(t) /\ ~ PickScan(t)
      /\ ~ PickTTL(t) /\ ~ PickTTLSkip(t) /\ ~ PickTTLValidate(t) /\ ~ PickTTLNote(t)
      /\ ~ Evict(t) /\ ~ EvictStale(t) /\ ~ GlobalPush(t) /\ ~ GlobalTouch(t)
  BY <1>2, Zenon DEF Unlink, StealFits, StealEvict, Thief, GlobalSpace, PickFromList, PickStart, PickScan,
              PickTTL, PickTTLSkip, PickTTLValidate, PickTTLNote, Evict, EvictStale, GlobalPush,
              GlobalTouch, EvictLabels
<1> QED BY <1>3, Zenon DEF Step

\* removeFromShard of the entry of k, when the lists of the tenant are not kept.
LEMMA LocalRemoval ==
  ASSUME IInv, strategy = ShardBudget, NEW t, NEW k \in Keys, data[k] # Nil,
         NEW l, NEW then, removeFromShard(t, data[k], l, then)
  PROVE  /\ Elsewhere(ShardOf[k]) /\ ShardOf[k] \in Shards
         /\ \A j \in Keys \ {k} : SizeOf(j)' = SizeOf(j)
         /\ \A r \in Shards : shUsed'[r] <= shUsed[r]
         /\ mu'[ShardOf[k]] = IF KeepsShard(then) THEN t ELSE Nil
         /\ Goto(t, AfterUnlink(then), [l EXCEPT !.vk = k, !.then = then])
<1> DEFINE e == data[k]
           s == ShardOf[k]
<1>0. /\ e \in Entries /\ ent[e].key = k /\ ent[e].size \in 1 .. MaxSize /\ s \in Shards
      /\ data \in [Keys -> Entries \cup {Nil}] /\ shUsed \in [Shards -> Nat]
      /\ mu \in [Shards -> Threads \cup {Nil}]
  BY StoredFacts, Parameters, Zenon DEF IInv, ShardOK, ShardType, GlobalType
<1>1. /\ data' = [data EXCEPT ![k] = Nil] /\ ent' = ent
      /\ shUsed' = [shUsed EXCEPT ![s] = SatSub(@, ent[e].size)]
  BY <1>0, Zenon DEF removeFromShard
<1>2. /\ Goto(t, AfterUnlink(then), [l EXCEPT !.vk = k, !.then = then])
      /\ mu' = [mu EXCEPT ![s] = IF KeepsShard(then) THEN t ELSE Nil]
  BY <1>0 DEF removeFromShard, Holder, ShardBudget, GlobalTrack
<1>3. \A j \in Keys \ {k} : SizeOf(j)' = SizeOf(j)
  BY <1>0, <1>1, Zenon DEF SizeOf
<1>4. \A r \in Shards : shUsed'[r] <= shUsed[r]
  <2>1. SatSub(shUsed[s], ent[e].size) <= shUsed[s]
    <3>1. shUsed[s] \in Nat /\ ent[e].size \in Nat
      BY <1>0, Parameters
    <3> QED BY <3>1 DEF SatSub
  <2> QED BY <1>0, <1>1, <2>1
<1>5. Elsewhere(s)
  <2> SUFFICES ASSUME NEW r \in Shards \ {s}
               PROVE  /\ mu'[r] = mu[r] /\ shUsed'[r] = shUsed[r]
                      /\ \A j \in ShardKeys(r) : SizeOf(j)' = SizeOf(j)
    BY Zenon DEF Elsewhere
  <2>1. \A j \in ShardKeys(r) : j \in Keys \ {k}
    BY Zenon DEF ShardKeys
  <2> QED BY <1>0, <1>1, <1>2, <1>3, <2>1, Zenon
<1> QED BY <1>0, <1>2, <1>3, <1>4, <1>5, Zenon

\* The write of a Set changes its own shard only, by what it has reckoned.
LEMMA LocalWrite ==
  ASSUME IInv, NEW t \in Clients, WriteUpdate(t) \/ WriteInsert(t)
  PROVE  /\ Elsewhere(Shard(t)) /\ Shard(t) \in Shards
         /\ shUsed'[Shard(t)] = shUsed[Shard(t)] - SizeOf(loc[t].key) + loc[t].size
         /\ loc[t].size \in Nat /\ SizeOf(loc[t].key) \in Nat
<1> DEFINE l == loc[t]
           s == Shard(t)
           e == data[l.key]
<1>0. /\ l.key \in Keys /\ l.size \in 1 .. MaxSize /\ s \in Shards /\ s = ShardOf[l.key]
      /\ data \in [Keys -> Entries \cup {Nil}] /\ shUsed \in [Shards -> Nat]
      /\ mu \in [Shards -> Threads \cup {Nil}] /\ MaxSize \in Nat
      /\ ent \in [Entries -> [key : Keys \cup {Nil}, size : Nat, exp : Nat]]
  <2>1. LocOK("write", l)
    BY ThreadFacts, Zenon DEF WriteUpdate, WriteInsert, AtWrite, Threads
  <2>2. l.key \in Keys /\ l.size \in 1 .. MaxSize
    BY <2>1, Zenon DEF LocOK, Resumes, SetLabels, KeyOps
  <2> QED BY <2>2, Parameters, Zenon DEF Shard, IInv, ShardOK, ShardType, GlobalType
<1>1. mu' = [mu EXCEPT ![s] = Nil]
  BY Zenon DEF WriteUpdate, WriteInsert, Holder
<1>2. SizeOf(l.key) \in Nat
  BY <1>0, SizeBounded DEF IInv, ShardOK
<1>3. shUsed' = [shUsed EXCEPT ![s] = @ - SizeOf(l.key) + l.size]
  <2>1. CASE WriteUpdate(t)
    BY <2>1, Zenon DEF WriteUpdate, SizeOf, Found
  <2>2. CASE WriteInsert(t)
    <3>1. SizeOf(l.key) = 0 /\ shUsed' = [shUsed EXCEPT ![s] = @ + l.size]
      BY <2>2, Zenon DEF WriteInsert, SizeOf, Found
    <3>2. shUsed[s] \in Nat /\ l.size \in Nat
      BY <1>0
    <3>3. shUsed[s] + l.size = shUsed[s] - 0 + l.size
      BY <3>2
    <3> QED BY <3>1, <3>3, Zenon
  <2> QED BY <2>1, <2>2, Zenon
<1>4. ASSUME NEW k \in Keys, k # l.key PROVE SizeOf(k)' = SizeOf(k)
  <2>1. CASE WriteUpdate(t)
    <3>1. data' = data /\ e \in Entries /\ e # Nil
      BY <1>0, <2>1, StoredFacts, Zenon DEF WriteUpdate, Found
    <3>2. \A x \in Entries \ {e} : ent'[x] = ent[x]
      BY <1>0, <2>1, Zenon DEF WriteUpdate
    <3>3. data[k] # Nil => data[k] \in Entries \ {e}
      BY <1>0, <1>4, <3>1, KeysApart, Zenon DEF IInv
    <3> QED BY <3>1, <3>2, <3>3, Zenon DEF SizeOf
  <2>2. CASE WriteInsert(t)
    <3>1. data'[k] = data[k]
      BY <1>0, <1>4, <2>2, Zenon DEF WriteInsert
    <3>2. NewEntry \notin InUse
      BY <2>2, Zenon DEF WriteInsert, NewEntry
    <3>3. data[k] # Nil => ent'[data[k]] = ent[data[k]]
      <4>1. data[k] # Nil => data[k] \in Entries /\ data[k] \in InUse
        BY <1>0, StoredFacts, Zenon
      <4> QED BY <2>2, <3>2, <4>1, Zenon DEF WriteInsert
    <3> QED BY <3>1, <3>3, Zenon DEF SizeOf
  <2> QED BY <2>1, <2>2, Zenon
<1>5. Elsewhere(s)
  <2> SUFFICES ASSUME NEW r \in Shards \ {s}
               PROVE  /\ mu'[r] = mu[r] /\ shUsed'[r] = shUsed[r]
                      /\ \A j \in ShardKeys(r) : SizeOf(j)' = SizeOf(j)
    BY Zenon DEF Elsewhere
  <2>1. \A j \in ShardKeys(r) : j \in Keys /\ j # l.key
    BY <1>0, Zenon DEF ShardKeys
  <2> QED BY <1>0, <1>1, <1>3, <1>4, <2>1, Zenon
<1>6. shUsed'[s] = shUsed[s] - SizeOf(l.key) + l.size
  BY <1>0, <1>3, Zenon
<1> QED BY <1>0, <1>2, <1>5, <1>6

\* The step of t changes no shard whose mutex another thread holds, and no counter passes
\* its budget.
Still == /\ mu' = mu /\ shUsed' = shUsed
         /\ \A k \in Keys : SizeOf(k)' = SizeOf(k)

Confined(t) == /\ Still \/ \E s \in Shards : mu[s] \in {t, Nil} /\ Elsewhere(s)
               /\ \A r \in Shards : shUsed'[r] <= budget[r]

\* A thread that moves to another part of the code has nothing to hold.
LEMMA LeavesHold ==
  ASSUME IInv, NEW t \in Threads, NEW a, NEW m, Goto(t, a, m), ~ Holds(a, m)
  PROVE  HoldOK(t)'
<1>1. pc'[t] = a /\ loc'[t] = m
  BY Zenon DEF Goto, IInv, ThreadsOK
<1>2. ~ Holds(pc'[t], loc'[t])
  BY <1>1, Zenon
<1> QED BY <1>2, Zenon DEF HoldOK, Holds, Resumes

\* Budgets are numbers, and so are the counters.
LEMMA BudgetTypes ==
  ASSUME IInv
  PROVE  /\ shUsed \in [Shards -> Nat] /\ mu \in [Shards -> Threads \cup {Nil}]
         /\ \A s \in Shards : budget[s] \in Int
<1>1. MaxMemory \in Nat /\ ShardCount \in Nat \ {0}
  BY StoreAssumption, Parameters, Zenon
<1>2. \A s \in Shards : budget[s] \in Int
  BY <1>1 DEF budget, Shards
<1> QED BY <1>2, Zenon DEF IInv, ShardOK, ShardType, GlobalType

\* The steps that change neither mutexes, nor counters, nor sizes.
LEMMA StillSteps ==
  ASSUME IInv, WhereInv, strategy = ShardBudget, SwitchTo = {}, BudgetRespected, NEW t \in Clients,
         \/ Start(t) \/ Absent(t) \/ Get(t) \/ Exists(t) \/ setExpireAt(t) \/ Persist(t)
         \/ IncrRead(t) \/ IncrSet(t) \/ noteExpiry(t) \/ FlushScan(t) \/ FlushEnd(t)
  PROVE  Confined(t) /\ HoldOK(t)'
<1> DEFINE l == loc[t]
<1>0. /\ t \in Threads /\ LocOK(pc[t], l) /\ l \in LocType /\ ShardBudget # GlobalTrack
      /\ ent \in [Entries -> [key : Keys \cup {Nil}, size : Nat, exp : Nat]]
  BY ThreadFacts, StrategiesDiffer, Zenon DEF Threads, IInv, ShardOK, ShardType
<1>1. mu' = mu /\ shUsed' = shUsed /\ data' = data
  BY Zenon DEF Start, StartSet, StartKeyOp, StartExpire, StartIncr, StartFlush, Starts, Absent, Get, Exists,
         setExpireAt, Persist, IncrRead, IncrSet, noteExpiry, FlushScan, FlushEnd, shardVars
<1>2. \/ ent' = ent
      \/ \E e \in Entries, x \in Nat : ent' = [ent EXCEPT ![e].exp = x]
  <2>1. CASE setExpireAt(t) \/ Persist(t)
    <3>1. data[l.key] \in Entries
      <4>1. l.key \in Keys /\ data[l.key] # Nil
        BY <1>0, <2>1, Zenon DEF setExpireAt, Persist, AtLock, Live, Found, LocOK, KeyOps
      <4> QED BY <4>1, StoredFacts, Zenon
    <3>2. l.exp \in Nat
      BY <1>0, Zenon DEF LocType
    <3> QED BY <2>1, <3>1, <3>2, Zenon DEF setExpireAt, Persist
  <2> QED BY <2>1, Zenon DEF Start, StartSet, StartKeyOp, StartExpire, StartIncr, StartFlush, Starts, Absent,
         Get, Exists, IncrRead, IncrSet, noteExpiry, FlushScan, FlushEnd, shardVars
<1>3. \A e \in Entries : ent'[e].size = ent[e].size
  BY <1>0, <1>2
<1>4. \A k \in Keys : SizeOf(k)' = SizeOf(k)
  BY <1>1, <1>3, StoredFacts, Zenon DEF SizeOf
<1>5. Confined(t)
  BY <1>1, <1>4, Zenon DEF Confined, Still, BudgetRespected
<1>6. \/ \E a \in {"idle", "lock", "f_scan", "f_del", "note", "incr"} : \E m : Goto(t, a, m)
      \/ Goto(t, "clear", [l EXCEPT !.vk = l.key]) /\ l.then = "idle"
  <2>1. CASE Persist(t)
    BY <1>0, <2>1, Zenon DEF Persist, Return, AtLock, LocOK
  <2>2. CASE Start(t)
    BY <2>2, Zenon DEF Start, StartSet, StartKeyOp, StartExpire, StartIncr, StartFlush, SetPrologue, Return
  <2>3. CASE Absent(t) \/ Get(t) \/ Exists(t) \/ setExpireAt(t) \/ noteExpiry(t) \/ FlushEnd(t)
    BY <1>0, <2>3, Zenon DEF Absent, Get, Exists, setExpireAt, noteExpiry, FlushEnd, Return
  <2>4. CASE IncrRead(t) \/ IncrSet(t) \/ FlushScan(t)
    BY <2>4, Zenon DEF IncrRead, IncrSet, FlushScan, SetPrologue, Return
  <2> QED BY <2>1, <2>2, <2>3, <2>4, Zenon
<1>7. HoldOK(t)'
  <2>1. CASE Goto(t, "clear", [l EXCEPT !.vk = l.key]) /\ l.then = "idle"
    <3>1. ~ Holds("clear", [l EXCEPT !.vk = l.key])
      BY <1>0, <2>1, Zenon DEF Holds, Resumes, HoldLabels, LocType
    <3> QED BY <1>0, <2>1, <3>1, LeavesHold, Zenon
  <2>2. CASE \E a \in {"idle", "lock", "f_scan", "f_del", "note", "incr"} : \E m : Goto(t, a, m)
    <3>1. PICK a \in {"idle", "lock", "f_scan", "f_del", "note", "incr"} : \E m : Goto(t, a, m)
      BY <2>2, Zenon
    <3>2. PICK m : Goto(t, a, m)
      BY <3>1, Zenon
    <3>3. ~ Holds(a, m)
      BY Zenon DEF Holds, Resumes, HoldLabels
    <3> QED BY <1>0, <3>2, <3>3, LeavesHold, Zenon
  <2> QED BY <1>6, <2>1, <2>2, Zenon
<1> QED BY <1>5, <1>7, Zenon

\* The removals done with a mutex taken for them: lazy expiry, Del, FlushDB and the worker.
LEMMA FreeRemoval ==
  ASSUME IInv, strategy = ShardBudget, BudgetRespected, NEW t \in Threads, NEW k \in Keys,
         data[k] # Nil, Free(ShardOf[k]), NEW l \in LocType,
         NEW then \in {"idle", "locknow", "incr", "f_del", "w_peek"},
         removeFromShard(t, data[k], l, then)
  PROVE  Confined(t) /\ HoldOK(t)'
<1> DEFINE m == [l EXCEPT !.vk = k, !.then = then]
<1>1. /\ Elsewhere(ShardOf[k]) /\ ShardOf[k] \in Shards
      /\ \A r \in Shards : shUsed'[r] <= shUsed[r]
      /\ Goto(t, AfterUnlink(then), m)
  BY LocalRemoval, Zenon
<1>2. \A r \in Shards : shUsed'[r] <= budget[r]
  <2>1. \A r \in Shards : shUsed'[r] \in Int
    <3> DEFINE s == ShardOf[k]
               n == ent[data[k]].size
    <3>1. n \in Nat /\ ent[data[k]].key = k
      BY StoredFacts, Parameters
    <3>2. shUsed' = [shUsed EXCEPT ![s] = SatSub(@, n)]
      BY <3>1, Zenon DEF removeFromShard
    <3>3. \A r \in Shards : SatSub(shUsed[r], n) \in Int
      BY <3>1, BudgetTypes DEF SatSub
    <3> QED BY <1>1, <3>2, <3>3, BudgetTypes
  <2> QED BY <1>1, <2>1, BudgetTypes DEF BudgetRespected
<1>3. Confined(t)
  BY <1>1, <1>2, Zenon DEF Confined, Free
<1>4. m.then = then
  BY Zenon DEF LocType
<1>5. ~ Holds(AfterUnlink(then), m)
  BY <1>4, Zenon DEF Holds, Resumes, HoldLabels, AfterUnlink
<1> QED BY <1>1, <1>3, <1>5, LeavesHold, Zenon

\* No victim is the entry of the key being written.
LEMMA VictimNotSkipped ==
  ASSUME NEW s, NEW skip, NEW e \in pickLocalVictim(s, skip)
  PROVE  ent[e].key # skip
<1>1. \A seq : \A x \in FirstVictim(seq, skip) : ent[x].key # skip
  BY Zenon DEF FirstVictim
<1>2. e \in ttlPick(s, skip) \cup rndPick(s, skip) \cup lfuPick(s, skip) => ent[e].key # skip
  BY Zenon DEF ttlPick, rndPick, lfuPick
<1> QED BY <1>1, <1>2, Zenon DEF pickLocalVictim

\* The key, the size and the shard of a Set.
LEMMA SetFacts ==
  ASSUME IInv, NEW t \in Clients, loc[t].op = "set"
  PROVE  /\ t \in Threads /\ loc[t] \in LocType /\ loc[t].key \in Keys
         /\ loc[t].size \in Nat /\ Shard(t) \in Shards /\ Shard(t) = ShardOf[loc[t].key]
         /\ SizeOf(loc[t].key) \in Nat
<1>1. t \in Threads /\ loc[t] \in LocType /\ LocOK(pc[t], loc[t])
  BY ThreadFacts, Zenon DEF Threads
<1>2. loc[t].key \in Keys /\ loc[t].size \in 1 .. MaxSize /\ MaxSize \in Nat
  BY <1>1, Parameters, Zenon DEF LocOK, KeyOps
<1>3. SizeOf(loc[t].key) \in Nat
  BY <1>2, SizeBounded DEF IInv, ShardOK
<1> QED BY <1>1, <1>2, <1>3, Parameters DEF Shard

\* The size of the entry of k after the step.
SizeNext(k) == IF data'[k] = Nil THEN 0 ELSE ent'[data'[k]].size

\* A thread that moves and keeps what it holds.
LEMMA KeepsHold ==
  ASSUME IInv, NEW t \in Threads, NEW a, NEW m, Goto(t, a, m),
         mu'[ShardOf[m.key]] = t,
         m.need = SatSub(m.size, SizeNext(m.key)),
         a = "write" => shUsed'[ShardOf[m.key]] + m.need <= budget[ShardOf[m.key]]
  PROVE  HoldOK(t)'
<1>1. pc'[t] = a /\ loc'[t] = m
  BY Zenon DEF Goto, IInv, ThreadsOK
<1>2. /\ mu'[ShardOf[loc'[t].key]] = t
      /\ loc'[t].need = SatSub(loc'[t].size, SizeNext(m.key))
      /\ pc'[t] = "write" =>
           shUsed'[ShardOf[loc'[t].key]] + loc'[t].need <= budget[ShardOf[loc'[t].key]]
  BY <1>1, Zenon
<1>3. loc'[t].need = SatSub(loc'[t].size, SizeNext(loc'[t].key))
  BY <1>1, <1>2, Zenon
<1> QED BY <1>2, <1>3, Zenon DEF HoldOK, Shard, SizeOf, SizeNext, budget, Shards

\* SetCheck takes the mutex and reckons what the write will add.
LEMMA CheckHolds ==
  ASSUME IInv, strategy = ShardBudget, BudgetRespected, NEW t \in Clients, SetCheck(t)
  PROVE  Confined(t) /\ HoldOK(t)'
<1> DEFINE l == loc[t]
           s == Shard(t)
           m == [l EXCEPT !.need = Need(t),
                   !.exp = IF l.mode = "keep" /\ Found(t) THEN ent[data[l.key]].exp ELSE @]
<1>0. /\ t \in Threads /\ l \in LocType /\ l.key \in Keys /\ s \in Shards /\ s = ShardOf[l.key]
      /\ mu \in [Shards -> Threads \cup {Nil}]
  BY SetFacts, BudgetTypes, Zenon DEF SetCheck
<1>1. data' = data /\ ent' = ent /\ shUsed' = shUsed
  BY Zenon DEF SetCheck, shardVars
<1>2. \A k \in Keys : SizeOf(k)' = SizeOf(k) /\ SizeNext(k) = SizeOf(k)
  BY <1>1, Zenon DEF SizeOf, SizeNext
<1>3. mu[s] = Nil /\ \A r \in Shards \ {s} : mu'[r] = mu[r]
  BY <1>0, Zenon DEF SetCheck, Free, Holder
<1>4. Elsewhere(s)
  BY <1>1, <1>2, <1>3, Zenon DEF Elsewhere, ShardKeys
<1>5. Confined(t)
  BY <1>0, <1>1, <1>3, <1>4, Zenon DEF Confined, BudgetRespected
<1>6. CASE Return(t)
  <2>1. ~ Holds("idle", NoLoc)
    BY Zenon DEF Holds, Resumes, HoldLabels
  <2> QED BY <1>0, <1>5, <1>6, <2>1, LeavesHold, Zenon DEF Return
<1>7. CASE ~ Return(t)
  <2>1. \E a \in {"noevict", "budget"} : Goto(t, a, m) /\ mu'[s] = t
    BY <1>0, <1>7 DEF SetCheck, Holder, ShardBudget, GlobalTrack, Steal
  <2>2. PICK a \in {"noevict", "budget"} : Goto(t, a, m) /\ mu'[s] = t
    BY <2>1, Zenon
  <2>3. m.key = l.key /\ m.size = l.size /\ m.need = Need(t)
    BY <1>0, Zenon DEF LocType
  <2>4. Need(t) = SatSub(l.size, SizeOf(l.key))
    BY Zenon DEF Need, OldSize, SizeOf, Found
  <2>5. m.need = SatSub(m.size, SizeNext(m.key))
    BY <1>0, <1>2, <2>3, <2>4, Zenon
  <2>6. HoldOK(t)'
    BY <1>0, <2>2, <2>3, <2>5, KeepsHold, Zenon
  <2> QED BY <1>5, <2>6, Zenon
<1> QED BY <1>6, <1>7, Zenon

\* The checks of ensureSpace that give up, or find room under the mutex they hold.
LEMMA RoomHolds ==
  ASSUME IInv, strategy = ShardBudget, BudgetRespected, NEW t \in Clients, HoldOK(t),
         NoEvictCheck(t) \/ BudgetFits(t)
  PROVE  Confined(t) /\ HoldOK(t)'
<1> DEFINE l == loc[t]
           s == Shard(t)
<1>a. l.op = "set" /\ Holds(pc[t], l)
  <2>1. t \in Threads /\ LocOK(pc[t], l) /\ pc[t] \in {"noevict", "budget"}
    BY ThreadFacts, Zenon DEF NoEvictCheck, BudgetFits, Threads
  <2> QED BY <2>1, Zenon DEF LocOK, Resumes, SetLabels, Holds, HoldLabels
<1>0. /\ t \in Threads /\ l.key \in Keys /\ s \in Shards /\ s = ShardOf[l.key] /\ l \in LocType
      /\ mu \in [Shards -> Threads \cup {Nil}] /\ shUsed[s] \in Nat /\ budget[s] \in Int
      /\ l.need \in Nat
  BY <1>a, SetFacts, BudgetTypes, Zenon DEF LocType
<1>b. mu[s] = t /\ l.need = SatSub(l.size, SizeOf(l.key))
  BY <1>a, ZenonT(30) DEF HoldOK
<1>1. data' = data /\ ent' = ent /\ shUsed' = shUsed
  BY Zenon DEF NoEvictCheck, BudgetFits, shardVars
<1>2. \A k \in Keys : SizeOf(k)' = SizeOf(k) /\ SizeNext(k) = SizeOf(k)
  BY <1>1, Zenon DEF SizeOf, SizeNext
<1>3. \A r \in Shards \ {s} : mu'[r] = mu[r]
  BY <1>0, Zenon DEF NoEvictCheck, BudgetFits, Holder
<1>4. Elsewhere(s)
  BY <1>1, <1>2, <1>3, Zenon DEF Elsewhere, ShardKeys
<1>5. Confined(t)
  BY <1>0, <1>b, <1>1, <1>4, ZenonT(30) DEF Confined, BudgetRespected
<1>6. \/ Return(t)
      \/ Goto(t, "write", l) /\ mu' = mu /\ shUsed[s] + l.need <= budget[s]
  <2>1. ~(shUsed[s] + l.need > budget[s]) => shUsed[s] + l.need <= budget[s]
    BY <1>0, NotOver, Zenon
  <2> QED BY <2>1, Zenon DEF NoEvictCheck, BudgetFits
<1>7. CASE Return(t)
  <2>1. ~ Holds("idle", NoLoc)
    BY Zenon DEF Holds, Resumes, HoldLabels
  <2> QED BY <1>0, <1>5, <1>7, <2>1, LeavesHold, Zenon DEF Return
<1>8. CASE Goto(t, "write", l) /\ mu' = mu /\ shUsed[s] + l.need <= budget[s]
  <2>1. /\ mu'[ShardOf[l.key]] = t /\ l.need = SatSub(l.size, SizeNext(l.key))
        /\ shUsed'[ShardOf[l.key]] + l.need <= budget[ShardOf[l.key]]
    BY <1>0, <1>b, <1>1, <1>2, <1>8, Zenon
  <2>2. HoldOK(t)'
    BY <1>0, <1>8, <2>1, KeepsHold, Zenon
  <2> QED BY <1>5, <2>2, Zenon
<1> QED BY <1>6, <1>7, <1>8, Zenon

\* BudgetEvict removes another key of the shard whose mutex it holds, or gives up.
LEMMA EvictHolds ==
  ASSUME IInv, strategy = ShardBudget, BudgetRespected, NEW t \in Clients, HoldOK(t), BudgetEvict(t)
  PROVE  Confined(t) /\ HoldOK(t)'
<1> DEFINE l == loc[t]
           s == Shard(t)
<1>a. l.op = "set" /\ Holds(pc[t], l)
  <2>1. t \in Threads /\ LocOK(pc[t], l) /\ pc[t] = "budget"
    BY ThreadFacts, Zenon DEF BudgetEvict, Threads
  <2> QED BY <2>1, Zenon DEF LocOK, Resumes, SetLabels, Holds, HoldLabels
<1>0. /\ t \in Threads /\ l.key \in Keys /\ s \in Shards /\ s = ShardOf[l.key] /\ l \in LocType
      /\ mu \in [Shards -> Threads \cup {Nil}] /\ shUsed \in [Shards -> Nat]
      /\ \A r \in Shards : budget[r] \in Int
  BY <1>a, SetFacts, BudgetTypes, ZenonT(30)
<1>b. mu[s] = t /\ l.need = SatSub(l.size, SizeOf(l.key))
  BY <1>a, Zenon DEF HoldOK
<1>1. CASE Return(t) /\ Holder(s, Nil) /\ UNCHANGED shardVars
  <2>1. data' = data /\ ent' = ent /\ shUsed' = shUsed
    BY <1>1, Zenon DEF shardVars
  <2>2. \A k \in Keys : SizeOf(k)' = SizeOf(k)
    BY <2>1, Zenon DEF SizeOf
  <2>3. \A r \in Shards \ {s} : mu'[r] = mu[r]
    BY <1>0, <1>1, Zenon DEF Holder
  <2>4. Elsewhere(s)
    BY <2>1, <2>2, <2>3, Zenon DEF Elsewhere, ShardKeys
  <2>5. Confined(t)
    BY <1>0, <1>b, <2>1, <2>4, Zenon DEF Confined, BudgetRespected
  <2>6. ~ Holds("idle", NoLoc)
    BY Zenon DEF Holds, Resumes, HoldLabels
  <2> QED BY <1>0, <1>1, <2>5, <2>6, LeavesHold, Zenon DEF Return
<1>2. ASSUME NEW e \in pickLocalVictim(s, l.key), removeFromShard(t, e, l, "budget")
      PROVE  Confined(t) /\ HoldOK(t)'
  <2>1. PICK k \in Keys : data[k] = e /\ e # Nil /\ ShardOf[k] = s /\ ent[e].key = k
    <3>1. s \in Shards
      BY <1>0, Zenon
    <3> QED BY <3>1, VictimIsStored
  <2>2. k # l.key
    BY <1>2, <2>1, VictimNotSkipped, Zenon
  <2> DEFINE m == [l EXCEPT !.vk = k, !.then = "budget"]
  <2>3. removeFromShard(t, data[k], l, "budget")
    BY <1>2, <2>1, Zenon
  <2>4. /\ Elsewhere(s)
        /\ \A j \in Keys \ {k} : SizeOf(j)' = SizeOf(j)
        /\ \A r \in Shards : shUsed'[r] <= shUsed[r]
        /\ mu'[s] = IF KeepsShard("budget") THEN t ELSE Nil
        /\ Goto(t, AfterUnlink("budget"), m)
    BY <2>1, <2>3, LocalRemoval, Zenon
  <2>5. mu'[s] = t /\ Goto(t, "clear", m)
    BY <2>4, Zenon DEF KeepsShard, AfterUnlink
  <2>6. \A r \in Shards : shUsed'[r] <= budget[r]
    <3>1. ent[e].size \in Nat
      BY <2>1, StoredFacts, Parameters
    <3>2. shUsed' = [shUsed EXCEPT ![s] = SatSub(@, ent[e].size)]
      BY <2>1, <2>3, ZenonT(30) DEF removeFromShard
    <3>3. \A r \in Shards : SatSub(shUsed[r], ent[e].size) \in Int
      BY <1>0, <3>1 DEF SatSub
    <3>4. \A r \in Shards : shUsed'[r] \in Int
      BY <1>0, <3>2, <3>3
    <3> QED BY <1>0, <2>4, <3>4 DEF BudgetRespected
  <2>7. Confined(t)
    BY <1>0, <1>b, <2>4, <2>6, Zenon DEF Confined
  <2>8. m.key = l.key /\ m.size = l.size /\ m.need = l.need
    BY <1>0, Zenon DEF LocType
  <2>9. SizeNext(l.key) = SizeOf(l.key)
    <3>1. \A j \in Keys \ {k} : SizeNext(j) = SizeOf(j)
      BY <2>4, Zenon DEF SizeOf, SizeNext
    <3> QED BY <1>0, <2>2, <3>1, Zenon
  <2>10. m.need = SatSub(m.size, SizeNext(m.key)) /\ mu'[ShardOf[m.key]] = t
    BY <1>0, <1>b, <2>5, <2>8, <2>9, Zenon
  <2>11. HoldOK(t)'
    BY <1>0, <2>5, <2>10, KeepsHold, Zenon
  <2> QED BY <2>7, <2>11, Zenon
<1> QED BY <1>1, <1>2, Zenon DEF BudgetEvict

\* clearExpiry returns to the loop of ensureSpace with the mutex still held.
LEMMA ClearHolds ==
  ASSUME SwitchTo = {}, IInv, WhereInv, strategy = ShardBudget, BudgetRespected, NEW t \in Threads,
         t \in Clients => HoldOK(t), clearExpiry(t)
  PROVE  Confined(t) /\ (t \in Clients => HoldOK(t)')
<1> DEFINE l == loc[t]
           m == [l EXCEPT !.vk = Nil, !.then = "idle", !.scan = 0]
<1>0. l \in LocType /\ LocOK("clear", l) /\ PlaceOK("clear", l) /\ pc[t] = "clear"
  BY MoveFacts, Zenon DEF clearExpiry
<1>1. l.then \in {"idle", "locknow", "incr", "budget", "f_del", "w_peek"}
  <2>1. l.then \in {"idle", "locknow", "incr", "budget", "steal", "thief", "gspace", "pick",
                    "f_del", "w_peek"}
    BY <1>0, Zenon DEF LocOK
  <2>2. l.then \notin {"steal", "thief", "gspace", "pick"}
    BY <1>0 DEF PlaceOK, Resumes, EvictLabels, ShardBudget, GlobalTrack, Steal
  <2> QED BY <2>1, <2>2, Zenon
<1>2. /\ mu' = mu /\ shUsed' = shUsed /\ data' = data /\ ent' = ent
      /\ IF l.then = "idle" THEN Return(t) ELSE Goto(t, l.then, m)
  BY <1>1, Zenon DEF clearExpiry, shardVars
<1>3. \A k \in Keys : SizeOf(k)' = SizeOf(k) /\ SizeNext(k) = SizeOf(k)
  BY <1>2, Zenon DEF SizeOf, SizeNext
<1>4. Confined(t)
  BY <1>2, <1>3, Zenon DEF Confined, Still, BudgetRespected
<1>5. CASE l.then = "idle"
  <2>1. ~ Holds("idle", NoLoc)
    BY Zenon DEF Holds, Resumes, HoldLabels
  <2> QED BY <1>2, <1>4, <1>5, <2>1, LeavesHold, Zenon DEF Return
<1>6. CASE l.then \in {"locknow", "incr", "f_del", "w_peek"}
  <2>1. ~ Holds(l.then, m)
    BY <1>6, Zenon DEF Holds, Resumes, HoldLabels
  <2> QED BY <1>2, <1>4, <1>6, <2>1, LeavesHold, Zenon
<1>7. CASE l.then = "budget" /\ t \in Clients
  <2>1. l.op = "set" /\ Holds(pc[t], l)
    BY <1>0, <1>7, Zenon DEF LocOK, Resumes, SetLabels, Holds, HoldLabels
  <2>2. l.key \in Keys /\ Shard(t) = ShardOf[l.key]
    BY <1>7, <2>1, SetFacts, Zenon
  <2>3. mu[ShardOf[l.key]] = t /\ l.need = SatSub(l.size, SizeOf(l.key))
    BY <1>7, <2>1, <2>2, Zenon DEF HoldOK
  <2>4. m.key = l.key /\ m.size = l.size /\ m.need = l.need
    BY <1>0, Zenon DEF LocType
  <2>5. mu'[ShardOf[m.key]] = t /\ m.need = SatSub(m.size, SizeNext(m.key))
    BY <1>2, <1>3, <2>2, <2>3, <2>4, Zenon
  <2>6. Goto(t, "budget", m)
    BY <1>2, <1>7, Zenon
  <2> QED BY <1>4, <2>5, <2>6, KeepsHold, Zenon
<1> QED BY <1>1, <1>4, <1>5, <1>6, <1>7, Zenon

\* The write adds what was reckoned, for which there is room.
LEMMA WriteHolds ==
  ASSUME IInv, strategy = ShardBudget, BudgetRespected, NEW t \in Clients, HoldOK(t),
         WriteRefused(t) \/ WriteUpdate(t) \/ WriteInsert(t)
  PROVE  Confined(t) /\ HoldOK(t)'
<1> DEFINE l == loc[t]
           s == Shard(t)
           old == SizeOf(l.key)
<1>a. l.op = "set" /\ Holds(pc[t], l) /\ pc[t] = "write"
  <2>1. t \in Threads /\ LocOK(pc[t], l) /\ pc[t] = "write"
    BY ThreadFacts, Zenon DEF WriteRefused, WriteUpdate, WriteInsert, AtWrite, Threads
  <2> QED BY <2>1, Zenon DEF LocOK, Resumes, SetLabels, Holds, HoldLabels
<1>0. /\ t \in Threads /\ l \in LocType /\ l.key \in Keys /\ s \in Shards /\ s = ShardOf[l.key]
      /\ mu \in [Shards -> Threads \cup {Nil}] /\ shUsed \in [Shards -> Nat]
      /\ \A r \in Shards : budget[r] \in Int
      /\ l.size \in Nat /\ old \in Nat
  BY <1>a, SetFacts, BudgetTypes, Zenon
<1>b. mu[s] = t /\ l.need = SatSub(l.size, old) /\ shUsed[s] + l.need <= budget[s]
  BY <1>a, ZenonT(30) DEF HoldOK
<1>1. HoldOK(t)'
  <2>1. \E a \in {"idle", "note"} : \E m : Goto(t, a, m)
    <3>0. strategy # GlobalTrack
      BY DEF ShardBudget, GlobalTrack
    <3>1. CASE WriteRefused(t)
      BY <3>1, Zenon DEF WriteRefused, Return
    <3>2. CASE WriteUpdate(t)
      BY <3>0, <3>2, Zenon DEF WriteUpdate
    <3>3. CASE WriteInsert(t)
      BY <3>0, <3>3, Zenon DEF WriteInsert
    <3> QED BY <3>1, <3>2, <3>3, Zenon
  <2>2. PICK a \in {"idle", "note"} : \E m : Goto(t, a, m)
    BY <2>1, Zenon
  <2>3. PICK m : Goto(t, a, m)
    BY <2>2, Zenon
  <2>4. ~ Holds(a, m)
    BY Zenon DEF Holds, Resumes, HoldLabels
  <2> QED BY <1>0, <2>3, <2>4, LeavesHold, Zenon
<1>2. CASE WriteRefused(t)
  <2>1. data' = data /\ ent' = ent /\ shUsed' = shUsed /\ mu' = [mu EXCEPT ![s] = Nil]
    BY <1>2, Zenon DEF WriteRefused, shardVars, Holder
  <2>2. \A k \in Keys : SizeOf(k)' = SizeOf(k)
    BY <2>1, Zenon DEF SizeOf
  <2>3. Elsewhere(s)
    BY <1>0, <2>1, <2>2, Zenon DEF Elsewhere, ShardKeys
  <2>4. Confined(t)
    BY <1>0, <1>b, <2>1, <2>3, Zenon DEF Confined, BudgetRespected
  <2> QED BY <1>1, <2>4, Zenon
<1>3. CASE WriteUpdate(t) \/ WriteInsert(t)
  <2>1. Elsewhere(s) /\ shUsed'[s] = shUsed[s] - old + l.size
    BY <1>3, LocalWrite, ZenonT(30)
  <2>2. shUsed[s] - old + l.size <= budget[s]
    <3>1. shUsed[s] \in Nat /\ budget[s] \in Int /\ shUsed[s] <= budget[s]
      BY <1>0, Zenon DEF BudgetRespected
    <3> QED BY <1>0, <1>b, <3>1, ReplacedFits, Zenon
  <2>3. \A r \in Shards \ {s} : shUsed'[r] <= budget[r]
    BY <2>1, Zenon DEF Elsewhere, BudgetRespected
  <2>4. Confined(t)
    BY <1>0, <1>b, <2>1, <2>2, <2>3, Zenon DEF Confined
  <2> QED BY <1>1, <2>4, Zenon
<1> QED BY <1>2, <1>3, Zenon

\* Discard and FlushDel of a client.
LEMMA ClientRemovals ==
  ASSUME IInv, strategy = ShardBudget, BudgetRespected, NEW t \in Clients, Discard(t) \/ FlushDel(t)
  PROVE  Confined(t) /\ HoldOK(t)'
<1> DEFINE l == loc[t]
<1>0. t \in Threads /\ l \in LocType /\ LocOK(pc[t], l)
  BY ThreadFacts, ZenonT(30) DEF Threads
<1>1. CASE Discard(t)
  <2> DEFINE then == CASE l.op = "set" -> "locknow" [] l.op = "incr" -> "incr" [] OTHER -> "idle"
  <2>1. /\ l.key \in Keys /\ data[l.key] # Nil /\ Free(ShardOf[l.key])
        /\ removeFromShard(t, data[l.key], l, then)
    BY <1>0, <1>1, Zenon DEF Discard, AtLock, Found, Shard, LocOK, KeyOps
  <2>2. then \in {"idle", "locknow", "incr", "f_del", "w_peek"}
    BY Zenon
  <2> HIDE DEF then
  <2> QED BY <1>0, <2>1, <2>2, FreeRemoval, Zenon
<1>2. CASE FlushDel(t)
  <2>1. PICK k \in l.todo :
          LET m == [l EXCEPT !.todo = @ \ {k}]
          IN  /\ Free(ShardOf[k])
              /\ IF data[k] # Nil THEN removeFromShard(t, data[k], m, "f_del")
                 ELSE /\ Goto(t, "f_del", m)
                      /\ UNCHANGED <<shardVars, used, globalVars, expH, mu, strategy, policy, clock, left>>
    BY <1>2, Zenon DEF FlushDel
  <2> DEFINE m == [l EXCEPT !.todo = @ \ {k}]
  <2>2. k \in Keys /\ m \in LocType
    BY <1>0, Zenon DEF LocType
  <2>3. CASE data[k] # Nil
    BY <1>0, <2>1, <2>2, <2>3, FreeRemoval, Zenon
  <2>4. CASE data[k] = Nil
    <3>1. Goto(t, "f_del", m) /\ mu' = mu /\ shUsed' = shUsed /\ data' = data /\ ent' = ent
      BY <2>1, <2>4, Zenon DEF shardVars
    <3>2. Confined(t)
      BY <3>1, Zenon DEF Confined, Still, SizeOf, BudgetRespected
    <3>3. ~ Holds("f_del", m)
      BY Zenon DEF Holds, Resumes, HoldLabels
    <3> QED BY <1>0, <3>1, <3>2, <3>3, LeavesHold, Zenon
  <2> QED BY <2>3, <2>4, Zenon
<1> QED BY <1>1, <1>2, Zenon

\* Every step of a client.
LEMMA ClientConfined ==
  ASSUME SwitchTo = {}, IInv, WhereInv, strategy = ShardBudget, BudgetInv, NEW t \in Clients,
         Start(t) \/ Step(t)
  PROVE  Confined(t) /\ HoldOK(t)'
<1>0. BudgetRespected /\ HoldOK(t) /\ t \in Threads
  BY Zenon DEF BudgetInv, Threads
<1>1. CASE Start(t)
  BY <1>0, <1>1, StillSteps, Zenon
<1>2. CASE Step(t)
  <2>1. CASE \/ Absent(t) \/ Get(t) \/ Exists(t) \/ setExpireAt(t) \/ Persist(t) \/ IncrRead(t)
             \/ IncrSet(t) \/ noteExpiry(t) \/ FlushScan(t) \/ FlushEnd(t)
    BY <1>0, <2>1, StillSteps, Zenon
  <2>2. CASE Discard(t) \/ FlushDel(t)
    BY <1>0, <2>2, ClientRemovals, Zenon
  <2>3. CASE clearExpiry(t)
    BY <1>0, <2>3, ClearHolds, Zenon
  <2>4. CASE SetCheck(t)
    BY <1>0, <2>4, CheckHolds, Zenon
  <2>5. CASE NoEvictCheck(t) \/ BudgetFits(t)
    BY <1>0, <2>5, RoomHolds, Zenon
  <2>6. CASE BudgetEvict(t)
    BY <1>0, <2>6, EvictHolds, Zenon
  <2>7. CASE WriteRefused(t) \/ WriteUpdate(t) \/ WriteInsert(t)
    BY <1>0, <2>7, WriteHolds, Zenon
  <2> QED BY <1>2, <2>1, <2>2, <2>3, <2>4, <2>5, <2>6, <2>7, BudgetActions, Zenon
<1> QED BY <1>1, <1>2, Zenon

\* A worker step is confined in the same way.
LEMMA WorkerConfined ==
  ASSUME SwitchTo = {}, IInv, WhereInv, strategy = ShardBudget, BudgetRespected, WorkerStep
  PROVE  Confined(Worker)
<1> DEFINE l == loc[Worker]
<1>0. Worker \in Threads /\ l \in LocType /\ LocOK(pc[Worker], l) /\ PlaceOK(pc[Worker], l)
  <2>1. Worker \in Threads
    BY Zenon DEF Threads
  <2> QED BY <2>1, MoveFacts, Zenon
<1>1. ~ Unlink(Worker)
  BY <1>0 DEF Unlink, PlaceOK, ShardBudget, GlobalTrack
<1>2. CASE clearExpiry(Worker)
  <2>1. Worker \notin Clients
    BY StoreAssumption, Zenon
  <2> QED BY <1>0, <1>2, <2>1, ClearHolds, Zenon
<1>3. CASE deleteIfExpired /\ Found(Worker) /\ ~ Live(Worker)
  <2> DEFINE m == [l EXCEPT !.at = 0]
  <2>1. /\ l.key \in Keys /\ data[l.key] # Nil /\ Free(ShardOf[l.key])
        /\ removeFromShard(Worker, data[l.key], m, "w_peek")
    BY <1>0, <1>3, Zenon DEF deleteIfExpired, Found, Shard, LocOK
  <2>2. m \in LocType
    BY <1>0, Zenon DEF LocType
  <2> QED BY <1>0, <2>1, <2>2, FreeRemoval, Zenon
<1>4. CASE \/ WorkerTick \/ WorkerPeek \/ WorkerDrop
           \/ deleteIfExpired /\ ~ (Found(Worker) /\ ~ Live(Worker))
  <2>1. mu' = mu /\ shUsed' = shUsed /\ data' = data /\ ent' = ent
    BY <1>4, Zenon DEF WorkerTick, WorkerPeek, WorkerDrop, deleteIfExpired, shardVars
  <2> QED BY <2>1, Zenon DEF Confined, Still, SizeOf, BudgetRespected
<1> QED BY <1>1, <1>2, <1>3, <1>4, Zenon DEF WorkerStep

\* What a Set holds is out of reach of the steps of the other threads.
LEMMA OthersHold ==
  ASSUME IInv, NEW u \in Threads, Confined(u), NEW t \in Clients, t # u, HoldOK(t),
         pc'[t] = pc[t], loc'[t] = loc[t]
  PROVE  HoldOK(t)'
<1> DEFINE l == loc[t]
<1>1. CASE ~ Holds(pc[t], l)
  <2>1. ~ Holds(pc'[t], loc'[t])
    BY <1>1, Zenon
  <2> QED BY <2>1, Zenon DEF HoldOK, Holds, Resumes
<1>2. CASE Holds(pc[t], l)
  <2>1. l.op = "set"
    <3>1. LocOK(pc[t], l)
      BY ThreadFacts, Zenon DEF Threads
    <3> QED BY <1>2, <3>1, Zenon DEF LocOK, Holds, HoldLabels, SetLabels
  <2>2. /\ t \in Threads /\ l.key \in Keys /\ Shard(t) \in Shards /\ Shard(t) = ShardOf[l.key]
    BY <2>1, SetFacts, Zenon
  <2>3. /\ mu[Shard(t)] = t /\ l.need = SatSub(l.size, SizeOf(l.key))
        /\ pc[t] = "write" => shUsed[Shard(t)] + l.need <= budget[Shard(t)]
    BY <1>2, Zenon DEF HoldOK
  <2>4. t # Nil
    BY <2>2, StoreAssumption, Zenon DEF Threads
  <2>5. /\ mu'[Shard(t)] = mu[Shard(t)] /\ shUsed'[Shard(t)] = shUsed[Shard(t)]
        /\ SizeNext(l.key) = SizeOf(l.key)
    <3>1. CASE Still
      <4>1. \A k \in Keys : SizeNext(k) = SizeOf(k)
        BY <3>1, Zenon DEF Still, SizeOf, SizeNext
      <4> QED BY <2>2, <3>1, <4>1, Zenon DEF Still
    <3>2. ASSUME NEW s \in Shards, mu[s] \in {u, Nil}, Elsewhere(s)
          PROVE  /\ mu'[Shard(t)] = mu[Shard(t)] /\ shUsed'[Shard(t)] = shUsed[Shard(t)]
                 /\ SizeNext(l.key) = SizeOf(l.key)
      <4>1. Shard(t) \in Shards \ {s} /\ l.key \in ShardKeys(Shard(t))
        BY <2>2, <2>3, <2>4, <3>2, Zenon DEF ShardKeys
      <4>2. \A r \in Shards \ {s} : /\ mu'[r] = mu[r] /\ shUsed'[r] = shUsed[r]
                                     /\ \A k \in ShardKeys(r) : SizeNext(k) = SizeOf(k)
        BY <3>2, Zenon DEF Elsewhere, SizeOf, SizeNext
      <4> QED BY <4>1, <4>2, Zenon
    <3> QED BY <3>1, <3>2, Zenon DEF Confined
  <2>6. /\ mu'[ShardOf[loc'[t].key]] = t
        /\ loc'[t].need = SatSub(loc'[t].size, SizeNext(loc'[t].key))
        /\ pc'[t] = "write" =>
             shUsed'[ShardOf[loc'[t].key]] + loc'[t].need <= budget[ShardOf[loc'[t].key]]
    BY <2>2, <2>3, <2>5, Zenon
  <2> QED BY <2>6, Zenon DEF HoldOK, Shard, SizeOf, SizeNext, budget, Shards
<1> QED BY <1>1, <1>2, Zenon

\* Every step keeps the invariant.
LEMMA BudgetStep ==
  ASSUME SwitchTo = {}, IInv, WhereInv, BudgetInv, [Next]_vars
  PROVE  BudgetInv'
<1>0. ~ (SwitchStart \/ AdminStep)
  BY SwitchMoves, Zenon DEF AdminStep
<1>1. ASSUME NEW u \in Threads, Confined(u), u \in Clients => HoldOK(u)',
             strategy' = strategy, strategy = ShardBudget,
             \A t \in Threads \ {u} : pc'[t] = pc[t] /\ loc'[t] = loc[t]
      PROVE  BudgetInv'
  <2>1. BudgetRespected'
    BY <1>1, Zenon DEF BudgetRespected, Confined, budget, Shards
  <2>2. ASSUME NEW t \in Clients PROVE HoldOK(t)'
    <3>1. HoldOK(t) /\ t \in Threads
      BY <1>1, Zenon DEF BudgetInv, Threads
    <3>2. CASE t = u
      BY <1>1, <3>2, Zenon
    <3>3. CASE t # u
      BY <1>1, <3>1, <3>3, OthersHold, Zenon
    <3> QED BY <3>2, <3>3, Zenon
  <2> QED BY <2>1, <2>2, Zenon DEF BudgetInv
<1>2. CASE strategy # ShardBudget
  <2>1. strategy' = strategy
    <3>1. CASE \E t \in Clients : Start(t) \/ Step(t)
      BY <3>1, StepFrame, Zenon DEF Start, StartSet, StartKeyOp, StartExpire, StartIncr, StartFlush, Starts
    <3>2. CASE WorkerStep
      BY <3>2, Zenon DEF WorkerStep, Unlink, clearExpiry, WorkerTick, WorkerPeek, deleteIfExpired,
                  WorkerDrop, removeFromShard
    <3>3. CASE Advance \/ Done \/ UNCHANGED vars
      BY <3>3, Zenon DEF Advance, Done, vars
    <3> QED BY <1>0, <3>1, <3>2, <3>3, Zenon DEF Next
  <2> QED BY <1>2, <2>1, Zenon DEF BudgetInv
<1>3. ASSUME NEW t \in Clients, Start(t) \/ Step(t), strategy = ShardBudget
      PROVE  BudgetInv'
  <2>1. t \in Threads
    BY Zenon DEF Threads
  <2>2. \A u \in Threads \ {t} : pc'[u] = pc[u] /\ loc'[u] = loc[u]
    BY <1>3, <2>1, MovesOne, StartMoves, StepMoves, Zenon
  <2>3. strategy' = strategy
    BY <1>3, StepFrame, Zenon DEF Start, StartSet, StartKeyOp, StartExpire, StartIncr, StartFlush, Starts
  <2> QED BY <1>1, <1>3, <2>1, <2>2, <2>3, ClientConfined, Zenon
<1>4. CASE WorkerStep /\ strategy = ShardBudget
  <2>1. Worker \in Threads /\ Worker \notin Clients
    BY StoreAssumption, Zenon DEF Threads
  <2>2. \A u \in Threads \ {Worker} : pc'[u] = pc[u] /\ loc'[u] = loc[u]
    BY <1>4, <2>1, MovesOne, AfterRemovalMoves, WorkerMoves, Zenon DEF WorkerStep
  <2>3. strategy' = strategy
    BY <1>4, Zenon DEF WorkerStep, Unlink, clearExpiry, WorkerTick, WorkerPeek, deleteIfExpired,
                WorkerDrop, removeFromShard
  <2>4. BudgetRespected
    BY <1>4, Zenon DEF BudgetInv
  <2> QED BY <1>1, <1>4, <2>1, <2>2, <2>3, <2>4, WorkerConfined, Zenon
<1>5. CASE Advance \/ Done \/ UNCHANGED vars
  <2>1. UNCHANGED <<data, ent, shUsed, mu, strategy, pc, loc>>
    BY <1>5, Zenon DEF Advance, Done, vars, shardVars
  <2> QED BY <2>1, Zenon DEF BudgetInv, BudgetRespected, HoldOK, Holds, Resumes, Shard, SizeOf
<1> QED BY <1>0, <1>2, <1>3, <1>4, <1>5, Zenon DEF Next

\* Initially nothing is stored and nothing is under way.
LEMMA BudgetInit == Init => BudgetInv
<1> SUFFICES ASSUME Init PROVE BudgetInv
  BY Zenon
<1>1. /\ \A s \in Shards : shUsed[s] = 0
      /\ \A t \in Clients : pc[t] = "idle"
  BY Zenon DEF Init, Threads
<1>2. \A s \in Shards : budget[s] >= 0
  <2>1. MaxMemory \in Nat /\ ShardCount \in Nat \ {0}
    BY StoreAssumption, Parameters, Zenon
  <2> QED BY <2>1 DEF budget, Shards
<1>3. \A t \in Clients : ~ Holds(pc[t], loc[t])
  BY <1>1, Zenon DEF Holds, Resumes, HoldLabels
<1> QED BY <1>1, <1>2, <1>3, Zenon DEF BudgetInv, BudgetRespected, HoldOK

\* A write that is carried out finds the key as its NX or XX condition wants it.
LEMMA WriteConditional ==
  ASSUME Facts, IInv, WhereInv, [Next]_vars, NEW t \in Clients,
         pc[t] = "write", pc'[t] \notin {"write", "idle"}
  PROVE  /\ loc[t].mode = "nx" => ~ Found(t)
         /\ loc[t].mode = "xx" => Found(t)
<1>1. Step(t)
  BY OwnStep, StartIdle, Zenon
<1>2. ~ WriteRefused(t)
  BY Zenon DEF WriteRefused, Return, Goto, IInv, ThreadsOK, Threads
<1>3. ~ Refused(t)
  BY <1>1, <1>2, StepsAt, Zenon DEF WriteUpdate, WriteInsert
<1> QED BY <1>3, Zenon DEF Refused

\* ensureSpaceShardBudget does not give up while the shard holds an entry it may evict.
LEMMA BudgetGivesUp ==
  ASSUME Facts, IInv, WhereInv, [Next]_vars, NEW t \in Clients, pc[t] = "budget", pc'[t] = "idle",
         NEW k \in ShardKeys(Shard(t)) \ {loc[t].key}, data[k] # Nil, eligible(data[k])
  PROVE  FALSE
<1>1. BudgetFits(t) \/ BudgetEvict(t)
  BY OwnStep, StartIdle, StepsAt, Zenon
<1>2. t \in Threads /\ pc \in [Threads -> Labels]
  BY Zenon DEF Threads, IInv, ThreadsOK
<1>3. ~ BudgetFits(t)
  BY <1>2, Zenon DEF BudgetFits, Goto
<1>4. Shard(t) \in Shards /\ policy # NoEviction
  <2>1. LocOK("budget", loc[t]) /\ PlaceOK("budget", loc[t])
    BY <1>2, MoveFacts, Zenon
  <2>2. loc[t].key \in Keys
    BY <2>1, Zenon DEF LocOK, Resumes, SetLabels, KeyOps
  <2> QED BY <2>1, <2>2, Parameters, Zenon DEF PlaceOK, Resumes, Shard
<1>5. pickLocalVictim(Shard(t), loc[t].key) # {}
  BY <1>4, VictimFound, Zenon
<1>6. PICK e \in pickLocalVictim(Shard(t), loc[t].key) : removeFromShard(t, e, loc[t], "budget")
  BY <1>1, <1>3, <1>5, Zenon DEF BudgetEvict
<1>7. PICK j \in Keys : data[j] = e /\ e # Nil
  BY <1>4, <1>6, VictimIsStored
<1> QED BY <1>2, <1>6, <1>7, RemovalEffect, Zenon

\* Initially nothing is stored.
LEMMA OvershootInit ==
  ASSUME Facts, Init
  PROVE  OvershootBounded
<1>1. Writers = {} /\ used = 0
  BY Zenon DEF Init, Writers, Threads
<1>2. MaxMemory \in Nat /\ MaxSize \in Nat /\ Cardinality(Clients) \in Nat
  BY Parameters, WritersFinite, Zenon
<1>3. MaxSize * Cardinality(Clients) \in Nat /\ MaxSize * Cardinality(Writers) = 0
  BY <1>1, <1>2 DEF Facts, CountingFact
<1> QED BY <1>1, <1>2, <1>3 DEF OvershootBounded

\* Every step keeps the bound on the memory used.
LEMMA OvershootNext ==
  ASSUME Facts, SwitchTo = {}, IInv, IInv', WhereInv, OvershootBounded, [Next]_vars
  PROVE  OvershootBounded'
<1>1. ASSUME NEW t \in Clients, Start(t) \/ Step(t) PROVE OvershootBounded'
  <2>1. CASE strategy # ShardBudget
    BY <1>1, <2>1, OvershootStep, Zenon
  <2>2. CASE strategy = ShardBudget
    <3>1. UNCHANGED strategy
      BY <1>1, StepFrame, Zenon DEF Start, StartSet, StartKeyOp, StartExpire, StartIncr, StartFlush, Starts
    <3> QED BY <2>2, <3>1, Zenon DEF OvershootBounded
  <2> QED BY <2>1, <2>2, Zenon
<1>2. CASE WorkerStep \/ SwitchStart \/ AdminStep \/ Advance \/ Done \/ UNCHANGED vars
  BY <1>2, OvershootOther, Zenon
<1> QED BY <1>1, <1>2, Zenon DEF Next
=============================================================================
