----------------------------- MODULE StoreMoves -----------------------------
(***************************************************************************)
(* What each step of Store changes: where it takes its thread, which       *)
(* entries it adds and removes; and that it keeps WhereInv.                *)
(***************************************************************************)
EXTENDS StoreInvariant, TLAPS

----------------------------------------------------------------------------
(* Arithmetic *)

\* The strategies are different.
LEMMA StrategiesDiffer == ShardBudget # GlobalTrack
BY DEF ShardBudget, GlobalTrack

\* What is not over a limit fits in it.
LEMMA NotOver ==
  ASSUME NEW a \in Nat, NEW n \in Nat, NEW b \in Int, ~(a + n > b)
  PROVE  a + n <= b
OBVIOUS

\* A value that takes the place of an old one fits when what it needs more than it does.
LEMMA ReplacedFits ==
  ASSUME NEW u \in Nat, NEW b \in Int, NEW old \in Nat, NEW n \in Nat, u <= b, u + SatSub(n, old) <= b
  PROVE  u - old + n <= b
BY DEF SatSub

----------------------------------------------------------------------------
(* Facts about the state *)

\* The facts about the constants that the proofs below use.
LEMMA Parameters ==
  /\ MaxSize \in Nat /\ MaxMemory \in Nat /\ IsFiniteSet(Clients)
  /\ ShardCount \in Nat \ {0}
  /\ Nil \notin Entries /\ Nil \notin Keys /\ Nil \notin Threads
  /\ \A k \in Keys : ShardOf[k] \in Shards
BY StoreAssumption, Zenon

\* What the clients are given to do is well formed.
LEMMA WorkGiven ==
  ASSUME policy \in Policies
  PROVE  /\ \A k \in Work[policy].keys : k \in Keys
         /\ \A ttl \in Work[policy].ttls : ttl \in Nat
         /\ \A mode \in Work[policy].modes : mode \in {"plain", "nx", "xx", "keep"}
         /\ Work[policy].calls \in [Clients -> Nat] /\ Work[policy].switches \in Nat
<1>1. Work[policy] \in [ops : SUBSET Operations, keys : SUBSET Keys, ttls : SUBSET Nat,
                        modes : SUBSET {"plain", "nx", "xx", "keep"},
                        calls : [Clients -> Nat], switches : Nat, time : Nat]
  BY StoreAssumption, Zenon
<1> QED BY <1>1, Zenon

\* Every stored entry has a bounded size (memSize).
LEMMA SizeBounded == ShardType /\ MapOK => \A k \in Keys : SizeOf(k) \in 0 .. MaxSize
BY Parameters DEF ShardType, MapOK, SizeOf

\* Entries of different keys are different objects.
LEMMA KeysApart ==
  ASSUME ShardOK, NEW j \in Keys, NEW k \in Keys, data[j] # Nil, data[j] = data[k]
  PROVE  j = k
BY Zenon DEF ShardOK, MapOK

\* An entry in one of a shard's lists is the entry of one of the shard's keys.
LEMMA Listed ==
  ASSUME ShardOK, NEW s \in Shards, NEW e,
         e \in Range(lru[s]) \cup Range(fifo[s]) \cup ShardEntries(s)
  PROVE  \E k \in Keys : ShardOf[k] = s /\ data[k] = e /\ e \in Entries /\ ent[e].key = k
<1>1. e \in ShardEntries(s)
  BY Zenon DEF ShardOK, ShardLists
<1>2. PICK k \in ShardKeys(s) : e = data[k] /\ e # Nil
  BY <1>1, Zenon DEF ShardEntries
<1> QED BY <1>2, Zenon DEF ShardKeys, ShardOK, ShardType, MapOK

\* The facts about client t that every step below starts from.
LEMMA ThreadFacts ==
  ASSUME IInv, NEW t \in Threads
  PROVE  /\ pc[t] \in Labels /\ loc[t] \in LocType /\ LocOK(pc[t], loc[t])
         /\ loc[t].ent = Nil \/ loc[t].ent \in InUse
BY Zenon DEF IInv, ThreadsOK, InUse

\* The deadline of a stored entry is a number.
LEMMA StoredFacts ==
  ASSUME IInv, NEW k \in Keys, data[k] # Nil
  PROVE  /\ data[k] \in Entries /\ data[k] \in InUse /\ ent[data[k]].key = k
         /\ ent[data[k]].exp \in Nat /\ ent[data[k]].size \in 1 .. MaxSize
BY Zenon DEF IInv, ShardOK, ShardType, MapOK, InUse

\* Every victim is the stored entry of some key of the shard.
LEMMA VictimIsStored ==
  ASSUME IInv, NEW s \in Shards, NEW skip, NEW e \in pickLocalVictim(s, skip)
  PROVE  \E k \in Keys : data[k] = e /\ e # Nil /\ ShardOf[k] = s /\ ent[e].key = k
<1>1. \A seq : FirstVictim(seq, skip) \subseteq Range(seq)
  BY Zenon DEF FirstVictim, Range
<1>2. ttlPick(s, skip) \cup rndPick(s, skip) \cup lfuPick(s, skip) \subseteq ShardEntries(s)
  BY Zenon DEF ttlPick, rndPick, lfuPick
<1>3. e \in Range(lru[s]) \cup Range(fifo[s]) \cup ShardEntries(s)
  BY <1>1, <1>2, Zenon DEF pickLocalVictim
<1>4. ShardOK
  BY Zenon DEF IInv
<1> QED BY <1>3, <1>4, Listed, Parameters

----------------------------------------------------------------------------
(* Where a step takes its thread *)

\* Thread t moves to a place it may be in, with a deadline it may carry.
Moves(t) == \E a, m : /\ Goto(t, a, m) /\ Within(m.exp)
                      /\ PlaceOK(a, m)

\* A move of one thread; entries keep their deadlines, or get one that some thread
\* or entry has, or none.
LEMMA MoveKeeps ==
  ASSUME IInv, WhereInv, NEW t \in Threads, t # Admin \/ SwitchTo # {}, Moves(t),
         \A e \in Entries : Within(ent'[e].exp),
         UNCHANGED <<clock, policy>>, SwitchTo = {} => UNCHANGED strategy
  PROVE  WhereInv'
<1>0. PICK a, m : Goto(t, a, m) /\ Within(m.exp) /\ PlaceOK(a, m)
  BY Zenon DEF Moves
<1>1. \A u \in Threads : /\ u = t => pc'[u] = a /\ loc'[u] = m
                         /\ u # t => pc'[u] = pc[u] /\ loc'[u] = loc[u]
  <2>1. /\ pc' = [pc EXCEPT ![t] = a] /\ loc' = [loc EXCEPT ![t] = m]
        /\ pc \in [Threads -> Labels] /\ loc \in [Threads -> LocType]
    BY <1>0, Zenon DEF Goto, IInv, ThreadsOK
  <2> QED BY <2>1, Zenon
<1>2. PlacesOK'
  <2>1. SwitchTo = {} => pc'[Admin] = "idle"
    BY <1>1, Zenon DEF WhereInv, PlacesOK, Threads
  <2>2. ASSUME NEW u \in Threads PROVE PlaceOK(pc[u], loc[u])'
    BY <1>0, <1>1, Zenon DEF WhereInv, PlacesOK, PlaceOK, Resumes
  <2> QED BY <2>1, <2>2, Zenon DEF PlacesOK
<1>3. DeadlinesOK'
  BY <1>0, <1>1, Zenon DEF WhereInv, DeadlinesOK, Within
<1> QED BY <1>2, <1>3, Zenon DEF WhereInv

\* The facts about thread t that the steps below start from.
LEMMA MoveFacts ==
  ASSUME IInv, WhereInv, NEW t \in Threads
  PROVE  /\ loc[t] \in LocType /\ LocOK(pc[t], loc[t])
         /\ Within(loc[t].exp) /\ \A e \in Entries : Within(ent[e].exp)
         /\ PlaceOK(pc[t], loc[t])
         /\ Within(0) /\ clock \in Nat /\ MaxTTL \in Nat
BY ThreadFacts, StoreAssumption DEF WhereInv, PlacesOK, DeadlinesOK, Within, IInv, GlobalType

\* The return of an operation.
LEMMA ReturnMoves ==
  ASSUME IInv, NEW t \in Threads, Return(t)
  PROVE  Moves(t)
<1>1. NoLoc.exp = 0
  BY Zenon DEF NoLoc
<1>2. Within(0)
  BY StoreAssumption DEF Within, IInv, GlobalType
<1>3. PlaceOK("idle", NoLoc)
  BY Zenon DEF PlaceOK, Resumes, EvictLabels
<1> QED BY <1>1, <1>2, <1>3, Zenon DEF Moves, Return

\* A deadline that has passed through Clamp lies within MaxTTL.
LEMMA ClampWithin ==
  ASSUME IInv, NEW at \in Nat
  PROVE  Clamp(clock, at) \in Nat /\ Within(Clamp(clock, at))
BY StoreAssumption DEF Clamp, Within, IInv, GlobalType

FreeLabels == Labels \ (EvictLabels \cup {"steal", "thief", "budget", "unlink", "clear", "push", "touch"})

\* A thread goes on with its deadline, or with none, at a label of every strategy, ...
LEMMA FreeMoves ==
  ASSUME IInv, WhereInv, NEW t \in Threads, NEW a \in FreeLabels, NEW m, Goto(t, a, m), Within(m.exp)
  PROVE  Moves(t)
<1>1. PlaceOK(a, m)
  BY Zenon DEF PlaceOK, Resumes, FreeLabels, EvictLabels
<1> QED BY <1>1, Zenon DEF Moves

\* ... or at a label of the tenant-wide eviction it is in.
LEMMA EvictMoves ==
  ASSUME IInv, WhereInv, NEW t \in Threads, pc[t] \in EvictLabels,
         NEW a \in EvictLabels, NEW m, Goto(t, a, m), Within(m.exp)
  PROVE  Moves(t)
<1>1. (SwitchTo = {} => strategy = GlobalTrack) /\ policy # NoEviction
  BY MoveFacts, Zenon DEF PlaceOK, Resumes, EvictLabels
<1>2. PlaceOK(a, m)
  BY <1>1, Zenon DEF PlaceOK, Resumes, EvictLabels
<1> QED BY <1>2, Zenon DEF Moves

\* removeFromShard, on behalf of ensureSpace or of another caller.
LEMMA RemoveMoves ==
  ASSUME IInv, NEW t \in Threads, NEW e, NEW l \in LocType, Within(l.exp),
         NEW then \in {"idle", "locknow", "incr", "budget", "steal", "thief", "gspace",
                       "f_del", "w_peek"},
         then \in {"gspace", "steal", "thief", "budget"} => policy # NoEviction,
         SwitchTo = {} =>
           /\ then = "gspace" => strategy = GlobalTrack
           /\ then \in {"steal", "thief"} => strategy = Steal
           /\ then = "budget" => strategy = ShardBudget,
         removeFromShard(t, e, l, then)
  PROVE  Moves(t)
<1> DEFINE g == [l EXCEPT !.ent = e, !.vk = ent[e].key, !.then = then]
           h == [l EXCEPT !.vk = ent[e].key, !.then = then]
<1>1. g.exp = l.exp /\ g.then = then /\ h.exp = l.exp /\ h.then = then
  BY Zenon DEF LocType
<1>2. CASE strategy = GlobalTrack
  <2>1. Goto(t, "unlink", g)
    BY <1>2, Zenon DEF removeFromShard
  <2>2. PlaceOK("unlink", g)
    BY <1>1, <1>2, Zenon DEF PlaceOK, Resumes, EvictLabels
  <2> QED BY <1>1, <2>1, <2>2, Zenon DEF Moves
<1>3. CASE strategy # GlobalTrack
  <2>1. Goto(t, AfterUnlink(then), h)
    BY <1>3, Zenon DEF removeFromShard
  <2>2. PlaceOK(AfterUnlink(then), h)
    BY <1>1, <1>3, Zenon DEF PlaceOK, Resumes, EvictLabels, AfterUnlink
  <2> QED BY <1>1, <2>1, <2>2, Zenon DEF Moves
<1> QED BY <1>2, <1>3, Zenon

\* The sections that follow a removal.
LEMMA AfterRemovalMoves ==
  ASSUME IInv, WhereInv, NEW t \in Threads, Unlink(t) \/ clearExpiry(t)
  PROVE  Moves(t)
<1> DEFINE l == loc[t]
<1>0. /\ l \in LocType /\ Within(l.exp) /\ LocOK(pc[t], l)
      /\ PlaceOK(pc[t], l)
  BY MoveFacts, Zenon
<1>1. CASE Unlink(t)
  <2> DEFINE m == [l EXCEPT !.ent = Nil]
  <2>1. pc[t] = "unlink" /\ Goto(t, AfterUnlink(l.then), m)
    BY <1>1, Zenon DEF Unlink
  <2>2. m.exp = l.exp /\ m.then = l.then
    BY <1>0, Zenon DEF LocType
  <2>3. PlaceOK(AfterUnlink(l.then), m)
    BY <1>0, <2>1, <2>2, Zenon DEF PlaceOK, Resumes, EvictLabels, AfterUnlink
  <2> QED BY <1>0, <2>1, <2>2, <2>3, Zenon DEF Moves
<1>2. CASE clearExpiry(t)
  <2> DEFINE m == [l EXCEPT !.vk = Nil, !.then = "idle", !.scan = 0]
             a == IF l.then = "thief" THEN "steal" ELSE l.then
  <2>1. CASE l.then = "idle"
    BY <1>2, <2>1, ReturnMoves, Zenon DEF clearExpiry
  <2>2. CASE l.then # "idle"
    <3>1. pc[t] = "clear" /\ Goto(t, a, m)
      BY <1>2, <2>2, Zenon DEF clearExpiry
    <3>2. m.exp = l.exp
      BY <1>0, Zenon DEF LocType
    <3>3. PlaceOK(a, m)
      BY <1>0, <3>1, Zenon DEF PlaceOK, Resumes, EvictLabels, LocOK
    <3> QED BY <1>0, <3>1, <3>2, <3>3, Zenon DEF Moves
  <2> QED BY <2>1, <2>2, Zenon
<1> QED BY <1>1, <1>2, Zenon

\* The part of Set before its first lock.
LEMMA PrologueMoves ==
  ASSUME IInv, WhereInv, NEW t \in Threads, NEW k, NEW sz, NEW at \in Nat, NEW mode,
         SetPrologue(t, k, sz, at, mode)
  PROVE  Moves(t)
<1> DEFINE m == [NoLoc EXCEPT !.op = "set", !.key = k, !.size = sz, !.mode = mode,
                              !.exp = Clamp(clock, at), !.now = clock]
<1>1. m.exp = Clamp(clock, at)
  BY Zenon DEF NoLoc
<1>2. Return(t) \/ Goto(t, "lock", m)
  BY Zenon DEF SetPrologue
<1>3. "lock" \in FreeLabels
  BY Zenon DEF FreeLabels, Labels, EvictLabels
<1> QED BY <1>1, <1>2, <1>3, ReturnMoves, FreeMoves, ClampWithin, Zenon

\* The start of an operation.
LEMMA StartMoves ==
  ASSUME IInv, WhereInv, NEW t \in Clients, Start(t)
  PROVE  Moves(t)
<1>0. t \in Threads /\ Within(0) /\ clock \in Nat
  BY MoveFacts, Zenon DEF Threads
<1>w. policy \in Policies
  BY Zenon DEF IInv, GlobalType
<1>a. "lock" \in FreeLabels /\ "f_scan" \in FreeLabels
  BY Zenon DEF FreeLabels, Labels, EvictLabels
<1>1. CASE StartSet(t)
  <2>1. PICK k \in Work[policy].keys, sz \in Sizes, ttl \in Work[policy].ttls,
             mode \in Work[policy].modes : SetPrologue(t, k, sz, Deadline(clock, ttl), mode)
    BY <1>1, Zenon DEF StartSet
  <2>2. Deadline(clock, ttl) \in Nat
    BY <1>0, <1>w, WorkGiven DEF Deadline
  <2> QED BY <1>0, <2>1, <2>2, PrologueMoves, Zenon
<1>2. CASE StartKeyOp(t)
  <2>1. PICK op, k : Goto(t, "lock", [NoLoc EXCEPT !.op = op, !.key = k, !.now = clock])
    BY <1>2, Zenon DEF StartKeyOp
  <2>2. [NoLoc EXCEPT !.op = op, !.key = k, !.now = clock].exp = 0
    BY Zenon DEF NoLoc
  <2> QED BY <1>0, <1>a, <2>1, <2>2, FreeMoves, Zenon
<1>3. CASE StartExpire(t)
  <2>1. PICK k \in Work[policy].keys, ttl \in Work[policy].ttls, op \in {"del", "expire"} :
          Goto(t, "lock", [NoLoc EXCEPT !.op = op, !.key = k, !.now = clock,
                                        !.exp = Clamp(clock, Deadline(clock, ttl))])
    BY <1>3, Zenon DEF StartExpire
  <2>2. Deadline(clock, ttl) \in Nat
    BY <1>0, <1>w, WorkGiven DEF Deadline
  <2>3. [NoLoc EXCEPT !.op = op, !.key = k, !.now = clock,
                      !.exp = Clamp(clock, Deadline(clock, ttl))].exp = Clamp(clock, Deadline(clock, ttl))
    BY Zenon DEF NoLoc
  <2> QED BY <1>0, <1>a, <2>1, <2>2, <2>3, FreeMoves, ClampWithin, Zenon
<1>4. CASE StartIncr(t)
  <2>1. PICK k, sz : Goto(t, "lock", [NoLoc EXCEPT !.op = "incr", !.key = k, !.now = clock, !.size = sz])
    BY <1>4, Zenon DEF StartIncr
  <2>2. [NoLoc EXCEPT !.op = "incr", !.key = k, !.now = clock, !.size = sz].exp = 0
    BY Zenon DEF NoLoc
  <2> QED BY <1>0, <1>a, <2>1, <2>2, FreeMoves, Zenon
<1>5. CASE StartFlush(t)
  <2>1. Goto(t, "f_scan", [NoLoc EXCEPT !.op = "flush"])
    BY <1>5, Zenon DEF StartFlush
  <2>2. [NoLoc EXCEPT !.op = "flush"].exp = 0
    BY Zenon DEF NoLoc
  <2> QED BY <1>0, <1>a, <2>1, <2>2, FreeMoves, Zenon
<1> QED BY <1>1, <1>2, <1>3, <1>4, <1>5, Zenon DEF Start

\* The first critical section of an operation on one key.
LEMMA KeyOpMoves ==
  ASSUME IInv, WhereInv, NEW t \in Threads,
         \/ Absent(t) \/ Discard(t) \/ Get(t) \/ Exists(t) \/ setExpireAt(t) \/ Persist(t)
         \/ IncrRead(t) \/ IncrSet(t)
  PROVE  Moves(t)
<1> DEFINE l == loc[t]
<1>0. /\ l \in LocType /\ Within(l.exp) /\ Within(0) /\ \A e \in Entries : Within(ent[e].exp)
      /\ LocOK(pc[t], l)
  BY MoveFacts, Zenon
<1>1. CASE Absent(t) \/ Exists(t)
  BY <1>1, ReturnMoves, Zenon DEF Absent, Exists
<1>2. CASE Discard(t)
  <2> DEFINE then == CASE l.op = "set" -> "locknow" [] l.op = "incr" -> "incr" [] OTHER -> "idle"
  <2>1. then \in {"idle", "locknow", "incr"}
    BY Zenon
  <2>2. removeFromShard(t, data[l.key], l, then)
    BY <1>2, Zenon DEF Discard
  <2> HIDE DEF then
  <2> QED BY <1>0, <2>1, <2>2, RemoveMoves, Zenon
<1>3. CASE Get(t)
  <2> DEFINE m == [l EXCEPT !.ent = data[l.key]]
  <2>1. (strategy = GlobalTrack /\ Goto(t, "touch", m)) \/ Return(t)
    BY <1>3, Zenon DEF Get
  <2>2. m.exp = l.exp
    BY <1>0, Zenon DEF LocType
  <2>3. strategy = GlobalTrack => PlaceOK("touch", m)
    BY Zenon DEF PlaceOK, Resumes, EvictLabels, GlobalTrack, Steal, ShardBudget
  <2> QED BY <1>0, <2>1, <2>2, <2>3, ReturnMoves, Zenon DEF Moves
<1>4. CASE setExpireAt(t)
  <2>1. "note" \in FreeLabels
    BY Zenon DEF FreeLabels, Labels, EvictLabels
  <2> QED BY <1>0, <1>4, <2>1, FreeMoves, Zenon DEF setExpireAt
<1>5. CASE Persist(t)
  <2> DEFINE m == [l EXCEPT !.vk = l.key]
  <2>1. Return(t) \/ Goto(t, "clear", m)
    BY <1>5, Zenon DEF Persist
  <2>2. m.exp = l.exp /\ m.then = "idle"
    BY <1>0, <1>5, Zenon DEF LocType, Persist, AtLock, LocOK
  <2>3. PlaceOK("clear", m)
    BY <2>2, Zenon DEF PlaceOK, Resumes, EvictLabels
  <2> QED BY <1>0, <2>1, <2>2, <2>3, ReturnMoves, Zenon DEF Moves
<1>6. CASE IncrRead(t)
  <2> DEFINE d == IF Found(t) THEN ent[data[l.key]].exp ELSE 0
             m == [l EXCEPT !.exp = d]
  <2>1. l.key \in Keys
    BY <1>0, <1>6, Zenon DEF IncrRead, AtLock, LocOK, KeyOps
  <2>2. Within(d)
    BY <1>0, <2>1, StoredFacts, Zenon DEF Found
  <2>3. Goto(t, "incr", m) /\ "incr" \in FreeLabels
    BY <1>6, Zenon DEF IncrRead, FreeLabels, Labels, EvictLabels
  <2>4. m.exp = d
    BY <1>0, Zenon DEF LocType
  <2> QED BY <2>2, <2>3, <2>4, FreeMoves, Zenon
<1>7. CASE IncrSet(t)
  <2>1. l.exp \in Nat
    BY <1>0, Zenon DEF LocType
  <2> QED BY <1>7, <2>1, PrologueMoves, Zenon DEF IncrSet
<1> QED BY <1>1, <1>2, <1>3, <1>4, <1>5, <1>6, <1>7, Zenon

\* The steps of Set up to the removal of victims.
LEMMA SetMoves ==
  ASSUME IInv, WhereInv, NEW t \in Threads,
         SetCheck(t) \/ NoEvictCheck(t) \/ BudgetFits(t) \/ StealFits(t) \/ WriteRefused(t)
  PROVE  Moves(t)
<1> DEFINE l == loc[t]
<1>0. /\ l \in LocType /\ Within(l.exp) /\ Within(0) /\ \A e \in Entries : Within(ent[e].exp)
      /\ LocOK(pc[t], l)
  BY MoveFacts, Zenon
<1>1. CASE SetCheck(t)
  <2> DEFINE d == IF l.mode = "keep" /\ Found(t) THEN ent[data[l.key]].exp ELSE l.exp
             m == [l EXCEPT !.need = Need(t),
                            !.exp = IF l.mode = "keep" /\ Found(t) THEN ent[data[l.key]].exp ELSE @]
  <2>1. l.key \in Keys
    BY <1>0, <1>1, Zenon DEF SetCheck, LocOK, KeyOps
  <2>2. Within(d)
    BY <1>0, <2>1, StoredFacts, Zenon DEF Found
  <2>3. m.exp = d
    BY <1>0, Zenon DEF LocType
  <2>4. \/ Return(t)
        \/ Goto(t, "noevict", m)
        \/ policy # NoEviction /\ strategy = GlobalTrack /\ Goto(t, "gspace", m)
        \/ policy # NoEviction /\ strategy = Steal /\ Goto(t, "steal", m)
        \/ policy # NoEviction /\ strategy = ShardBudget /\ Goto(t, "budget", m)
    BY <1>1, Zenon DEF SetCheck, IInv, GlobalType
  <2> HIDE DEF m, d
  <2>5. /\ policy # NoEviction /\ strategy = GlobalTrack => PlaceOK("gspace", m)
        /\ policy # NoEviction /\ strategy = Steal => PlaceOK("steal", m)
        /\ policy # NoEviction /\ strategy = ShardBudget => PlaceOK("budget", m)
        /\ PlaceOK("noevict", m)
    BY Zenon DEF PlaceOK, Resumes, EvictLabels
  <2> QED BY <2>2, <2>3, <2>4, <2>5, ReturnMoves, Zenon DEF Moves
<1>2. CASE NoEvictCheck(t) \/ BudgetFits(t) \/ StealFits(t) \/ WriteRefused(t)
  <2>1. Return(t) \/ Goto(t, "write", l)
    BY <1>2, Zenon DEF NoEvictCheck, BudgetFits, StealFits, WriteRefused
  <2>2. "write" \in FreeLabels
    BY Zenon DEF FreeLabels, Labels, EvictLabels
  <2> QED BY <1>0, <2>1, <2>2, ReturnMoves, FreeMoves, Zenon
<1> QED BY <1>1, <1>2, Zenon

\* Eviction from one shard.
LEMMA LocalEvictMoves ==
  ASSUME IInv, WhereInv, NEW t \in Threads, BudgetEvict(t) \/ StealEvict(t) \/ Thief(t)
  PROVE  Moves(t)
<1> DEFINE l == loc[t]
<1>0. l \in LocType /\ Within(l.exp) /\ PlaceOK(pc[t], l)
  BY MoveFacts, Zenon
<1>1. CASE BudgetEvict(t)
  <2>1. pc[t] = "budget"
    BY <1>1, Zenon DEF BudgetEvict
  <2>2. (SwitchTo = {} => strategy = ShardBudget) /\ policy # NoEviction
    BY <1>0, <2>1, Zenon DEF PlaceOK, Resumes
  <2>3. Return(t) \/ \E e \in pickLocalVictim(Shard(t), l.key) : removeFromShard(t, e, l, "budget")
    BY <1>1, Zenon DEF BudgetEvict
  <2> QED BY <1>0, <2>2, <2>3, ReturnMoves, RemoveMoves, Zenon
<1>2. CASE StealEvict(t) \/ Thief(t)
  <2>1. pc[t] \in {"steal", "thief"}
    BY <1>2, Zenon DEF StealEvict, Thief
  <2>2. (SwitchTo = {} => strategy = Steal) /\ policy # NoEviction
    BY <1>0, <2>1, Zenon DEF PlaceOK, Resumes
  <2>3. \/ Return(t)
        \/ \E n : Goto(t, "thief", [l EXCEPT !.scan = n])
        \/ \E s : \E e \in pickLocalVictim(s, l.key), then \in {"steal", "thief"} :
              removeFromShard(t, e, l, then)
    BY <1>2, Zenon DEF StealEvict, Thief
  <2>4. ASSUME NEW n, Goto(t, "thief", [l EXCEPT !.scan = n]) PROVE Moves(t)
    <3>1. [l EXCEPT !.scan = n].exp = l.exp
      BY <1>0, Zenon DEF LocType
    <3>2. PlaceOK("thief", [l EXCEPT !.scan = n])
      BY <2>2, Zenon DEF PlaceOK, Resumes, EvictLabels
    <3> QED BY <1>0, <2>4, <3>1, <3>2, Zenon DEF Moves
  <2>5. ASSUME NEW e, NEW then \in {"steal", "thief"}, removeFromShard(t, e, l, then)
        PROVE  Moves(t)
    BY <1>0, <2>2, <2>5, RemoveMoves, Zenon
  <2> QED BY <2>3, <2>4, <2>5, ReturnMoves, Zenon
<1> QED BY <1>1, <1>2, Zenon

\* Tenant-wide eviction.
LEMMA GlobalEvictMoves ==
  ASSUME IInv, WhereInv, NEW t \in Threads,
         \/ GlobalSpace(t) \/ PickFromList(t) \/ PickStart(t) \/ PickScan(t)
         \/ PickTTL(t) \/ PickTTLSkip(t) \/ PickTTLValidate(t) \/ PickTTLNote(t)
         \/ Evict(t) \/ EvictStale(t)
  PROVE  Moves(t)
<1> DEFINE l == loc[t]
<1>0. l \in LocType /\ Within(l.exp) /\ PlaceOK(pc[t], l)
  BY MoveFacts, Zenon
<1>1. pc[t] \in EvictLabels
  BY Zenon DEF GlobalSpace, PickFromList, PickStart, PickScan, PickTTL, PickTTLSkip, PickTTLValidate,
         PickTTLNote, Evict, EvictStale, EvictLabels
<1>2. (SwitchTo = {} => strategy = GlobalTrack) /\ policy # NoEviction
  BY <1>0, <1>1, Zenon DEF PlaceOK, Resumes, EvictLabels
<1>3. ASSUME NEW a \in {"gspace", "pick", "scan", "ttlskip", "ttlval", "ttlnote", "evict", "stale"},
             NEW m, Goto(t, a, m), m.exp = l.exp
      PROVE  Moves(t)
  BY <1>0, <1>1, <1>3, EvictMoves, Zenon DEF EvictLabels
<1>4. CASE GlobalSpace(t)
  <2>1. "write" \in FreeLabels
    BY Zenon DEF FreeLabels, Labels, EvictLabels
  <2> QED BY <1>0, <1>3, <1>4, <2>1, FreeMoves, Zenon DEF GlobalSpace
<1>5. CASE PickFromList(t)
  <2>1. Return(t) \/ \E v : Goto(t, "evict", [l EXCEPT !.vk = v])
    BY <1>5, Zenon DEF PickFromList
  <2>2. \A v : [l EXCEPT !.vk = v].exp = l.exp
    BY <1>0, Zenon DEF LocType
  <2> QED BY <1>3, <2>1, <2>2, ReturnMoves, Zenon
<1>6. CASE PickStart(t)
  <2>1. PICK n : Goto(t, "scan", [l EXCEPT !.at = n, !.scan = 0, !.vk = Nil])
    BY <1>6, Zenon DEF PickStart
  <2>2. [l EXCEPT !.at = n, !.scan = 0, !.vk = Nil].exp = l.exp
    BY <1>0, Zenon DEF LocType
  <2> QED BY <1>3, <2>1, <2>2, Zenon
<1>7. CASE PickScan(t)
  <2>1. \/ Return(t)
        \/ \E v : Goto(t, "scan", [l EXCEPT !.vk = v, !.scan = @ + 1])
        \/ \E v : Goto(t, "evict", [l EXCEPT !.vk = v, !.at = 0, !.scan = 0])
    BY <1>7, Zenon DEF PickScan
  <2>2. \A v : /\ [l EXCEPT !.vk = v, !.scan = @ + 1].exp = l.exp
               /\ [l EXCEPT !.vk = v, !.at = 0, !.scan = 0].exp = l.exp
    BY <1>0, Zenon DEF LocType
  <2> QED BY <1>3, <2>1, <2>2, ReturnMoves, Zenon
<1>8. CASE PickTTL(t)
  <2>1. \/ Return(t)
        \/ Goto(t, "ttlskip", [l EXCEPT !.scan = 0])
        \/ \E k : Goto(t, "ttlval", [l EXCEPT !.vk = k, !.at = expH[k]])
    BY <1>8, Zenon DEF PickTTL
  <2>2. /\ [l EXCEPT !.scan = 0].exp = l.exp
        /\ \A k : [l EXCEPT !.vk = k, !.at = expH[k]].exp = l.exp
    BY <1>0, Zenon DEF LocType
  <2> QED BY <1>3, <2>1, <2>2, ReturnMoves, Zenon
<1>9. CASE PickTTLSkip(t)
  <2>1. \/ Return(t)
        \/ Goto(t, "ttlskip", [l EXCEPT !.scan = @ + 1])
        \/ \E v : Goto(t, "evict", [l EXCEPT !.vk = v, !.scan = 0])
    BY <1>9, Zenon DEF PickTTLSkip
  <2>2. /\ [l EXCEPT !.scan = @ + 1].exp = l.exp
        /\ \A v : [l EXCEPT !.vk = v, !.scan = 0].exp = l.exp
    BY <1>0, Zenon DEF LocType
  <2> QED BY <1>3, <2>1, <2>2, ReturnMoves, Zenon
<1>10. CASE PickTTLValidate(t)
  <2>1. \/ Goto(t, "clear", [l EXCEPT !.at = 0, !.then = "pick"])
        \/ \E d, e : Goto(t, "ttlnote", [l EXCEPT !.at = d, !.ent = e])
        \/ Goto(t, "evict", [l EXCEPT !.at = 0])
    BY <1>10, Zenon DEF PickTTLValidate
  <2>2. /\ [l EXCEPT !.at = 0, !.then = "pick"].exp = l.exp
        /\ [l EXCEPT !.at = 0, !.then = "pick"].then = "pick"
        /\ \A d, e : [l EXCEPT !.at = d, !.ent = e].exp = l.exp
        /\ [l EXCEPT !.at = 0].exp = l.exp
    BY <1>0, Zenon DEF LocType
  <2>3. PlaceOK("clear", [l EXCEPT !.at = 0, !.then = "pick"])
    BY <1>2, <2>2, Zenon DEF PlaceOK, Resumes, EvictLabels
  <2>4. CASE Goto(t, "clear", [l EXCEPT !.at = 0, !.then = "pick"])
    BY <1>0, <2>2, <2>3, <2>4, Zenon DEF Moves
  <2> QED BY <1>3, <2>1, <2>2, <2>4, Zenon
<1>11. CASE PickTTLNote(t)
  <2>1. Goto(t, "pick", [l EXCEPT !.at = 0, !.ent = Nil, !.vk = Nil])
    BY <1>11, Zenon DEF PickTTLNote
  <2>2. [l EXCEPT !.at = 0, !.ent = Nil, !.vk = Nil].exp = l.exp
    BY <1>0, Zenon DEF LocType
  <2> QED BY <1>3, <2>1, <2>2, Zenon
<1>12. CASE Evict(t)
  <2>1. Goto(t, "stale", l) \/ \E e : removeFromShard(t, e, l, "gspace")
    BY <1>12, Zenon DEF Evict
  <2>2. ASSUME NEW e, removeFromShard(t, e, l, "gspace") PROVE Moves(t)
    BY <1>0, <1>2, <2>2, RemoveMoves, Zenon
  <2> QED BY <1>3, <2>1, <2>2, Zenon
<1>13. CASE EvictStale(t)
  <2>1. Goto(t, "gspace", [l EXCEPT !.vk = Nil])
    BY <1>13, Zenon DEF EvictStale
  <2>2. [l EXCEPT !.vk = Nil].exp = l.exp
    BY <1>0, Zenon DEF LocType
  <2> QED BY <1>3, <2>1, <2>2, Zenon
<1> QED BY <1>4, <1>5, <1>6, <1>7, <1>8, <1>9, <1>10, <1>11, <1>12, <1>13, Zenon

\* The write of a Set; the entry gets the deadline of the Set, or keeps its own.
LEMMA WriteMoves ==
  ASSUME IInv, WhereInv, NEW t \in Threads, WriteUpdate(t) \/ WriteInsert(t)
  PROVE  Moves(t) /\ \A x \in Entries : Within(ent'[x].exp)
<1> DEFINE l == loc[t]
<1>0. /\ l \in LocType /\ Within(l.exp) /\ Within(0) /\ \A e \in Entries : Within(ent[e].exp)
      /\ LocOK("write", l) /\ pc[t] = "write"
  BY MoveFacts, Zenon DEF WriteUpdate, WriteInsert, AtWrite
<1>k. l.key \in Keys
  BY <1>0, Zenon DEF LocOK, Resumes, SetLabels, KeyOps
<1>a. "note" \in FreeLabels
  BY Zenon DEF FreeLabels, Labels, EvictLabels
<1>1. CASE WriteUpdate(t)
  <2> DEFINE e == data[l.key]
             d == IF l.mode = "keep" THEN ent[e].exp ELSE l.exp
             g == [l EXCEPT !.ent = e, !.exp = d]
             h == [l EXCEPT !.exp = d]
             r == [key |-> l.key, size |-> l.size, exp |-> d]
  <2>1. e \in Entries
    BY <1>1, <1>k, StoredFacts, Zenon DEF WriteUpdate, Found
  <2>2. Within(d)
    BY <1>0, <2>1, Zenon
  <2>3. g.exp = d /\ h.exp = d /\ r.exp = d
    BY <1>0, Zenon DEF LocType
  <2>4. IF strategy = GlobalTrack THEN Goto(t, "touch", g) ELSE Goto(t, "note", h)
    BY <1>1, Zenon DEF WriteUpdate
  <2>5. ent' = [ent EXCEPT ![e] = r] /\ DOMAIN ent = Entries
    BY <1>1, Zenon DEF WriteUpdate, IInv, ShardOK, ShardType
  <2> HIDE DEF d, g, h, r, e
  <2>6. strategy = GlobalTrack => PlaceOK("touch", g)
    BY Zenon DEF PlaceOK, Resumes, EvictLabels
  <2>7. Moves(t)
    <3>1. CASE strategy = GlobalTrack
      BY <2>2, <2>3, <2>4, <2>6, <3>1, Zenon DEF Moves
    <3>2. CASE strategy # GlobalTrack
      BY <1>a, <2>2, <2>3, <2>4, <3>2, FreeMoves, Zenon
    <3> QED BY <3>1, <3>2, Zenon
  <2>8. ASSUME NEW x \in Entries PROVE Within(ent'[x].exp)
    <3>1. ent'[x] = IF x = e THEN r ELSE ent[x]
      BY <2>5, Zenon
    <3> QED BY <1>0, <2>2, <2>3, <3>1, Zenon
  <2> QED BY <2>7, <2>8, Zenon
<1>2. CASE WriteInsert(t)
  <2> DEFINE e == NewEntry
             g == [l EXCEPT !.ent = e]
             r == [key |-> l.key, size |-> l.size, exp |-> l.exp]
  <2>1. g.exp = l.exp /\ r.exp = l.exp /\ NoEntry.exp = 0
    BY <1>0, Zenon DEF LocType, NoEntry
  <2>2. IF strategy = GlobalTrack THEN Goto(t, "push", g) ELSE Goto(t, "note", l)
    BY <1>2, Zenon DEF WriteInsert
  <2>3. ent' = [x \in Entries |-> IF x = e THEN r ELSE IF x \in InUse THEN ent[x] ELSE NoEntry]
    BY <1>2, Zenon DEF WriteInsert
  <2> HIDE DEF g, r, e
  <2>4. strategy = GlobalTrack => PlaceOK("push", g)
    BY Zenon DEF PlaceOK, Resumes, EvictLabels
  <2>5. Moves(t)
    <3>1. CASE strategy = GlobalTrack
      BY <1>0, <2>1, <2>2, <2>4, <3>1, Zenon DEF Moves
    <3>2. CASE strategy # GlobalTrack
      BY <1>0, <1>a, <2>2, <3>2, FreeMoves, Zenon
    <3> QED BY <3>1, <3>2, Zenon
  <2>6. ASSUME NEW x \in Entries PROVE Within(ent'[x].exp)
    <3>1. ent'[x] \in {r, ent[x], NoEntry}
      BY <2>3, Zenon
    <3> QED BY <1>0, <2>1, <3>1, Zenon
  <2> QED BY <2>5, <2>6, Zenon
<1> QED BY <1>1, <1>2, Zenon

\* What follows a write, and FlushDB.
LEMMA TailMoves ==
  ASSUME IInv, WhereInv, NEW t \in Threads,
         GlobalPush(t) \/ GlobalTouch(t) \/ noteExpiry(t) \/ FlushScan(t) \/ FlushDel(t) \/ FlushEnd(t)
  PROVE  Moves(t)
<1> DEFINE l == loc[t]
<1>0. l \in LocType /\ Within(l.exp)
  BY MoveFacts, Zenon
<1>a. "note" \in FreeLabels /\ "f_scan" \in FreeLabels /\ "f_del" \in FreeLabels
  BY Zenon DEF FreeLabels, Labels, EvictLabels
<1>1. CASE GlobalPush(t) \/ GlobalTouch(t) \/ noteExpiry(t) \/ FlushEnd(t)
  <2>1. Return(t) \/ Goto(t, "note", [l EXCEPT !.ent = Nil])
    BY <1>1, Zenon DEF GlobalPush, GlobalTouch, noteExpiry, FlushEnd
  <2>2. [l EXCEPT !.ent = Nil].exp = l.exp
    BY <1>0, Zenon DEF LocType
  <2> QED BY <1>0, <1>a, <2>1, <2>2, ReturnMoves, FreeMoves, Zenon
<1>2. CASE FlushScan(t)
  <2> DEFINE m == [l EXCEPT !.scan = @ + 1,
                            !.todo = @ \cup {k \in ShardKeys(l.scan) : data[k] # Nil}]
  <2>1. Goto(t, "f_scan", m) \/ Goto(t, "f_del", m)
    BY <1>2, Zenon DEF FlushScan
  <2>2. m.exp = l.exp
    BY <1>0, Zenon DEF LocType
  <2> QED BY <1>0, <1>a, <2>1, <2>2, FreeMoves, Zenon
<1>3. CASE FlushDel(t)
  <2>1. PICK k \in l.todo : LET l2 == [l EXCEPT !.todo = @ \ {k}]
                            IN  removeFromShard(t, data[k], l2, "f_del") \/ Goto(t, "f_del", l2)
    BY <1>3, Zenon DEF FlushDel
  <2> DEFINE m == [l EXCEPT !.todo = @ \ {k}]
  <2>2. m.exp = l.exp /\ m \in LocType
    BY <1>0, Zenon DEF LocType
  <2> HIDE DEF m
  <2>3. removeFromShard(t, data[k], m, "f_del") \/ Goto(t, "f_del", m)
    BY <2>1, Zenon DEF m
  <2> QED BY <1>0, <1>a, <2>2, <2>3, RemoveMoves, FreeMoves, Zenon
<1> QED BY <1>1, <1>2, <1>3, Zenon

\* The expiry worker.
LEMMA WorkerMoves ==
  ASSUME IInv, WhereInv, WorkerTick \/ WorkerPeek \/ deleteIfExpired \/ WorkerDrop
  PROVE  Moves(Worker)
<1> DEFINE l == loc[Worker]
<1>0. l \in LocType /\ Within(l.exp) /\ Within(0) /\ Worker \in Threads
  BY MoveFacts, Zenon DEF Threads
<1>a. "w_peek" \in FreeLabels /\ "w_del" \in FreeLabels /\ "w_drop" \in FreeLabels
  BY Zenon DEF FreeLabels, Labels, EvictLabels
<1>1. CASE WorkerTick
  <2>1. [NoLoc EXCEPT !.op = "expire_due", !.now = clock].exp = 0
    BY Zenon DEF NoLoc
  <2> QED BY <1>0, <1>a, <1>1, <2>1, FreeMoves, Zenon DEF WorkerTick
<1>2. CASE WorkerPeek
  <2>1. Return(Worker) \/ \E k \in DueTop(l.now) : Goto(Worker, "w_del", [l EXCEPT !.key = k, !.at = expH[k]])
    BY <1>2, Zenon DEF WorkerPeek
  <2>2. \A k : [l EXCEPT !.key = k, !.at = expH[k]].exp = l.exp
    BY <1>0, Zenon DEF LocType
  <2> QED BY <1>0, <1>a, <2>1, <2>2, ReturnMoves, FreeMoves, Zenon
<1>3. CASE deleteIfExpired
  <2> DEFINE m == [l EXCEPT !.at = 0]
  <2>1. removeFromShard(Worker, data[l.key], m, "w_peek") \/ Goto(Worker, "w_drop", l)
    BY <1>3, Zenon DEF deleteIfExpired
  <2>2. m.exp = l.exp /\ m \in LocType
    BY <1>0, Zenon DEF LocType
  <2> HIDE DEF m
  <2> QED BY <1>0, <1>a, <2>1, <2>2, RemoveMoves, FreeMoves, Zenon
<1>4. CASE WorkerDrop
  <2>1. [l EXCEPT !.key = Nil, !.at = 0].exp = l.exp
    BY <1>0, Zenon DEF LocType
  <2> QED BY <1>0, <1>a, <1>4, <2>1, FreeMoves, Zenon DEF WorkerDrop
<1> QED BY <1>1, <1>2, <1>3, <1>4, Zenon

\* SetShardingStrategy, which is called only with strategies of SwitchTo.
LEMMA SwitchMoves ==
  ASSUME IInv, WhereInv, SwitchStart \/ SwitchLock \/ SwitchSwap
  PROVE  Moves(Admin) /\ SwitchTo # {}
<1> DEFINE l == loc[Admin]
<1>0. l \in LocType /\ Within(l.exp) /\ Within(0) /\ Admin \in Threads
  BY MoveFacts, Zenon DEF Threads
<1>a. "a_lock" \in FreeLabels /\ "a_swap" \in FreeLabels
  BY Zenon DEF FreeLabels, Labels, EvictLabels
<1>1. CASE SwitchStart
  <2>1. PICK st \in SwitchTo : Goto(Admin, "a_lock", [NoLoc EXCEPT !.op = "switch", !.at = st])
    BY <1>1, Zenon DEF SwitchStart
  <2>2. [NoLoc EXCEPT !.op = "switch", !.at = st].exp = 0
    BY Zenon DEF NoLoc
  <2> QED BY <1>0, <1>a, <2>1, <2>2, FreeMoves, Zenon
<1>2. CASE SwitchLock \/ SwitchSwap
  <2>1. SwitchTo # {}
    BY <1>2, Zenon DEF SwitchLock, SwitchSwap, WhereInv, PlacesOK
  <2>2. \/ Goto(Admin, "a_lock", [l EXCEPT !.scan = @ + 1])
        \/ Goto(Admin, "a_swap", [l EXCEPT !.scan = @ + 1])
        \/ Return(Admin)
    BY <1>2, Zenon DEF SwitchLock, SwitchSwap
  <2>3. [l EXCEPT !.scan = @ + 1].exp = l.exp
    BY <1>0, Zenon DEF LocType
  <2> QED BY <1>0, <1>a, <2>1, <2>2, <2>3, ReturnMoves, FreeMoves, Zenon
<1> QED BY <1>1, <1>2, Zenon

\* The steps of an operation change neither the clock nor the configuration.
LEMMA StepFrame ==
  ASSUME NEW t, Step(t)
  PROVE  UNCHANGED <<clock, strategy, policy, left>>
<1>1. CASE \/ Unlink(t) \/ clearExpiry(t) \/ Absent(t) \/ Get(t) \/ Exists(t) \/ setExpireAt(t)
           \/ Persist(t) \/ IncrRead(t) \/ IncrSet(t) \/ SetCheck(t) \/ NoEvictCheck(t)
           \/ BudgetFits(t) \/ StealFits(t) \/ GlobalSpace(t) \/ PickFromList(t) \/ PickStart(t)
           \/ PickScan(t) \/ PickTTL(t) \/ PickTTLSkip(t) \/ PickTTLValidate(t) \/ PickTTLNote(t)
           \/ EvictStale(t) \/ WriteRefused(t) \/ WriteUpdate(t) \/ WriteInsert(t) \/ GlobalPush(t)
           \/ GlobalTouch(t) \/ noteExpiry(t) \/ FlushScan(t) \/ FlushEnd(t)
  BY <1>1, Zenon DEF Unlink, clearExpiry, Absent, Get, Exists, setExpireAt, Persist, IncrRead, IncrSet,
              SetCheck, NoEvictCheck, BudgetFits, StealFits, GlobalSpace, PickFromList, PickStart,
              PickScan, PickTTL, PickTTLSkip, PickTTLValidate, PickTTLNote, EvictStale,
              WriteRefused, WriteUpdate, WriteInsert, GlobalPush, GlobalTouch, noteExpiry,
              FlushScan, FlushEnd
<1>2. CASE Discard(t) \/ BudgetEvict(t) \/ StealEvict(t) \/ Thief(t) \/ Evict(t) \/ FlushDel(t)
  BY <1>2, Zenon DEF Discard, BudgetEvict, StealEvict, Thief, Evict, FlushDel, removeFromShard
<1> QED BY <1>1, <1>2, Zenon DEF Step

\* All steps of an operation move their thread where it may be.
LEMMA StepMoves ==
  ASSUME IInv, WhereInv, NEW t \in Clients, Step(t)
  PROVE  Moves(t) /\ \A x \in Entries : Within(ent'[x].exp)
<1>0. t \in Threads /\ \A e \in Entries : Within(ent[e].exp)
  BY MoveFacts, Zenon DEF Threads
<1>1. CASE \/ Absent(t) \/ Discard(t) \/ Get(t) \/ Exists(t) \/ setExpireAt(t) \/ Persist(t)
           \/ IncrRead(t) \/ IncrSet(t)
  <2>1. ent' = ent \/ setExpireAt(t) \/ Persist(t)
    BY <1>1, Zenon DEF Absent, Discard, Get, Exists, IncrRead, IncrSet, removeFromShard, shardVars
  <2>2. \/ ent' = ent
        \/ \E e \in Entries, d \in {0, loc[t].exp} : ent' = [ent EXCEPT ![e].exp = d]
    <3>1. CASE setExpireAt(t) \/ Persist(t)
      <4>1. data[loc[t].key] \in Entries
        BY <1>0, <3>1, ThreadFacts, StoredFacts, Zenon
           DEF setExpireAt, Persist, AtLock, Live, Found, LocOK, KeyOps, IInv, ThreadsOK
      <4> QED BY <3>1, <4>1, Zenon DEF setExpireAt, Persist
    <3> QED BY <2>1, <3>1, Zenon
  <2>3. Within(loc[t].exp) /\ Within(0)
    BY <1>0, MoveFacts, Zenon
  <2>4. ent \in [Entries -> [key : Keys \cup {Nil}, size : Nat, exp : Nat]]
    BY Zenon DEF IInv, ShardOK, ShardType
  <2>5. ASSUME NEW x \in Entries PROVE Within(ent'[x].exp)
    <3>1. ent'[x].exp \in {ent[x].exp, 0, loc[t].exp}
      BY <2>2, <2>4, Zenon
    <3> QED BY <1>0, <2>3, <3>1, Zenon
  <2> QED BY <1>0, <1>1, <2>5, KeyOpMoves, Zenon
<1>2. CASE WriteUpdate(t) \/ WriteInsert(t)
  BY <1>0, <1>2, WriteMoves, Zenon
<1>3. CASE Unlink(t) \/ clearExpiry(t)
  <2>1. ent' = ent
    BY <1>3, Zenon DEF Unlink, clearExpiry, shardVars
  <2> QED BY <1>0, <1>3, <2>1, AfterRemovalMoves, Zenon
<1>4. CASE SetCheck(t) \/ NoEvictCheck(t) \/ BudgetFits(t) \/ StealFits(t) \/ WriteRefused(t)
  <2>1. ent' = ent
    BY <1>4, Zenon DEF SetCheck, NoEvictCheck, BudgetFits, StealFits, WriteRefused, shardVars
  <2> QED BY <1>0, <1>4, <2>1, SetMoves, Zenon
<1>5. CASE BudgetEvict(t) \/ StealEvict(t) \/ Thief(t)
  <2>1. ent' = ent
    BY <1>5, Zenon DEF BudgetEvict, StealEvict, Thief, removeFromShard, shardVars
  <2> QED BY <1>0, <1>5, <2>1, LocalEvictMoves, Zenon
<1>6. CASE \/ GlobalSpace(t) \/ PickFromList(t) \/ PickStart(t) \/ PickScan(t)
           \/ PickTTL(t) \/ PickTTLSkip(t) \/ PickTTLValidate(t) \/ PickTTLNote(t)
           \/ Evict(t) \/ EvictStale(t)
  <2>1. ent' = ent
    BY <1>6, Zenon DEF GlobalSpace, PickFromList, PickStart, PickScan, PickTTL, PickTTLSkip,
                PickTTLValidate, PickTTLNote, Evict, EvictStale, removeFromShard, shardVars
  <2> QED BY <1>0, <1>6, <2>1, GlobalEvictMoves, Zenon
<1>7. CASE GlobalPush(t) \/ GlobalTouch(t) \/ noteExpiry(t) \/ FlushScan(t) \/ FlushDel(t) \/ FlushEnd(t)
  <2>1. ent' = ent
    BY <1>7, Zenon DEF GlobalPush, GlobalTouch, noteExpiry, FlushScan, FlushDel, FlushEnd, removeFromShard, shardVars
  <2> QED BY <1>0, <1>7, <2>1, TailMoves, Zenon
<1> QED BY <1>1, <1>2, <1>3, <1>4, <1>5, <1>6, <1>7, Zenon DEF Step

\* Every step keeps threads where they may be and deadlines within MaxTTL.
LEMMA WhereStep ==
  ASSUME IInv, WhereInv, [Next]_vars
  PROVE  WhereInv'
<1>0. \A e \in Entries : Within(ent[e].exp)
  BY Zenon DEF WhereInv, DeadlinesOK
<1>c. \A t \in Clients : t \in Threads /\ t # Admin
  BY StoreAssumption, Zenon DEF Threads
<1>w. Worker \in Threads /\ Worker # Admin /\ Admin \in Threads
  BY StoreAssumption, Zenon DEF Threads
<1>1. ASSUME NEW t \in Clients, Start(t) PROVE WhereInv'
  <2>1. UNCHANGED <<ent, clock, strategy, policy>>
    BY <1>1, Zenon DEF Start, StartSet, StartKeyOp, StartExpire, StartIncr, StartFlush, Starts, shardVars
  <2>2. Moves(t)
    BY <1>1, StartMoves, Zenon
  <2> QED BY <1>0, <1>c, <2>1, <2>2, MoveKeeps, Zenon
<1>2. ASSUME NEW t \in Clients, Step(t) PROVE WhereInv'
  <2>1. UNCHANGED <<clock, strategy, policy>>
    BY <1>2, StepFrame, Zenon
  <2>2. Moves(t) /\ \A x \in Entries : Within(ent'[x].exp)
    BY <1>2, StepMoves, Zenon
  <2> QED BY <1>c, <2>1, <2>2, MoveKeeps, Zenon
<1>3. CASE WorkerStep
  <2>1. UNCHANGED <<ent, clock, strategy, policy>>
    BY <1>3, Zenon DEF WorkerStep, Unlink, clearExpiry, WorkerTick, WorkerPeek, deleteIfExpired,
                WorkerDrop, removeFromShard, shardVars
  <2>2. Moves(Worker)
    BY <1>3, <1>w, AfterRemovalMoves, WorkerMoves, Zenon DEF WorkerStep
  <2> QED BY <1>0, <1>w, <2>1, <2>2, MoveKeeps, Zenon
<1>4. CASE SwitchStart \/ AdminStep
  <2>1. UNCHANGED <<ent, clock, policy>>
    BY <1>4, Zenon DEF SwitchStart, AdminStep, SwitchLock, SwitchSwap, shardVars
  <2>2. Moves(Admin) /\ SwitchTo # {}
    BY <1>4, SwitchMoves, Zenon DEF AdminStep
  <2> QED BY <1>0, <1>w, <2>1, <2>2, MoveKeeps, Zenon
<1>5. CASE Advance
  <2>1. /\ UNCHANGED <<ent, strategy, policy, pc, loc>> /\ clock' = clock + 1
        /\ clock \in Nat /\ MaxTTL \in Nat
        /\ \A e \in Entries : ent[e].exp \in Nat
        /\ \A t \in Threads : loc[t].exp \in Nat
    BY <1>5, StoreAssumption, Zenon DEF Advance, shardVars, IInv, GlobalType, ShardOK, ShardType, ThreadsOK, LocType
  <2>2. DeadlinesOK'
    BY <2>1 DEF WhereInv, DeadlinesOK, Within
  <2>3. PlacesOK'
    BY <2>1, Zenon DEF WhereInv, PlacesOK, PlaceOK, Resumes
  <2> QED BY <2>2, <2>3, Zenon DEF WhereInv
<1>6. CASE UNCHANGED vars
  <2>1. UNCHANGED <<ent, strategy, policy, pc, loc, clock>>
    BY <1>6, Zenon DEF vars
  <2> QED BY <2>1, Zenon DEF WhereInv, DeadlinesOK, Within, PlacesOK, PlaceOK, Resumes
<1> QED BY <1>1, <1>2, <1>3, <1>4, <1>5, <1>6, Zenon DEF Next, Done

\* The initial state.
LEMMA WhereInit == Init => WhereInv
<1> SUFFICES ASSUME Init PROVE WhereInv
  BY Zenon
<1>1. /\ \A t \in Threads : pc[t] = "idle" /\ loc[t] = NoLoc
      /\ \A e \in Entries : ent[e] = NoEntry
      /\ clock = 1 /\ Admin \in Threads
  BY Zenon DEF Init, Threads
<1>2. NoLoc.exp = 0 /\ NoEntry.exp = 0
  BY Zenon DEF NoLoc, NoEntry
<1>3. DeadlinesOK
  BY <1>1, <1>2, StoreAssumption DEF DeadlinesOK, Within
<1>4. PlacesOK
  BY <1>1, Zenon DEF PlacesOK, PlaceOK, Resumes, EvictLabels
<1> QED BY <1>3, <1>4, Zenon DEF WhereInv

----------------------------------------------------------------------------
(* The steps at the write and at the choice of a victim *)

\* A client's label changes only in a step of its own.
LEMMA OwnStep ==
  ASSUME IInv, WhereInv, [Next]_vars, NEW t \in Clients, pc'[t] # pc[t]
  PROVE  Start(t) \/ Step(t)
<1>1. ASSUME NEW u \in Threads, u # t, Moves(u) PROVE FALSE
  <2>1. PICK a, m : Goto(u, a, m)
    BY <1>1, Zenon DEF Moves
  <2>2. pc' = [pc EXCEPT ![u] = a] /\ pc \in [Threads -> Labels] /\ t \in Threads
    BY <2>1, Zenon DEF Goto, IInv, ThreadsOK, Threads
  <2> QED BY <1>1, <2>2, Zenon
<1>2. \A u \in Clients : u \in Threads
  BY Zenon DEF Threads
<1>3. ASSUME NEW u \in Clients, Start(u) \/ Step(u) PROVE Start(t) \/ Step(t)
  <2>1. CASE u = t
    BY <1>3, <2>1, Zenon
  <2>2. CASE u # t
    BY <1>1, <1>2, <1>3, <2>2, StartMoves, StepMoves, Zenon
  <2> QED BY <2>1, <2>2, Zenon
<1>4. CASE WorkerStep
  <2>1. Worker \in Threads /\ Worker # t
    BY StoreAssumption, Zenon DEF Threads
  <2> QED BY <1>1, <1>4, <2>1, AfterRemovalMoves, WorkerMoves, Zenon DEF WorkerStep
<1>5. CASE SwitchStart \/ AdminStep
  <2>1. Admin \in Threads /\ Admin # t
    BY StoreAssumption, Zenon DEF Threads
  <2> QED BY <1>1, <1>5, <2>1, SwitchMoves, Zenon DEF AdminStep
<1>6. CASE Advance \/ Done \/ UNCHANGED vars
  BY <1>6, Zenon DEF Advance, Done, vars
<1> QED BY <1>3, <1>4, <1>5, <1>6, Zenon DEF Next

\* The steps at the labels where a Set writes or evicts.
LEMMA StepsAt ==
  ASSUME NEW t, Step(t)
  PROVE  /\ pc[t] = "write" => WriteRefused(t) \/ WriteUpdate(t) \/ WriteInsert(t)
         /\ pc[t] = "budget" => BudgetFits(t) \/ BudgetEvict(t)
         /\ pc[t] = "steal" => StealFits(t) \/ StealEvict(t)
         /\ pc[t] = "thief" => Thief(t)
         /\ pc[t] = "evict" => Evict(t)
         /\ pc[t] = "push" => GlobalPush(t)
<1>1. CASE \/ WriteRefused(t) \/ WriteUpdate(t) \/ WriteInsert(t) \/ BudgetFits(t) \/ BudgetEvict(t)
           \/ StealFits(t) \/ StealEvict(t) \/ Thief(t) \/ Evict(t) \/ GlobalPush(t)
  BY <1>1, Zenon DEF WriteRefused, WriteUpdate, WriteInsert, AtWrite, BudgetFits, BudgetEvict,
              StealFits, StealEvict, Thief, Evict, GlobalPush
<1>2. CASE \/ Unlink(t) \/ clearExpiry(t) \/ Absent(t) \/ Discard(t) \/ Get(t) \/ Exists(t)
           \/ setExpireAt(t) \/ Persist(t) \/ IncrRead(t) \/ IncrSet(t) \/ SetCheck(t)
           \/ NoEvictCheck(t) \/ GlobalSpace(t) \/ PickFromList(t) \/ PickStart(t) \/ PickScan(t)
           \/ PickTTL(t) \/ PickTTLSkip(t) \/ PickTTLValidate(t) \/ PickTTLNote(t)
           \/ EvictStale(t) \/ GlobalTouch(t) \/ noteExpiry(t)
           \/ FlushScan(t) \/ FlushDel(t) \/ FlushEnd(t)
  BY <1>2, Zenon DEF Unlink, clearExpiry, Absent, Discard, Get, Exists, setExpireAt, Persist, IncrRead,
              IncrSet, SetCheck, NoEvictCheck, GlobalSpace, PickFromList, PickStart, PickScan,
              PickTTL, PickTTLSkip, PickTTLValidate, PickTTLNote, EvictStale,
              GlobalTouch, noteExpiry, FlushScan, FlushDel, FlushEnd, AtLock
<1> QED BY <1>1, <1>2, Zenon DEF Step

\* A start needs an idle client.
LEMMA StartIdle == ASSUME NEW t, Start(t) PROVE pc[t] = "idle"
BY Zenon DEF Start, StartSet, StartKeyOp, StartExpire, StartIncr, StartFlush, Starts

\* A removal moves its thread away from the label of the eviction, and takes at most
\* the key of the removed entry from the map.
LEMMA RemovalEffect ==
  ASSUME IInv, NEW t \in Threads, NEW e, NEW k \in Keys, data[k] = e, e # Nil,
         NEW l, NEW then, removeFromShard(t, e, l, then)
  PROVE  /\ pc'[t] \in {"unlink", "clear", "incr"}
         /\ \A j \in Keys : data'[j] = IF j = k THEN Nil ELSE data[j]
<1>1. ent[e].key = k /\ data \in [Keys -> Entries \cup {Nil}] /\ pc \in [Threads -> Labels]
  BY StoredFacts, Zenon DEF IInv, ShardOK, ShardType, ThreadsOK
<1>2. data' = [data EXCEPT ![k] = Nil]
  BY <1>1, Zenon DEF removeFromShard
<1>3. PICK a \in {"unlink", "clear", "incr"} : \E m : Goto(t, a, m)
  BY Zenon DEF removeFromShard, AfterUnlink
<1>4. pc'[t] = a
  BY <1>1, <1>3, Zenon DEF Goto
<1> QED BY <1>1, <1>2, <1>3, <1>4, Zenon

----------------------------------------------------------------------------
(* The kinds of steps, by what they change *)

\* The entry of k leaves its shard.
Removes(t, k) == data[k] # Nil /\ \E l, then : removeFromShard(t, data[k], l, then)

\* Neither a shard nor the tenant-wide lists change.
Quiet(t) ==
  /\ UNCHANGED <<shardVars, used, globalVars>>
  /\ pc'[t] \notin {"unlink", "push"}
  /\ pc'[t] = "write" => NoEvictCheck(t) \/ BudgetFits(t) \/ StealFits(t) \/ GlobalSpace(t)

\* The labels outside the sections that change lists or entries.
CalmLabels == Labels \ {"unlink", "push", "write"}

\* A jump to one of them is quiet when it leaves the store alone ...
LEMMA QuietGoto ==
  ASSUME IInv, NEW t \in Threads, NEW a \in CalmLabels, NEW m, Goto(t, a, m),
         UNCHANGED <<shardVars, used, globalVars>>
  PROVE  Quiet(t)
<1>1. pc'[t] = a
  BY Zenon DEF Goto, IInv, ThreadsOK
<1> QED BY <1>1, Zenon DEF Quiet, CalmLabels

\* ... and so is the end of an operation.
LEMMA QuietReturn ==
  ASSUME IInv, NEW t \in Threads, Return(t), UNCHANGED <<shardVars, used, globalVars>>
  PROVE  Quiet(t)
<1>1. "idle" \in CalmLabels
  BY Zenon DEF CalmLabels, Labels
<1> QED BY <1>1, QuietGoto, Zenon DEF Return

\* clearExpiry, the operations on one key that change nothing, and FlushDB's scan.
LEMMA QuietLook ==
  ASSUME IInv, NEW t \in Threads,
         \/ clearExpiry(t) \/ Absent(t) \/ Exists(t) \/ IncrRead(t) \/ IncrSet(t)
         \/ noteExpiry(t) \/ FlushScan(t) \/ FlushEnd(t)
  PROVE  Quiet(t)
<1>0. UNCHANGED <<shardVars, used, globalVars>>
  BY Zenon DEF clearExpiry, Absent, Exists, IncrRead, IncrSet, noteExpiry, FlushScan, FlushEnd
<1>1. CASE clearExpiry(t)
  <2>1. LocOK("clear", loc[t])
    BY <1>1, ThreadFacts, Zenon DEF clearExpiry
  <2>2. Return(t) \/ \E m : Goto(t, IF loc[t].then = "thief" THEN "steal" ELSE loc[t].then, m)
    BY <1>1, Zenon DEF clearExpiry
  <2>3. (IF loc[t].then = "thief" THEN "steal" ELSE loc[t].then) \in CalmLabels
    BY <2>1, Zenon DEF LocOK, CalmLabels, Labels
  <2> QED BY <1>0, <2>2, <2>3, QuietReturn, QuietGoto, Zenon
<1>2. CASE Absent(t) \/ Exists(t) \/ noteExpiry(t) \/ FlushEnd(t)
  BY <1>0, <1>2, QuietReturn, Zenon DEF Absent, Exists, noteExpiry, FlushEnd
<1>3. CASE IncrRead(t) \/ IncrSet(t) \/ FlushScan(t)
  <2>1. Return(t) \/ \E a \in {"incr", "lock", "f_scan", "f_del"} : \E m : Goto(t, a, m)
    BY <1>3, Zenon DEF IncrRead, IncrSet, FlushScan, SetPrologue
  <2>2. \A a \in {"incr", "lock", "f_scan", "f_del"} : a \in CalmLabels
    BY Zenon DEF CalmLabels, Labels
  <2> QED BY <1>0, <2>1, <2>2, QuietReturn, QuietGoto, Zenon
<1> QED BY <1>1, <1>2, <1>3, Zenon

\* Set up to the write.
LEMMA QuietSet ==
  ASSUME IInv, NEW t \in Threads,
         \/ SetCheck(t) \/ NoEvictCheck(t) \/ BudgetFits(t) \/ StealFits(t) \/ GlobalSpace(t)
         \/ WriteRefused(t)
  PROVE  Quiet(t)
<1>0. UNCHANGED <<shardVars, used, globalVars>>
  BY Zenon DEF SetCheck, NoEvictCheck, BudgetFits, StealFits, GlobalSpace, WriteRefused
<1>1. CASE SetCheck(t) \/ WriteRefused(t)
  <2>1. Return(t) \/ \E a \in {"noevict", "gspace", "steal", "budget"} : \E m : Goto(t, a, m)
    BY <1>1, Zenon DEF SetCheck, WriteRefused
  <2>2. \A a \in {"noevict", "gspace", "steal", "budget"} : a \in CalmLabels
    BY Zenon DEF CalmLabels, Labels
  <2> QED BY <1>0, <2>1, <2>2, QuietReturn, QuietGoto, Zenon
<1>2. CASE NoEvictCheck(t) \/ BudgetFits(t) \/ StealFits(t) \/ GlobalSpace(t)
  <2>1. Return(t) \/ \E a \in {"write", "pick"} : Goto(t, a, loc[t])
    BY <1>2, Zenon DEF NoEvictCheck, BudgetFits, StealFits, GlobalSpace
  <2>2. pc'[t] \in {"idle", "write", "pick"}
    BY <2>1, Zenon DEF Return, Goto, IInv, ThreadsOK
  <2> QED BY <1>0, <1>2, <2>2, Zenon DEF Quiet
<1> QED BY <1>1, <1>2, Zenon

\* The search for a victim of the whole tenant.
LEMMA QuietPick ==
  ASSUME IInv, NEW t \in Threads,
         \/ PickFromList(t) \/ PickStart(t) \/ PickScan(t) \/ PickTTL(t) \/ PickTTLSkip(t)
         \/ PickTTLValidate(t) \/ PickTTLNote(t)
  PROVE  Quiet(t)
<1>0. UNCHANGED <<shardVars, used, globalVars>>
  BY Zenon DEF PickFromList, PickStart, PickScan, PickTTL, PickTTLSkip, PickTTLValidate, PickTTLNote
<1>1. Return(t) \/ \E a \in {"evict", "scan", "ttlskip", "ttlval", "clear", "ttlnote", "pick"} : \E m : Goto(t, a, m)
  <2>1. CASE PickFromList(t) \/ PickStart(t) \/ PickScan(t)
    BY <2>1, Zenon DEF PickFromList, PickStart, PickScan
  <2>2. CASE PickTTL(t) \/ PickTTLSkip(t) \/ PickTTLValidate(t) \/ PickTTLNote(t)
    BY <2>2, Zenon DEF PickTTL, PickTTLSkip, PickTTLValidate, PickTTLNote
  <2> QED BY <2>1, <2>2, Zenon
<1>2. \A a \in {"evict", "scan", "ttlskip", "ttlval", "clear", "ttlnote", "pick"} : a \in CalmLabels
  BY Zenon DEF CalmLabels, Labels
<1> QED BY <1>0, <1>1, <1>2, QuietReturn, QuietGoto, Zenon

\* The steps that may remove an entry.
LEMMA RemovalKinds ==
  ASSUME IInv, NEW t \in Threads,
         \/ Discard(t) \/ BudgetEvict(t) \/ StealEvict(t) \/ Thief(t) \/ Evict(t) \/ FlushDel(t)
  PROVE  Quiet(t) \/ \E k \in Keys : Removes(t, k)
<1> DEFINE l == loc[t]
<1>0. l \in LocType /\ LocOK(pc[t], l)
  BY ThreadFacts, Zenon
<1>1. CASE Discard(t)
  <2>1. l.key \in Keys
    BY <1>0, <1>1, Zenon DEF Discard, AtLock, LocOK, KeyOps
  <2>2. data[l.key] # Nil /\ \E then : removeFromShard(t, data[l.key], l, then)
    BY <1>1, Zenon DEF Discard, Found
  <2> QED BY <2>1, <2>2, Zenon DEF Removes
<1>2. CASE BudgetEvict(t) \/ StealEvict(t) \/ Thief(t)
  <2>0. l.key \in Keys /\ l.scan \in Nat
    <3>1. pc[t] \in {"budget", "steal", "thief"}
      BY <1>2, Zenon DEF BudgetEvict, StealEvict, Thief
    <3> QED BY <1>0, <3>1, Zenon DEF LocOK, Resumes, SetLabels, KeyOps, LocType
  <2>1. Shard(t) \in Shards /\ (Shard(t) + 1 + l.scan) % ShardCount \in Shards
    <3>1. Shard(t) \in Shards /\ ShardCount \in Nat \ {0}
      BY <2>0, Parameters, Zenon DEF Shard
    <3> QED BY <2>0, <3>1 DEF Shards
  <2>2. \/ UNCHANGED <<shardVars, used, globalVars>> /\ Return(t)
        \/ UNCHANGED <<shardVars, used, globalVars>> /\ \E m : Goto(t, "thief", m)
        \/ \E s \in Shards : \E e \in pickLocalVictim(s, l.key), then \in {"budget", "steal", "thief"} :
              removeFromShard(t, e, l, then)
    <3>1. CASE BudgetEvict(t)
      BY <2>1, <3>1, Zenon DEF BudgetEvict
    <3>2. CASE StealEvict(t)
      BY <2>1, <3>2, Zenon DEF StealEvict
    <3>3. CASE Thief(t)
      BY <2>1, <3>3, Zenon DEF Thief
    <3> QED BY <1>2, <3>1, <3>2, <3>3, Zenon
  <2>3. ASSUME NEW s \in Shards, NEW e \in pickLocalVictim(s, l.key), NEW then,
               removeFromShard(t, e, l, then)
        PROVE  \E k \in Keys : Removes(t, k)
    <3>1. PICK k \in Keys : data[k] = e /\ e # Nil
      BY <2>3, VictimIsStored
    <3> QED BY <2>3, <3>1, Zenon DEF Removes
  <2>4. "thief" \in CalmLabels
    BY Zenon DEF CalmLabels, Labels
  <2> QED BY <2>2, <2>3, <2>4, QuietReturn, QuietGoto, Zenon
<1>3. CASE Evict(t)
  <2>1. l.vk \in Keys
    BY <1>0, <1>3, Zenon DEF Evict, LocOK
  <2>2. \/ data[l.vk] # Nil /\ removeFromShard(t, data[l.vk], l, "gspace")
        \/ UNCHANGED <<shardVars, used, globalVars>> /\ Goto(t, "stale", l)
    BY <1>3, Zenon DEF Evict
  <2>3. "stale" \in CalmLabels
    BY Zenon DEF CalmLabels, Labels
  <2>4. CASE data[l.vk] # Nil /\ removeFromShard(t, data[l.vk], l, "gspace")
    BY <2>1, <2>4, Zenon DEF Removes
  <2> QED BY <2>2, <2>3, <2>4, QuietGoto, Zenon
<1>4. CASE FlushDel(t)
  <2>1. PICK k \in l.todo :
          \/ data[k] # Nil /\ \E m : removeFromShard(t, data[k], m, "f_del")
          \/ UNCHANGED <<shardVars, used, globalVars>> /\ \E m : Goto(t, "f_del", m)
    BY <1>4, Zenon DEF FlushDel
  <2>2. k \in Keys
    BY <1>0, Zenon DEF LocType
  <2>3. "f_del" \in CalmLabels
    BY Zenon DEF CalmLabels, Labels
  <2>4. CASE data[k] # Nil /\ \E m : removeFromShard(t, data[k], m, "f_del")
    BY <2>2, <2>4, Zenon DEF Removes
  <2> QED BY <2>1, <2>3, <2>4, QuietGoto, Zenon
<1> QED BY <1>1, <1>2, <1>3, <1>4, Zenon

\* A step of client t, by what it changes.
LEMMA StepKinds ==
  ASSUME IInv, NEW t \in Clients, Step(t)
  PROVE  \/ Quiet(t) \/ (\E k \in Keys : Removes(t, k))
         \/ Get(t) \/ setExpireAt(t) \/ Persist(t) \/ WriteUpdate(t) \/ WriteInsert(t)
         \/ Unlink(t) \/ EvictStale(t) \/ GlobalPush(t) \/ GlobalTouch(t)
<1>0. t \in Threads
  BY Zenon DEF Threads
<1>1. CASE \/ clearExpiry(t) \/ Absent(t) \/ Exists(t) \/ IncrRead(t) \/ IncrSet(t)
           \/ noteExpiry(t) \/ FlushScan(t) \/ FlushEnd(t)
  BY <1>0, <1>1, QuietLook, Zenon
<1>2. CASE \/ SetCheck(t) \/ NoEvictCheck(t) \/ BudgetFits(t) \/ StealFits(t) \/ GlobalSpace(t)
           \/ WriteRefused(t)
  BY <1>0, <1>2, QuietSet, Zenon
<1>3. CASE \/ PickFromList(t) \/ PickStart(t) \/ PickScan(t) \/ PickTTL(t) \/ PickTTLSkip(t)
           \/ PickTTLValidate(t) \/ PickTTLNote(t)
  BY <1>0, <1>3, QuietPick, Zenon
<1>4. CASE \/ Discard(t) \/ BudgetEvict(t) \/ StealEvict(t) \/ Thief(t) \/ Evict(t) \/ FlushDel(t)
  BY <1>0, <1>4, RemovalKinds, Zenon
<1> QED BY <1>1, <1>2, <1>3, <1>4, Zenon DEF Step

\* A step of the expiry worker.
LEMMA WorkerKinds ==
  ASSUME IInv, WorkerStep
  PROVE  Quiet(Worker) \/ (\E k \in Keys : Removes(Worker, k)) \/ Unlink(Worker)
<1> DEFINE l == loc[Worker]
<1>0. Worker \in Threads /\ LocOK(pc[Worker], l)
  BY ThreadFacts, Zenon DEF Threads
<1>1. CASE clearExpiry(Worker)
  BY <1>0, <1>1, QuietLook, Zenon
<1>2. CASE WorkerTick \/ WorkerPeek \/ WorkerDrop
  <2>1. UNCHANGED <<shardVars, used, globalVars>>
    BY <1>2, Zenon DEF WorkerTick, WorkerPeek, WorkerDrop
  <2>2. Return(Worker) \/ \E a \in {"w_peek", "w_del"} : \E m : Goto(Worker, a, m)
    BY <1>2, Zenon DEF WorkerTick, WorkerPeek, WorkerDrop
  <2>3. \A a \in {"w_peek", "w_del"} : a \in CalmLabels
    BY Zenon DEF CalmLabels, Labels
  <2> QED BY <1>0, <2>1, <2>2, <2>3, QuietReturn, QuietGoto, Zenon
<1>3. CASE deleteIfExpired
  <2>1. l.key \in Keys
    BY <1>0, <1>3, Zenon DEF deleteIfExpired, LocOK
  <2>2. \/ data[l.key] # Nil /\ \E m : removeFromShard(Worker, data[l.key], m, "w_peek")
        \/ UNCHANGED <<shardVars, used, globalVars>> /\ Goto(Worker, "w_drop", l)
    BY <1>3, Zenon DEF deleteIfExpired, Found
  <2>3. "w_drop" \in CalmLabels
    BY Zenon DEF CalmLabels, Labels
  <2>4. CASE data[l.key] # Nil /\ \E m : removeFromShard(Worker, data[l.key], m, "w_peek")
    BY <2>1, <2>4, Zenon DEF Removes
  <2> QED BY <1>0, <2>2, <2>3, <2>4, QuietGoto, Zenon
<1> QED BY <1>1, <1>2, <1>3, Zenon DEF WorkerStep

\* The start of an operation.
LEMMA StartKinds ==
  ASSUME IInv, NEW t \in Clients, Start(t)
  PROVE  Quiet(t)
<1>0. t \in Threads
  BY Zenon DEF Threads
<1>1. UNCHANGED <<shardVars, used, globalVars>>
  BY Zenon DEF Start, StartSet, StartKeyOp, StartExpire, StartIncr, StartFlush, Starts
<1>2. Return(t) \/ \E a \in {"lock", "f_scan"} : \E m : Goto(t, a, m)
  BY Zenon DEF Start, StartSet, StartKeyOp, StartExpire, StartIncr, StartFlush, SetPrologue
<1>3. \A a \in {"lock", "f_scan"} : a \in CalmLabels
  BY Zenon DEF CalmLabels, Labels
<1> QED BY <1>0, <1>1, <1>2, <1>3, QuietReturn, QuietGoto, Zenon

\* What a removal does to the counter and to the label of its thread.
LEMMA RemovalFrees ==
  ASSUME IInv, NEW t \in Threads, NEW k \in Keys, Removes(t, k)
  PROVE  /\ used' <= used /\ pc'[t] \in {"unlink", "clear", "incr"}
         /\ \A j \in Keys : data'[j] = IF j = k THEN Nil ELSE data[j]
<1>1. PICK l, then : removeFromShard(t, data[k], l, then)
  BY Zenon DEF Removes
<1>2. data[k] \in Entries /\ ent[data[k]].size \in 1 .. MaxSize /\ used \in Nat /\ MaxSize \in Nat
  BY StoredFacts, Parameters, Zenon DEF Removes, IInv, ShardOK, ShardType
<1>3. used' = SatSub(used, ent[data[k]].size)
  BY <1>1, Zenon DEF removeFromShard
<1>4. used' <= used
  BY <1>2, <1>3 DEF SatSub
<1> QED BY <1>1, <1>4, RemovalEffect, Zenon DEF Removes

\* An update adds at most the size of the new entry.
LEMMA WriteAdds ==
  ASSUME IInv, NEW t \in Threads, WriteUpdate(t) \/ WriteInsert(t)
  PROVE  /\ pc[t] = "write" /\ pc'[t] \in {"touch", "push", "note"}
         /\ used' <= used + MaxSize
<1> DEFINE l == loc[t]
<1>1. pc[t] = "write" /\ LocOK("write", l)
  BY ThreadFacts, Zenon DEF WriteUpdate, WriteInsert, AtWrite
<1>2. l.key \in Keys /\ l.size \in 1 .. MaxSize /\ MaxSize \in Nat /\ used \in Nat
  BY <1>1, Parameters, Zenon DEF LocOK, Resumes, SetLabels, KeyOps, IInv, ShardOK, ShardType
<1>3. PICK a \in {"touch", "push", "note"} : \E m : Goto(t, a, m)
  BY Zenon DEF WriteUpdate, WriteInsert
<1>4. pc'[t] = a
  BY <1>3, Zenon DEF Goto, IInv, ThreadsOK
<1>5. CASE WriteInsert(t)
  <2>1. used' = used + l.size
    BY <1>5, Zenon DEF WriteInsert
  <2> HIDE DEF l
  <2>2. used' <= used + MaxSize
    BY <1>2, <2>1
  <2> QED BY <1>1, <1>4, <2>2, Zenon
<1>6. CASE WriteUpdate(t)
  <2> DEFINE n == ent[data[l.key]].size
  <2>1. n \in 1 .. MaxSize
    BY <1>2, <1>6, StoredFacts, Zenon DEF WriteUpdate, Found
  <2>2. used' = IF l.size >= n THEN used + (l.size - n) ELSE SatSub(used, n - l.size)
    BY <1>6, Zenon DEF WriteUpdate
  <2> HIDE DEF n, l
  <2>3. used' <= used + MaxSize
    BY <1>2, <2>1, <2>2 DEF SatSub
  <2> QED BY <1>1, <1>4, <2>3, Zenon
<1> QED BY <1>5, <1>6, Zenon

\* What a step of client t does to db.used.
LEMMA MemoryStep ==
  ASSUME IInv, WhereInv, SwitchTo = {}, strategy # ShardBudget, NEW t \in Clients, Start(t) \/ Step(t)
  PROVE  \/ pc'[t] # "write" /\ used' <= used
         \/ pc'[t] = "write" /\ used' = used /\ used <= MaxMemory
         \/ pc[t] = "write" /\ pc'[t] # "write" /\ used' <= used + MaxSize
<1>0. t \in Threads /\ used \in Nat /\ loc[t] \in LocType /\ PlaceOK(pc[t], loc[t]) /\ MaxMemory \in Nat
  BY MoveFacts, Parameters, Zenon DEF Threads, IInv, ShardOK, ShardType
<1>1. CASE Quiet(t)
  <2>0. used' = used
    BY <1>1, Zenon DEF Quiet
  <2>1. CASE pc'[t] # "write"
    BY <1>0, <2>0, <2>1
  <2>2. CASE pc'[t] = "write"
    <3>1. NoEvictCheck(t) \/ BudgetFits(t) \/ StealFits(t) \/ GlobalSpace(t)
      BY <1>1, <2>2, Zenon DEF Quiet
    <3>2. ~ BudgetFits(t)
      BY <1>0, Zenon DEF BudgetFits, PlaceOK, Resumes
    <3>3. used + loc[t].need <= MaxMemory
      <4>1. CASE NoEvictCheck(t)
        <5>1. ~ Return(t)
          BY <1>0, <2>2, Zenon DEF Return, Goto, IInv, ThreadsOK
        <5>2. ~ (used + loc[t].need > MaxMemory)
          BY <4>1, <5>1, Zenon DEF NoEvictCheck
        <5> QED BY <1>0, <5>2 DEF LocType
      <4>2. CASE StealFits(t)
        BY <4>2, Zenon DEF StealFits
      <4>3. CASE GlobalSpace(t)
        <5>1. Goto(t, IF used + loc[t].need > MaxMemory THEN "pick" ELSE "write", loc[t])
          BY <4>3, Zenon DEF GlobalSpace
        <5>2. ~ (used + loc[t].need > MaxMemory)
          BY <1>0, <2>2, <5>1, Zenon DEF Goto, IInv, ThreadsOK
        <5> QED BY <1>0, <5>2 DEF LocType
      <4> QED BY <3>1, <3>2, <4>1, <4>2, <4>3, Zenon
    <3>4. loc[t].need \in Nat
      BY <1>0, Zenon DEF LocType
    <3> QED BY <1>0, <1>1, <2>2, <3>3, <3>4 DEF Quiet
  <2> QED BY <2>1, <2>2, Zenon
<1>2. CASE \E k \in Keys : Removes(t, k)
  BY <1>0, <1>2, RemovalFrees, Zenon
<1>3. CASE WriteUpdate(t) \/ WriteInsert(t)
  BY <1>0, <1>3, WriteAdds, Zenon
<1>4. CASE \/ Get(t) \/ setExpireAt(t) \/ Persist(t) \/ Unlink(t) \/ EvictStale(t)
           \/ GlobalPush(t) \/ GlobalTouch(t)
  <2>1. used' = used
    BY <1>4, Zenon DEF Get, setExpireAt, Persist, Unlink, EvictStale, GlobalPush, GlobalTouch
  <2>2. \E a \in {"idle", "touch", "note", "clear", "incr", "gspace"} : \E m : Goto(t, a, m)
    BY <1>4, Zenon DEF Get, setExpireAt, Persist, Unlink, EvictStale, GlobalPush, GlobalTouch,
                AfterUnlink, Return
  <2>3. pc'[t] # "write"
    BY <1>0, <2>2, Zenon DEF Goto, IInv, ThreadsOK
  <2> QED BY <1>0, <2>1, <2>3
<1> QED BY <1>1, <1>2, <1>3, <1>4, StartKinds, StepKinds, Zenon

\* A move leaves the other threads where they are.
LEMMA MovesOne ==
  ASSUME IInv, NEW u \in Threads, Moves(u)
  PROVE  \A t \in Threads \ {u} : pc'[t] = pc[t] /\ loc'[t] = loc[t]
<1>1. PICK a, m : Goto(u, a, m)
  BY Zenon DEF Moves
<1>2. /\ pc' = [pc EXCEPT ![u] = a] /\ loc' = [loc EXCEPT ![u] = m]
      /\ pc \in [Threads -> Labels] /\ loc \in [Threads -> LocType]
  BY <1>1, Zenon DEF Goto, IInv, ThreadsOK
<1> QED BY <1>2, Zenon
=============================================================================
