------------------------------- MODULE Store -------------------------------
(***************************************************************************)
(* One tenant's string store (internal/store): sharded maps, per-shard     *)
(* mutexes, the atomic memory counter, the tenant-wide eviction lists and  *)
(* the expiry heap, as they are used by concurrent client connections and  *)
(* by the background expiry worker.                                        *)
(*                                                                         *)
(* Grain of atomicity.  A step is one access to state that other threads   *)
(* can reach without the shard mutex (db.used, the lists under gMu, the    *)
(* heap under expMu), together with the accesses to the shard that the     *)
(* mutex protects.  mu[s] is explicit because a shard mutex is held across *)
(* several such steps; gMu and expMu are leaf locks, never held across     *)
(* two, and need no variable.                                              *)
(*                                                                         *)
(* Data.  A value is its size; an entry is an object identity, so that an  *)
(* entry that has left the map can still be linked in a list.  LFU         *)
(* frequencies are abstracted: the LFU policies may choose any eligible    *)
(* entry here.                                                             *)
(***************************************************************************)
EXTENDS Lists

CONSTANTS
  Keys, Clients,
  Worker, Admin,   \* the expiry goroutine; a caller of SetShardingStrategy
  Entries,         \* object identities
  Nil,             \* a nil *entry, a free mutex
  ShardCount, ShardOf,
  MaxMemory, MaxTTL,
  Configs,         \* the strategies and policies a tenant may be configured with
  SwitchTo,        \* strategies SetShardingStrategy is called with
  Sizes, MaxSize,  \* sizes of written entries, and a bound on them
  Work             \* Work[policy]: what is done under it: the operations (ops), keys, SET
                   \* options (modes) and TTLs (ttls, 0: none) the clients use; bounds on
                   \* the calls of each client, on the calls of SetShardingStrategy
                   \* (switches) and on the clock (time)

Threads == Clients \cup {Worker, Admin}
Shards == 0 .. ShardCount - 1

\* Strategies (store.go)
GlobalTrack == 1
Steal == 2
ShardBudget == 3

NoEviction == "noeviction"
LruPolicies == {"allkeys-lru", "volatile-lru"}
FifoPolicies == {"allkeys-fifo", "volatile-fifo"}
RandomPolicies == {"allkeys-random", "volatile-random"}
LfuPolicies == {"allkeys-lfu", "volatile-lfu"}
TtlPolicies == {"volatile-ttl"}
Policies == {NoEviction} \cup LruPolicies \cup FifoPolicies \cup RandomPolicies
              \cup LfuPolicies \cup TtlPolicies

Operations == {"get", "exists", "set", "del", "persist", "expire", "incr", "flush"}

ASSUME StoreAssumption ==
  /\ ShardCount \in Nat \ {0}
  /\ ShardOf \in [Keys -> Shards]
  /\ MaxMemory \in Nat
  /\ MaxTTL \in Nat
  /\ MaxSize \in Nat /\ Sizes \subseteq 1 .. MaxSize
  /\ Work \in [Policies -> [ops : SUBSET Operations, keys : SUBSET Keys, ttls : SUBSET Nat,
                            modes : SUBSET {"plain", "nx", "xx", "keep"},
                            calls : [Clients -> Nat], switches : Nat, time : Nat]]
  /\ Configs \subseteq [strategy : {GlobalTrack, Steal, ShardBudget}, policy : Policies]
  /\ SwitchTo \subseteq {GlobalTrack, Steal, ShardBudget}
  /\ Nil \notin Entries \cup Keys
  /\ Nil \notin Threads
  /\ IsFiniteSet(Clients) /\ IsFiniteSet(Keys)
  /\ Worker \notin Clients /\ Admin \notin Clients /\ Worker # Admin

\* Per-shard share of MaxMemory; the first MaxMemory % N shards get one more.
budget == [s \in Shards |-> MaxMemory \div ShardCount
                              + IF s < MaxMemory % ShardCount THEN 1 ELSE 0]

VARIABLES
  data,      \* data[k]: the entry of k in its shard's map, or Nil
  ent,       \* the fields of every entry object
  lru, fifo, \* per shard: recency and insertion lists
  shUsed,    \* per shard: sh.used
  used,      \* db.used
  gLru, gFifo, \* tenant-wide lists (strategy 1)
  expH,      \* tenant expiry heap: deadline of k's item, 0 when it has none
  mu,        \* per shard: the thread that holds sh.mu, or Nil
  strategy, policy, \* db.cfg.Strategy, db.cfg.Policy
  clock,
  left,      \* calls each client, and Admin, may still start
  pc, loc    \* per thread: next step, local variables

shardVars == <<data, ent, lru, fifo, shUsed>>
globalVars == <<gLru, gFifo>>
vars == <<data, ent, lru, fifo, shUsed, used, gLru, gFifo, expH, mu, strategy,
          policy, clock, left, pc, loc>>
----------------------------------------------------------------------------
(* Entries, deadlines and lists *)

ShardKeys(s) == {k \in Keys : ShardOf[k] = s}
ShardEntries(s) == {data[k] : k \in ShardKeys(s)} \ {Nil}

volatileOnly == policy \in {"volatile-lru", "volatile-lfu", "volatile-random",
                            "volatile-ttl", "volatile-fifo"}

expired(e, now) == ent[e].exp # 0 /\ ent[e].exp <= now

eligible(e) == volatileOnly => ent[e].exp # 0

\* Mutant: MaxTTL is not applied.
NoClamp(now, at) == at

Clamp(now, at) == IF at # 0 /\ MaxTTL > 0 /\ at > now + MaxTTL THEN now + MaxTTL ELSE at
Deadline(now, ttl) == IF ttl = 0 THEN 0 ELSE now + ttl

\* Mutants: a removal is not subtracted; one byte too many is subtracted.
NoSub(a, b) == a
SubOneMore(a, b) == a - b - 1

SatSub(a, b) == IF a >= b THEN a - b ELSE 0

\* Mutant: an entry is pushed again without being unlinked.
PushedAgain(seq, e) == Append(seq, e)

Touched(seq, e) == Append(RemoveFirst(seq, e), e)

\* Mutant: only the head of the list is considered.
HeadVictim(seq, skip) ==
  {seq[i] : i \in {j \in DOMAIN seq : j = 1 /\ ent[seq[j]].key # skip /\ eligible(seq[j])}}

\* The first entry of a list that may be evicted on behalf of a write of skip.
FirstVictim(seq, skip) ==
  LET I == {i \in DOMAIN seq : ent[seq[i]].key # skip /\ eligible(seq[i])}
  IN  {seq[i] : i \in {j \in I : \A m \in I : j <= m}}

\* The entries ttlPick may return: a soonest deadline in the shard's own heap.
ttlPick(s, skip) ==
  LET C == {e \in ShardEntries(s) : ent[e].key # skip /\ ent[e].exp # 0}
  IN  {e \in C : \A f \in C : ent[e].exp <= ent[f].exp}

\* Any entry that may be evicted: the array that rndPick draws from holds them all.
rndPick(s, skip) == {e \in ShardEntries(s) : ent[e].key # skip /\ eligible(e)}

\* The frequency buckets are abstracted: any of them may be the lowest.
lfuPick(s, skip) == {e \in ShardEntries(s) : ent[e].key # skip /\ eligible(e)}

pickLocalVictim(s, skip) ==
  CASE policy \in LruPolicies  -> FirstVictim(lru[s], skip)
    [] policy \in FifoPolicies -> FirstVictim(fifo[s], skip)
    [] policy \in TtlPolicies  -> ttlPick(s, skip)
    [] policy \in RandomPolicies -> rndPick(s, skip)
    [] policy \in LfuPolicies  -> lfuPick(s, skip)
    [] OTHER -> {}

\* Keys at the top of the tenant expiry heap.
HeapTop == {k \in Keys : expH[k] # 0 /\ \A j \in Keys : expH[j] # 0 => expH[k] <= expH[j]}

InUse == {data[k] : k \in Keys} \cup Range(gLru) \cup Range(gFifo)
           \cup {loc[t].ent : t \in Threads}
NewEntry == CHOOSE e \in Entries : e \notin InUse
----------------------------------------------------------------------------
(* Threads *)

NoEntry == [key |-> Nil, size |-> 0, exp |-> 0]
NoLoc == [op |-> "none", key |-> Nil, size |-> 0, exp |-> 0, mode |-> "plain", now |-> 0,
          need |-> 0, ent |-> Nil, vk |-> Nil, at |-> 0, scan |-> 0, then |-> "idle",
          todo |-> {}]

Init ==
  /\ data = [k \in Keys |-> Nil]
  /\ ent = [e \in Entries |-> NoEntry]
  /\ lru = [s \in Shards |-> <<>>] /\ fifo = [s \in Shards |-> <<>>]
  /\ shUsed = [s \in Shards |-> 0]
  /\ used = 0
  /\ gLru = <<>> /\ gFifo = <<>>
  /\ expH = [k \in Keys |-> 0]
  /\ mu = [s \in Shards |-> Nil]
  /\ \E c \in Configs : strategy = c.strategy /\ policy = c.policy
  /\ clock = 1
  /\ left = [t \in Clients \cup {Admin} |-> IF t = Admin THEN Work[policy].switches
                                            ELSE Work[policy].calls[t]]
  /\ pc = [t \in Threads |-> "idle"]
  /\ loc = [t \in Threads |-> NoLoc]

Goto(t, label, l) == /\ pc' = [pc EXCEPT ![t] = label]
                     /\ loc' = [loc EXCEPT ![t] = l]
Return(t) == Goto(t, "idle", NoLoc)

Holder(s, t) == mu' = [mu EXCEPT ![s] = t]
Shard(t) == ShardOf[loc[t].key]
Free(s) == mu[s] = Nil

(* removeFromShard, up to the subUsed: e leaves the map and its shard's     *)
(* lists.  Under GlobalTrack the mutex is kept for the unlink from the      *)
(* global lists.  evictOneLocal (then = "budget", "steal" or "thief") keeps *)
(* it for clearExpiry, too.  IncrBy alone does not call clearExpiry.        *)
KeepsShard(then) == then \in {"budget", "steal", "thief"}
AfterUnlink(then) == IF then = "incr" THEN "incr" ELSE "clear"

removeFromShard(t, e, l, then) ==
  LET k == ent[e].key
      s == ShardOf[k]
  IN  /\ data' = [data EXCEPT ![k] = Nil]
      /\ lru' = [lru EXCEPT ![s] = RemoveFirst(@, e)]
      /\ fifo' = [fifo EXCEPT ![s] = RemoveFirst(@, e)]
      /\ shUsed' = [shUsed EXCEPT ![s] = SatSub(@, ent[e].size)]
      /\ used' = SatSub(used, ent[e].size)
      /\ IF strategy = GlobalTrack
         THEN /\ Goto(t, "unlink", [l EXCEPT !.ent = e, !.vk = k, !.then = then])
              /\ Holder(s, t)
         ELSE /\ Goto(t, AfterUnlink(then), [l EXCEPT !.vk = k, !.then = then])
              /\ Holder(s, IF KeepsShard(then) THEN t ELSE Nil)
      /\ UNCHANGED <<ent, gLru, gFifo, expH, strategy, policy, clock, left>>

\* removeFromShard, the section under gMu: unlink e where it is still linked.
Unlink(t) ==
  LET l == loc[t]
  IN  /\ pc[t] = "unlink"
      /\ gLru' = RemoveFirst(gLru, l.ent)
      /\ gFifo' = RemoveFirst(gFifo, l.ent)
      /\ Goto(t, AfterUnlink(l.then), [l EXCEPT !.ent = Nil])
      /\ mu' = IF KeepsShard(l.then) THEN mu ELSE [mu EXCEPT ![ShardOf[l.vk]] = Nil]
      /\ UNCHANGED <<shardVars, used, expH, strategy, policy, clock, left>>

\* clearExpiry(vk), then on with the caller.
clearExpiry(t) ==
  LET l == loc[t]
  IN  /\ pc[t] = "clear"
      /\ expH' = [expH EXCEPT ![l.vk] = 0]
      /\ IF l.then = "idle" THEN Return(t)
         ELSE Goto(t, IF l.then = "thief" THEN "steal" ELSE l.then,
                   [l EXCEPT !.vk = Nil, !.then = "idle", !.scan = 0])
      /\ mu' = IF l.then = "thief" THEN [mu EXCEPT ![ShardOf[l.vk]] = Nil] ELSE mu
      /\ UNCHANGED <<shardVars, used, globalVars, strategy, policy, clock, left>>
----------------------------------------------------------------------------
(* Starting an operation: the clock is read before the mutex is taken *)

Starts(t, op) == /\ pc[t] = "idle" /\ op \in Work[policy].ops /\ left[t] > 0
                 /\ left' = [left EXCEPT ![t] = @ - 1]
                 /\ UNCHANGED <<shardVars, used, globalVars, expH, mu, strategy, policy, clock>>

\* Set, before its first lock: deadline, MaxTTL, and strategy 1's early OOM.
SetPrologue(t, k, sz, at, mode) ==
  IF strategy = GlobalTrack /\ sz > MaxMemory THEN Return(t)
  ELSE Goto(t, "lock", [NoLoc EXCEPT !.op = "set", !.key = k, !.size = sz, !.mode = mode,
                                     !.exp = Clamp(clock, at), !.now = clock])

StartSet(t) ==
  /\ Starts(t, "set")
  /\ \E k \in Work[policy].keys, sz \in Sizes, ttl \in Work[policy].ttls, mode \in Work[policy].modes :
       /\ mode = "keep" => ttl = 0
       /\ SetPrologue(t, k, sz, Deadline(clock, ttl), mode)

StartKeyOp(t) ==
  \E op \in {"get", "exists", "del", "persist"}, k \in Work[policy].keys :
    /\ Starts(t, op)
    /\ Goto(t, "lock", [NoLoc EXCEPT !.op = op, !.key = k, !.now = clock])

\* An EXPIRE whose duration is not positive is a Del.
StartExpire(t) ==
  /\ Starts(t, "expire")
  /\ \E k \in Work[policy].keys, ttl \in Work[policy].ttls :
       Goto(t, "lock", [NoLoc EXCEPT !.op = IF ttl = 0 THEN "del" ELSE "expire",
                                     !.key = k, !.now = clock,
                                     !.exp = Clamp(clock, Deadline(clock, ttl))])

StartIncr(t) ==
  /\ Starts(t, "incr")
  /\ \E k \in Work[policy].keys, sz \in Sizes :
       Goto(t, "lock", [NoLoc EXCEPT !.op = "incr", !.key = k, !.now = clock, !.size = sz])

StartFlush(t) ==
  /\ Starts(t, "flush")
  /\ Goto(t, "f_scan", [NoLoc EXCEPT !.op = "flush"])

Start(t) == StartSet(t) \/ StartKeyOp(t) \/ StartExpire(t) \/ StartIncr(t) \/ StartFlush(t)
----------------------------------------------------------------------------
(* The first critical section of an operation on one key *)

AtLock(t, ops) == pc[t] = "lock" /\ loc[t].op \in ops /\ Free(Shard(t))
Found(t) == data[loc[t].key] # Nil
Live(t) == Found(t) /\ ~ expired(data[loc[t].key], loc[t].now)

\* The key is absent: the operation returns.
Absent(t) ==
  /\ AtLock(t, {"get", "exists", "del", "expire", "persist"})
  /\ ~ Found(t)
  /\ Return(t)
  /\ UNCHANGED <<shardVars, used, globalVars, expH, mu, strategy, policy, clock, left>>

\* Lazy expiry in every operation, and the removal of a live key by Del.
Discard(t) ==
  LET l == loc[t]
  IN  /\ AtLock(t, {"get", "exists", "del", "expire", "persist", "incr", "set"})
      /\ Found(t)
      /\ l.op = "del" \/ ~ Live(t)
      /\ removeFromShard(t, data[l.key], l,
           CASE l.op = "set" -> "locknow" [] l.op = "incr" -> "incr" [] OTHER -> "idle")

Get(t) ==
  LET l == loc[t]
      s == Shard(t)
      e == data[l.key]
  IN  /\ AtLock(t, {"get"}) /\ Live(t)
      /\ lru' = [lru EXCEPT ![s] = Touched(@, e)]
      /\ IF strategy = GlobalTrack THEN Goto(t, "touch", [l EXCEPT !.ent = e]) ELSE Return(t)
      /\ UNCHANGED <<data, ent, fifo, shUsed, used, globalVars, expH, mu, strategy, policy, clock, left>>

\* Exists, Type, TTL and PTTL of a live key change nothing.
Exists(t) ==
  /\ AtLock(t, {"exists"}) /\ Live(t)
  /\ Return(t)
  /\ UNCHANGED <<shardVars, used, globalVars, expH, mu, strategy, policy, clock, left>>

setExpireAt(t) ==
  LET l == loc[t]
  IN  /\ AtLock(t, {"expire"}) /\ Live(t)
      /\ ent' = [ent EXCEPT ![data[l.key]].exp = l.exp]
      /\ Goto(t, "note", l)
      /\ UNCHANGED <<data, lru, fifo, shUsed, used, globalVars, expH, mu, strategy, policy, clock, left>>

Persist(t) ==
  LET l == loc[t]
      e == data[l.key]
  IN  /\ AtLock(t, {"persist"}) /\ Live(t)
      /\ IF ent[e].exp = 0
         THEN Return(t) /\ UNCHANGED ent
         ELSE /\ ent' = [ent EXCEPT ![e].exp = 0]
              /\ Goto(t, "clear", [l EXCEPT !.vk = l.key])
      /\ UNCHANGED <<data, lru, fifo, shUsed, used, globalVars, expH, mu, strategy, policy, clock, left>>

\* IncrBy reads under the mutex and releases it; the write is a Set of its own, with the
\* deadline that was read.
IncrRead(t) ==
  LET l == loc[t]
  IN  /\ AtLock(t, {"incr"}) /\ (Found(t) => Live(t))
      /\ Goto(t, "incr", [l EXCEPT !.exp = IF Found(t) THEN ent[data[l.key]].exp ELSE 0])
      /\ UNCHANGED <<shardVars, used, globalVars, expH, mu, strategy, policy, clock, left>>

IncrSet(t) ==
  LET l == loc[t]
  IN  /\ pc[t] = "incr"
      /\ SetPrologue(t, l.key, l.size, l.exp, "plain")
      /\ UNCHANGED <<shardVars, used, globalVars, expH, mu, strategy, policy, clock, left>>
----------------------------------------------------------------------------
(* Set *)

\* Mutant: NX and XX are not checked again when the mutex has been retaken.
RefusedOnce(t) == /\ pc[t] # "write"
                  /\ \/ loc[t].mode = "nx" /\ Found(t)
                     \/ loc[t].mode = "xx" /\ ~ Found(t)

Refused(t) == \/ loc[t].mode = "nx" /\ Found(t)
              \/ loc[t].mode = "xx" /\ ~ Found(t)

OldSize(t) == IF Found(t) THEN ent[data[loc[t].key]].size ELSE 0

\* Mutant: growing an existing entry needs no room.
NeedOfInsert(t) == IF Found(t) THEN 0 ELSE loc[t].size

Need(t) == SatSub(loc[t].size, OldSize(t))
Limit(s) == IF strategy = ShardBudget THEN budget[s] ELSE MaxMemory

(* From the lock to the loops of ensureSpace.  pc = "locknow" is the second *)
(* lock, after a lazy expiry.  Under GlobalTrack ensureSpace starts by      *)
(* releasing the mutex; in the other cases it is kept.                      *)
SetCheck(t) ==
  LET l == loc[t]
      s == Shard(t)
      l2 == [l EXCEPT !.need = Need(t),
                      !.exp = IF l.mode = "keep" /\ Found(t) THEN ent[data[l.key]].exp ELSE @]
  IN  /\ pc[t] \in {"lock", "locknow"} /\ l.op = "set" /\ Free(s)
      /\ (pc[t] = "lock" /\ Found(t)) => Live(t)
      /\ IF Refused(t) \/ l.size > Limit(s)
         THEN Return(t) /\ UNCHANGED mu
         ELSE IF policy = NoEviction
         THEN Goto(t, "noevict", l2) /\ Holder(s, t)
         ELSE IF strategy = GlobalTrack
         THEN Goto(t, "gspace", l2) /\ UNCHANGED mu
         ELSE Goto(t, IF strategy = Steal THEN "steal" ELSE "budget", l2) /\ Holder(s, t)
      /\ UNCHANGED <<shardVars, used, globalVars, expH, strategy, policy, clock, left>>

\* noeviction: one comparison, OOM or on to the write.
NoEvictCheck(t) ==
  LET s == Shard(t)
      full == IF strategy = ShardBudget THEN shUsed[s] + loc[t].need > budget[s]
                                        ELSE used + loc[t].need > MaxMemory
  IN  /\ pc[t] = "noevict"
      /\ IF full THEN Return(t) /\ Holder(s, Nil)
                 ELSE Goto(t, "write", loc[t]) /\ UNCHANGED mu
      /\ UNCHANGED <<shardVars, used, globalVars, expH, strategy, policy, clock, left>>

\* ShardBudget: evict in the own shard, mutex held throughout.
BudgetFits(t) ==
  /\ pc[t] = "budget"
  /\ shUsed[Shard(t)] + loc[t].need <= budget[Shard(t)]
  /\ Goto(t, "write", loc[t])
  /\ UNCHANGED <<shardVars, used, globalVars, expH, mu, strategy, policy, clock, left>>

BudgetEvict(t) ==
  LET s == Shard(t)
      V == pickLocalVictim(s, loc[t].key)
  IN  /\ pc[t] = "budget"
      /\ shUsed[s] + loc[t].need > budget[s]
      /\ IF V # {} THEN \E e \in V : removeFromShard(t, e, loc[t], "budget")
         ELSE /\ Return(t) /\ Holder(s, Nil)
              /\ UNCHANGED <<shardVars, used, globalVars, expH, strategy, policy, clock, left>>

(* Steal: the tenant-wide counter decides; the own shard gives victims      *)
(* first.  Back from another shard the mutex is taken again.                *)
StealFits(t) ==
  LET s == Shard(t)
  IN  /\ pc[t] = "steal" /\ mu[s] \in {t, Nil}
      /\ used + loc[t].need <= MaxMemory
      /\ Goto(t, "write", loc[t]) /\ Holder(s, t)
      /\ UNCHANGED <<shardVars, used, globalVars, expH, strategy, policy, clock, left>>

StealEvict(t) ==
  LET s == Shard(t)
      V == pickLocalVictim(s, loc[t].key)
  IN  /\ pc[t] = "steal" /\ mu[s] \in {t, Nil}
      /\ used + loc[t].need > MaxMemory
      /\ IF V # {} THEN \E e \in V : removeFromShard(t, e, loc[t], "steal")
         ELSE /\ Goto(t, "thief", [loc[t] EXCEPT !.scan = 0]) /\ Holder(s, Nil)
              /\ UNCHANGED <<shardVars, used, globalVars, expH, strategy, policy, clock, left>>

\* stealFromOtherShards: the shards after the own one, each under its mutex.
Thief(t) ==
  LET l == loc[t]
      s == (Shard(t) + 1 + l.scan) % ShardCount
      V == pickLocalVictim(s, l.key)
  IN  /\ pc[t] = "thief"
      /\ IF l.scan >= ShardCount - 1
         THEN /\ Return(t)
              /\ UNCHANGED <<shardVars, used, globalVars, expH, mu, strategy, policy, clock, left>>
         ELSE /\ Free(s)
              /\ IF V # {} THEN \E e \in V : removeFromShard(t, e, l, "thief")
                 ELSE /\ Goto(t, "thief", [l EXCEPT !.scan = @ + 1])
                      /\ UNCHANGED <<shardVars, used, globalVars, expH, mu, strategy, policy, clock, left>>
----------------------------------------------------------------------------
(* GlobalTrack: evict tenant-wide until the write fits; no mutex is held    *)
(* between the comparison, the choice of a victim and its removal           *)

\* Mutant: no room is made.
GlobalSpaceNone(t) ==
  /\ pc[t] = "gspace"
  /\ Goto(t, "write", loc[t])
  /\ UNCHANGED <<shardVars, used, globalVars, expH, mu, strategy, policy, clock, left>>

GlobalSpace(t) ==
  /\ pc[t] = "gspace"
  /\ Goto(t, IF used + loc[t].need > MaxMemory THEN "pick" ELSE "write", loc[t])
  /\ UNCHANGED <<shardVars, used, globalVars, expH, mu, strategy, policy, clock, left>>

\* pickGlobalVictimKey for the list policies: under gMu only.
PickFromList(t) ==
  LET l == loc[t]
      V == FirstVictim(IF policy \in LruPolicies THEN gLru ELSE gFifo, l.key)
  IN  /\ pc[t] = "pick" /\ policy \in LruPolicies \cup FifoPolicies
      /\ IF V = {} THEN Return(t)
         ELSE \E e \in V : Goto(t, "evict", [l EXCEPT !.vk = ent[e].key])
      /\ UNCHANGED <<shardVars, used, globalVars, expH, mu, strategy, policy, clock, left>>

\* pickGlobalRandom and pickGlobalLFU: shard after shard, each under its mutex.
PickStart(t) ==
  /\ pc[t] = "pick" /\ policy \in RandomPolicies \cup LfuPolicies
  /\ \E start \in IF policy \in LfuPolicies THEN {0} ELSE Shards :
       Goto(t, "scan", [loc[t] EXCEPT !.at = start, !.scan = 0, !.vk = Nil])
  /\ UNCHANGED <<shardVars, used, globalVars, expH, mu, strategy, policy, clock, left>>

\* Random stops at the first candidate, LFU keeps the better of two.
PickScan(t) ==
  LET l == loc[t]
      s == (l.at + l.scan) % ShardCount
      C == {ent[e].key : e \in pickLocalVictim(s, l.key)}
      best == IF C = {} THEN {l.vk}
              ELSE IF policy \in LfuPolicies /\ l.vk # Nil THEN C \cup {l.vk} ELSE C
      stop == \/ l.scan = ShardCount - 1
              \/ policy \in RandomPolicies /\ C # {}
  IN  /\ pc[t] = "scan" /\ Free(s)
      /\ \E v \in best :
           IF ~ stop THEN Goto(t, "scan", [l EXCEPT !.vk = v, !.scan = @ + 1])
           ELSE IF v = Nil THEN Return(t)
           ELSE Goto(t, "evict", [l EXCEPT !.vk = v, !.at = 0, !.scan = 0])
      /\ UNCHANGED <<shardVars, used, globalVars, expH, mu, strategy, policy, clock, left>>

\* pickGlobalTTL: peek at the tenant heap, then validate under the shard mutex.
PickTTL(t) ==
  LET l == loc[t]
  IN  /\ pc[t] = "pick" /\ policy \in TtlPolicies
      /\ IF HeapTop = {} THEN Return(t)
         ELSE \E k \in HeapTop :
                IF k = l.key THEN Goto(t, "ttlskip", [l EXCEPT !.scan = 0])
                ELSE Goto(t, "ttlval", [l EXCEPT !.vk = k, !.at = expH[k]])
      /\ UNCHANGED <<shardVars, used, globalVars, expH, mu, strategy, policy, clock, left>>

\* The top is the key being written: its own shard, then every shard in turn.
PickTTLSkip(t) ==
  LET l == loc[t]
      s == IF l.scan = 0 THEN Shard(t) ELSE l.scan - 1
      V == ttlPick(s, l.key)
  IN  /\ pc[t] = "ttlskip"
      /\ l.scan <= ShardCount => Free(s)
      /\ IF l.scan > ShardCount THEN Return(t)
         ELSE IF V = {} THEN Goto(t, "ttlskip", [l EXCEPT !.scan = @ + 1])
         ELSE \E e \in V : Goto(t, "evict", [l EXCEPT !.vk = ent[e].key, !.scan = 0])
      /\ UNCHANGED <<shardVars, used, globalVars, expH, mu, strategy, policy, clock, left>>

PickTTLValidate(t) ==
  LET l == loc[t]
      e == data[l.vk]
  IN  /\ pc[t] = "ttlval" /\ Free(ShardOf[l.vk])
      /\ IF e = Nil \/ (e # Nil /\ ent[e].exp = 0)
         THEN Goto(t, "clear", [l EXCEPT !.at = 0, !.then = "pick"])
         ELSE IF ent[e].exp # l.at
         THEN Goto(t, "ttlnote", [l EXCEPT !.at = ent[e].exp, !.ent = e])
         ELSE Goto(t, "evict", [l EXCEPT !.at = 0])
      /\ UNCHANGED <<shardVars, used, globalVars, expH, mu, strategy, policy, clock, left>>

\* e.expiresAt is read after the unlock: the value seen may be a later one.
PickTTLNote(t) ==
  LET l == loc[t]
  IN  /\ pc[t] = "ttlnote"
      /\ \E at \in {l.at, ent[l.ent].exp} : expH' = [expH EXCEPT ![l.vk] = at]
      /\ Goto(t, "pick", [l EXCEPT !.at = 0, !.ent = Nil, !.vk = Nil])
      /\ UNCHANGED <<shardVars, used, globalVars, mu, strategy, policy, clock, left>>

\* evictOneGlobal, once a victim is chosen: whatever the key holds by now goes.
Evict(t) ==
  LET l == loc[t]
  IN  /\ pc[t] = "evict" /\ Free(ShardOf[l.vk])
      /\ IF data[l.vk] # Nil THEN removeFromShard(t, data[l.vk], l, "gspace")
         ELSE /\ Goto(t, "stale", l)
              /\ UNCHANGED <<shardVars, used, globalVars, expH, mu, strategy, policy, clock, left>>

\* Mutant: the node of a victim that is gone stays in the list.
EvictStaleKept(t) ==
  /\ pc[t] = "stale" /\ Goto(t, "gspace", [loc[t] EXCEPT !.vk = Nil])
  /\ UNCHANGED <<shardVars, used, globalVars, expH, mu, strategy, policy, clock, left>>

\* The victim was gone: drop the first LRU node that carries its key.
EvictStale(t) ==
  LET l == loc[t]
  IN  /\ pc[t] = "stale"
      /\ gLru' = RemoveFirstMatch(gLru, LAMBDA e : ent[e].key = l.vk)
      /\ Goto(t, "gspace", [l EXCEPT !.vk = Nil])
      /\ UNCHANGED <<shardVars, used, gFifo, expH, mu, strategy, policy, clock, left>>
----------------------------------------------------------------------------
(* The write itself.  After GlobalTrack's ensureSpace the mutex is taken    *)
(* here; otherwise the thread holds it.                                     *)

AtWrite(t) == pc[t] = "write" /\ mu[Shard(t)] \in {t, Nil}

WriteRefused(t) ==
  /\ AtWrite(t) /\ Refused(t)
  /\ Return(t) /\ Holder(Shard(t), Nil)
  /\ UNCHANGED <<shardVars, used, globalVars, expH, strategy, policy, clock, left>>

WriteUpdate(t) ==
  LET l == loc[t]
      s == Shard(t)
      e == data[l.key]
      old == ent[e].size
      exp == IF l.mode = "keep" THEN ent[e].exp ELSE l.exp
  IN  /\ AtWrite(t) /\ Found(t) /\ ~ Refused(t)
      /\ used' = IF l.size >= old THEN used + (l.size - old) ELSE SatSub(used, old - l.size)
      /\ shUsed' = [shUsed EXCEPT ![s] = @ - old + l.size]
      /\ ent' = [ent EXCEPT ![e] = [key |-> l.key, size |-> l.size, exp |-> exp]]
      /\ lru' = [lru EXCEPT ![s] = Touched(@, e)]
      /\ IF strategy = GlobalTrack THEN Goto(t, "touch", [l EXCEPT !.ent = e, !.exp = exp])
                                   ELSE Goto(t, "note", [l EXCEPT !.exp = exp])
      /\ Holder(s, Nil)
      /\ UNCHANGED <<data, fifo, globalVars, expH, strategy, policy, clock, left>>

\* Objects that nothing refers to any more are reclaimed when one is allocated.
WriteInsert(t) ==
  LET l == loc[t]
      s == Shard(t)
      e == NewEntry
  IN  /\ AtWrite(t) /\ ~ Found(t) /\ ~ Refused(t)
      /\ \E x \in Entries : x \notin InUse
      /\ used' = used + l.size
      /\ shUsed' = [shUsed EXCEPT ![s] = @ + l.size]
      /\ ent' = [x \in Entries |->
                   IF x = e THEN [key |-> l.key, size |-> l.size, exp |-> l.exp]
                   ELSE IF x \in InUse THEN ent[x] ELSE NoEntry]
      /\ data' = [data EXCEPT ![l.key] = e]
      /\ lru' = [lru EXCEPT ![s] = Append(@, e)]
      /\ fifo' = [fifo EXCEPT ![s] = Append(@, e)]
      /\ IF strategy = GlobalTrack THEN Goto(t, "push", [l EXCEPT !.ent = e])
                                   ELSE Goto(t, "note", l)
      /\ Holder(s, Nil)
      /\ UNCHANGED <<globalVars, expH, strategy, policy, clock, left>>

\* Mutant: the insertion list is forgotten.
GlobalPushLru(t) ==
  /\ pc[t] = "push"
  /\ gLru' = Append(gLru, loc[t].ent)
  /\ Goto(t, "note", [loc[t] EXCEPT !.ent = Nil])
  /\ UNCHANGED <<shardVars, used, gFifo, expH, mu, strategy, policy, clock, left>>

\* The new entry is linked into the global lists after the shard is released.
GlobalPush(t) ==
  /\ pc[t] = "push"
  /\ gLru' = Append(gLru, loc[t].ent)
  /\ gFifo' = Append(gFifo, loc[t].ent)
  /\ Goto(t, "note", [loc[t] EXCEPT !.ent = Nil])
  /\ UNCHANGED <<shardVars, used, expH, mu, strategy, policy, clock, left>>

GlobalTouch(t) ==
  LET l == loc[t]
  IN  /\ pc[t] = "touch"
      /\ gLru' = IF l.ent \in Range(gLru) THEN Touched(gLru, l.ent) ELSE gLru
      /\ IF l.op = "get" THEN Return(t) ELSE Goto(t, "note", [l EXCEPT !.ent = Nil])
      /\ UNCHANGED <<shardVars, used, gFifo, expH, mu, strategy, policy, clock, left>>

\* noteExpiry: replace or drop the key's item in the tenant heap.
noteExpiry(t) ==
  /\ pc[t] = "note"
  /\ expH' = [expH EXCEPT ![loc[t].key] = loc[t].exp]
  /\ Return(t)
  /\ UNCHANGED <<shardVars, used, globalVars, mu, strategy, policy, clock, left>>
----------------------------------------------------------------------------
(* FlushDB: collect the keys shard by shard, then remove them one by one *)

FlushScan(t) ==
  LET l == loc[t]
  IN  /\ pc[t] = "f_scan" /\ Free(l.scan)
      /\ Goto(t, IF l.scan + 1 < ShardCount THEN "f_scan" ELSE "f_del",
              [l EXCEPT !.scan = @ + 1,
                        !.todo = @ \cup {k \in ShardKeys(l.scan) : data[k] # Nil}])
      /\ UNCHANGED <<shardVars, used, globalVars, expH, mu, strategy, policy, clock, left>>

FlushDel(t) ==
  LET l == loc[t]
  IN  /\ pc[t] = "f_del" /\ l.todo # {}
      /\ \E k \in l.todo :
           LET l2 == [l EXCEPT !.todo = @ \ {k}]
           IN  /\ Free(ShardOf[k])
               /\ IF data[k] # Nil THEN removeFromShard(t, data[k], l2, "f_del")
                  ELSE /\ Goto(t, "f_del", l2)
                       /\ UNCHANGED <<shardVars, used, globalVars, expH, mu, strategy, policy, clock, left>>

FlushEnd(t) ==
  /\ pc[t] = "f_del" /\ loc[t].todo = {}
  /\ Return(t)
  /\ UNCHANGED <<shardVars, used, globalVars, expH, mu, strategy, policy, clock, left>>
----------------------------------------------------------------------------
(* expireDue, run by the worker at every tick with the time of the tick.    *)
(* Its limit of 256 removals per tick is beyond the bounds of the model.    *)

DueTop(now) == {k \in HeapTop : expH[k] <= now}

WorkerTick ==
  /\ pc[Worker] = "idle" /\ DueTop(clock) # {}
  /\ Goto(Worker, "w_peek", [NoLoc EXCEPT !.op = "expire_due", !.now = clock])
  /\ UNCHANGED <<shardVars, used, globalVars, expH, mu, strategy, policy, clock, left>>

WorkerPeek ==
  LET l == loc[Worker]
  IN  /\ pc[Worker] = "w_peek"
      /\ IF DueTop(l.now) = {} THEN Return(Worker)
         ELSE \E k \in DueTop(l.now) :
                Goto(Worker, "w_del", [l EXCEPT !.key = k, !.at = expH[k]])
      /\ UNCHANGED <<shardVars, used, globalVars, expH, mu, strategy, policy, clock, left>>

\* deleteIfExpired re-checks the deadline under the shard mutex.
deleteIfExpired ==
  LET l == loc[Worker]
  IN  /\ pc[Worker] = "w_del" /\ Free(Shard(Worker))
      /\ IF Found(Worker) /\ ~ Live(Worker)
         THEN removeFromShard(Worker, data[l.key], [l EXCEPT !.at = 0], "w_peek")
         ELSE /\ Goto(Worker, "w_drop", l)
              /\ UNCHANGED <<shardVars, used, globalVars, expH, mu, strategy, policy, clock, left>>

\* Mutant: a stale item is left at the top of the heap.
WorkerSkip ==
  LET l == loc[Worker]
  IN  /\ pc[Worker] = "w_drop"
      /\ Goto(Worker, "w_peek", [l EXCEPT !.key = Nil, !.at = 0])
      /\ UNCHANGED <<shardVars, used, globalVars, expH, mu, strategy, policy, clock, left>>

\* A stale heap item is dropped unless it was replaced meanwhile.
WorkerDrop ==
  LET l == loc[Worker]
  IN  /\ pc[Worker] = "w_drop"
      /\ expH' = IF expH[l.key] = l.at THEN [expH EXCEPT ![l.key] = 0] ELSE expH
      /\ Goto(Worker, "w_peek", [l EXCEPT !.key = Nil, !.at = 0])
      /\ UNCHANGED <<shardVars, used, globalVars, mu, strategy, policy, clock, left>>
----------------------------------------------------------------------------
(* SetShardingStrategy: every shard mutex in order, then gMu *)

SwitchStart ==
  /\ pc[Admin] = "idle" /\ left[Admin] > 0
  /\ \E st \in SwitchTo \ {strategy} :
       Goto(Admin, "a_lock", [NoLoc EXCEPT !.op = "switch", !.at = st])
  /\ left' = [left EXCEPT ![Admin] = @ - 1]
  /\ UNCHANGED <<shardVars, used, globalVars, expH, mu, strategy, policy, clock>>

SwitchLock ==
  LET l == loc[Admin]
  IN  /\ pc[Admin] = "a_lock" /\ Free(l.scan)
      /\ Holder(l.scan, Admin)
      /\ Goto(Admin, IF l.scan + 1 < ShardCount THEN "a_lock" ELSE "a_swap",
              [l EXCEPT !.scan = @ + 1])
      /\ UNCHANGED <<shardVars, used, globalVars, expH, strategy, policy, clock, left>>

\* The lists are cleared, and rebuilt shard by shard when entering GlobalTrack.
SwitchSwap ==
  LET Concat(list) == Flatten([i \in 1 .. ShardCount |-> list[i - 1]])
  IN  /\ pc[Admin] = "a_swap"
      /\ strategy' = loc[Admin].at
      /\ gLru' = IF strategy' = GlobalTrack THEN Concat(lru) ELSE <<>>
      /\ gFifo' = IF strategy' = GlobalTrack THEN Concat(fifo) ELSE <<>>
      /\ mu' = [s \in Shards |-> Nil]
      /\ Return(Admin)
      /\ UNCHANGED <<shardVars, used, expH, policy, clock, left>>
----------------------------------------------------------------------------
Advance ==
  /\ clock < Work[policy].time
  /\ clock' = clock + 1
  /\ UNCHANGED <<shardVars, used, globalVars, expH, mu, strategy, policy, left, pc, loc>>

\* One step of an operation that client t has under way.
Step(t) ==
  \/ Unlink(t) \/ clearExpiry(t)
  \/ Absent(t) \/ Discard(t) \/ Get(t) \/ Exists(t) \/ setExpireAt(t) \/ Persist(t)
  \/ IncrRead(t) \/ IncrSet(t)
  \/ SetCheck(t) \/ NoEvictCheck(t)
  \/ BudgetFits(t) \/ BudgetEvict(t) \/ StealFits(t) \/ StealEvict(t) \/ Thief(t)
  \/ GlobalSpace(t) \/ PickFromList(t) \/ PickStart(t) \/ PickScan(t)
  \/ PickTTL(t) \/ PickTTLSkip(t) \/ PickTTLValidate(t) \/ PickTTLNote(t)
  \/ Evict(t) \/ EvictStale(t)
  \/ WriteRefused(t) \/ WriteUpdate(t) \/ WriteInsert(t)
  \/ GlobalPush(t) \/ GlobalTouch(t) \/ noteExpiry(t)
  \/ FlushScan(t) \/ FlushDel(t) \/ FlushEnd(t)

WorkerStep == Unlink(Worker) \/ clearExpiry(Worker)
                \/ WorkerTick \/ WorkerPeek \/ deleteIfExpired \/ WorkerDrop

AdminStep == SwitchLock \/ SwitchSwap

\* Nothing left to do: clients out of calls, worker with no item due.
Quiescent ==
  /\ clock = Work[policy].time
  /\ \A t \in Threads : pc[t] = "idle"
  /\ \A t \in Clients : left[t] = 0
  /\ left[Admin] = 0 \/ SwitchTo \ {strategy} = {}
  /\ DueTop(clock) = {}
Done == Quiescent /\ UNCHANGED vars

Next ==
  \/ \E t \in Clients : Start(t) \/ Step(t)
  \/ WorkerStep
  \/ SwitchStart \/ AdminStep
  \/ Advance
  \/ Done

Spec == Init /\ [][Next]_vars

(* Go's mutexes hand over to a waiter that has waited long enough, so a     *)
(* thread that can run again and again gets its turn (SF); the ticker       *)
(* fires for ever and time passes.                                          *)
Fairness ==
  /\ \A t \in Clients : SF_vars(Step(t))
  /\ SF_vars(WorkerStep)
  /\ SF_vars(AdminStep)
  /\ WF_vars(Advance)
FairSpec == Spec /\ Fairness
----------------------------------------------------------------------------
(* Properties *)

Labels == {"idle", "lock", "locknow", "incr", "unlink", "clear", "noevict", "budget", "steal",
           "thief", "gspace", "pick", "scan", "ttlskip", "ttlval", "ttlnote", "evict", "stale",
           "write", "push", "touch", "note", "f_scan", "f_del",
           "w_peek", "w_del", "w_drop", "a_lock", "a_swap"}

LocType == [op : {"none", "set", "get", "exists", "del", "persist", "expire", "incr", "flush",
                  "expire_due", "switch"},
            key : Keys \cup {Nil}, size : Nat, exp : Nat,
            mode : {"plain", "nx", "xx", "keep"}, now : Nat, need : Nat,
            ent : Entries \cup {Nil}, vk : Keys \cup {Nil}, at : Nat,
            scan : Nat, then : Labels, todo : SUBSET Keys]

\* Every variable has the type of the Go field it stands for.
TypeOK ==
  /\ data \in [Keys -> Entries \cup {Nil}]
  /\ ent \in [Entries -> [key : Keys \cup {Nil}, size : Nat, exp : Nat]]
  /\ lru \in [Shards -> Seq(Entries)] /\ fifo \in [Shards -> Seq(Entries)]
  /\ shUsed \in [Shards -> Nat] /\ used \in Nat
  /\ gLru \in Seq(Entries) /\ gFifo \in Seq(Entries)
  /\ expH \in [Keys -> Nat]
  /\ mu \in [Shards -> Threads \cup {Nil}]
  /\ strategy \in {GlobalTrack, Steal, ShardBudget} /\ policy \in Policies
  /\ clock \in Nat
  /\ left \in [Clients \cup {Admin} -> Nat]
  /\ pc \in [Threads -> Labels]
  /\ loc \in [Threads -> LocType]

SizeOf(k) == IF data[k] = Nil THEN 0 ELSE ent[data[k]].size

\* The bytes that the entries of the keys in K occupy, one element per byte.
Bytes(K) == {b \in K \X (1 .. MaxSize) : b[2] <= SizeOf(b[1])}

\* sh.used and db.used always equal the sizes of the stored entries: no path of
\* Set, Del, expiry, flush or eviction charges a byte twice or forgets one.
Accounting ==
  /\ used = Cardinality(Bytes(Keys))
  /\ \A s \in Shards : shUsed[s] = Cardinality(Bytes(ShardKeys(s)))

\* Under per-shard budgets no shard ever holds more than its share.
BudgetRespected == strategy = ShardBudget => \A s \in Shards : shUsed[s] <= budget[s]

Writers == {t \in Clients : pc[t] = "write"}

\* Under GlobalTrack and Steal the check of db.used and the write are not one
\* step: concurrent writers pass the check together, and what a write replaces
\* may be gone when it happens.  MaxMemory is then exceeded, but by no more than
\* one entry for each client, the writes that have passed the check included.
OvershootBounded ==
  strategy # ShardBudget =>
    used + MaxSize * Cardinality(Writers) <= MaxMemory + MaxSize * Cardinality(Clients)

\* The per-shard recency and insertion lists hold exactly the entries of the
\* shard's map, each once, between any two steps of any two operations.
ShardLists ==
  \A s \in Shards : /\ IsInjective(lru[s]) /\ Range(lru[s]) = ShardEntries(s)
                    /\ IsInjective(fifo[s]) /\ Range(fifo[s]) = ShardEntries(s)

\* No step leaves an entry linked twice in a tenant-wide list (dllPushTail of a
\* linked entry would corrupt the list).
LinkedOnce == IsInjective(gLru) /\ IsInjective(gFifo)

\* Every live entry is in the tenant-wide FIFO list unless the Set that
\* inserted it has yet to push it.
FifoComplete ==
  strategy = GlobalTrack =>
    \A k \in Keys : data[k] # Nil =>
      \/ data[k] \in Range(gFifo)
      \/ \E t \in Clients : pc[t] = "push" /\ loc[t].ent = data[k]

\* A volatile-* policy never evicts a key that has no TTL at that moment, although PERSIST
\* and SET make keys permanent between the choice of a victim and its removal.
VolatileSparesPermanent ==
  [][volatileOnly =>
       \A k \in Keys, t \in Clients :
         (/\ pc[t] \in {"evict", "budget", "steal", "thief"} /\ pc'[t] # pc[t]
          /\ data[k] # Nil /\ data'[k] = Nil) => ent[data[k]].exp # 0]_vars

\* SET NX never overwrites a key and SET XX never creates one, although the
\* mutex is released between the condition and the write.
ConditionalWrites ==
  [][\A t \in Clients :
       (pc[t] = "write" /\ pc'[t] \notin {"write", "idle"}) =>
          /\ loc[t].mode = "nx" => ~ Found(t)
          /\ loc[t].mode = "xx" => Found(t)]_vars

\* A per-shard budget rejects a write (OOM) only when no other entry of the
\* shard may be evicted.
OomJustified ==
  [][\A t \in Clients :
       (pc[t] = "budget" /\ pc'[t] = "idle") =>
          \A k \in ShardKeys(Shard(t)) \ {loc[t].key} : data[k] # Nil => ~ eligible(data[k])]_vars

\* No stored deadline lies further ahead than MaxTTL, whichever of SET, EXPIRE,
\* KEEPTTL and INCR wrote it last.
TTLWithinMax ==
  MaxTTL > 0 => \A k \in Keys : data[k] # Nil => ent[data[k]].exp <= clock + MaxTTL

\* Every operation returns.
OpsTerminate == \A t \in Clients : pc[t] # "idle" ~> pc[t] = "idle"

\* An item whose deadline has passed does not stay in the expiry heap, even if
\* its key has since been removed, made permanent or given another deadline.
DueDrained ==
  \A k \in Keys : (expH[k] # 0 /\ expH[k] <= clock) ~> ~ (expH[k] # 0 /\ expH[k] <= clock)

Overdue(k) == data[k] # Nil /\ expired(data[k], clock)

\* A key whose deadline has passed is removed without being read.
ExpiredReclaimed == \A k \in Keys : Overdue(k) ~> ~ Overdue(k)
=============================================================================
