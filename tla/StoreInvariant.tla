--------------------------- MODULE StoreInvariant ---------------------------
(***************************************************************************)
(* The inductive invariants of Store: what a shard and a thread hold,      *)
(* where a thread can be under each strategy, what the tenant-wide lists   *)
(* and the budgets of the shards keep to; and the facts about lists and    *)
(* counting that the proofs of its steps take from StoreProofs.            *)
(***************************************************************************)
EXTENDS Store, Counting

----------------------------------------------------------------------------
(* Lists and counting *)

\* The bytes of the keys of K, when f[k] bytes are charged to k and n is the most.
Filled(f, K, n) == {b \in K \X (1 .. n) : b[2] <= f[b[1]]}

\* A nonempty set of naturals contains its minimum.
MinFact == \A I \in SUBSET Nat : I # {} => Min(I) \in I /\ \A j \in I : Min(I) <= j

\* RemoveAt drops one position and keeps the order of the others.
RemoveAtFact ==
  \A s \in Seq(Entries) : \A i \in 1 .. Len(s) :
    /\ RemoveAt(s, i) \in Seq(Entries)
    /\ Len(RemoveAt(s, i)) = Len(s) - 1
    /\ \A j \in 1 .. Len(s) - 1 : RemoveAt(s, i)[j] = IF j < i THEN s[j] ELSE s[j + 1]
    /\ Range(RemoveAt(s, i)) \subseteq Range(s)

\* RemoveFirst adds nothing to a list; from one without repetition it removes e.
RemoveFirstFact ==
  \A s \in Seq(Entries) : \A e :
    /\ RemoveFirst(s, e) \in Seq(Entries)
    /\ Range(RemoveFirst(s, e)) \subseteq Range(s)
    /\ IsInjective(s) => /\ IsInjective(RemoveFirst(s, e))
                         /\ Range(RemoveFirst(s, e)) = Range(s) \ {e}

\* Append adds one entry, and keeps a list without repetition so when the entry is new.
AppendFact ==
  \A s \in Seq(Entries), e \in Entries :
    /\ Append(s, e) \in Seq(Entries)
    /\ Range(Append(s, e)) = Range(s) \cup {e}
    /\ IsInjective(s) /\ e \notin Range(s) => IsInjective(Append(s, e))

\* Flatten keeps the elements of the lists and adds none.
FlattenFact ==
  \A q \in Seq(Seq(Entries)) : q # <<>> =>
    /\ Flatten(q) \in Seq(Entries)
    /\ \A x \in Range(Flatten(q)) : \E i \in 1 .. Len(q) : x \in Range(q[i])

\* The bytes of a finite set of keys can be counted, key by key.
FilledFact ==
  \A K : IsFiniteSet(K) => \A n \in Nat :
    /\ \A f : IsFiniteSet(Filled(f, K, n)) /\ Cardinality(Filled(f, K, n)) \in Nat
    /\ \A f : \A k \in K : f[k] \in 0 .. n =>
         Cardinality(Filled(f, K, n)) = Cardinality(Filled(f, K \ {k}, n)) + f[k]
    /\ \A f, g : \A k \in K :
         f[k] \in 0 .. n /\ g[k] \in 0 .. n /\ (\A j \in K \ {k} : f[j] = g[j]) =>
           Cardinality(Filled(g, K, n)) = Cardinality(Filled(f, K, n)) - f[k] + g[k]

\* All of them: StoreProofs establishes it.
Facts ==
  /\ MinFact /\ RemoveAtFact /\ RemoveFirstFact /\ AppendFact /\ FlattenFact
  /\ FilledFact /\ CountingFact

----------------------------------------------------------------------------
(* Types, the maps and lists of a shard, and the local variables of a thread *)

KeyOps == {"set", "get", "exists", "del", "persist", "expire", "incr"}

SetLabels == {"locknow", "noevict", "budget", "steal", "thief", "gspace", "pick", "scan",
              "ttlskip", "ttlval", "ttlnote", "evict", "stale", "write", "push"}

\* Where a thread continues once a removal is complete.
Resumes(a, l) == IF a \in {"unlink", "clear"} THEN l.then ELSE a

\* What the local variables of a thread hold at label a.
LocOK(a, l) ==
  /\ l.op \in KeyOps => l.key \in Keys
  /\ l.op \in {"set", "incr"} => l.size \in 1 .. MaxSize
  /\ Resumes(a, l) \in SetLabels => l.op = "set"
  /\ a = "lock" => l.op \in KeyOps /\ l.then = "idle"
  /\ Resumes(a, l) = "incr" => l.op = "incr"
  /\ Resumes(a, l) = "note" => l.op \in {"set", "expire"}
  /\ a = "touch" => l.op \in {"get", "set"}
  /\ Resumes(a, l) \in {"w_peek", "w_del", "w_drop"} => l.op = "expire_due"
  /\ a \in {"w_del", "w_drop"} => l.key \in Keys
  /\ a \in {"unlink", "clear"} => l.then \in {"idle", "locknow", "incr", "budget", "steal",
                                               "thief", "gspace", "pick", "f_del", "w_peek"}
  /\ a \in {"unlink", "clear", "ttlval", "ttlnote", "evict", "stale"} => l.vk \in Keys
  /\ a \in {"unlink", "ttlnote", "push", "touch"} => l.ent \in Entries
  /\ a = "a_lock" => l.scan \in Shards
  /\ a \in {"a_lock", "a_swap"} => l.at \in SwitchTo

ThreadsOK == /\ pc \in [Threads -> Labels]
             /\ loc \in [Threads -> LocType]
             /\ \A t \in Threads : LocOK(pc[t], loc[t])

\* The map points to entries that carry its keys; every entry that can still be
\* reached carries a key.
MapOK == \A k \in Keys : data[k] # Nil =>
           ent[data[k]].key = k /\ ent[data[k]].size \in 1 .. MaxSize

ReachableOK == \A e \in InUse : e # Nil => ent[e].key \in Keys

GlobalType ==
  /\ gLru \in Seq(Entries) /\ gFifo \in Seq(Entries)
  /\ expH \in [Keys -> Nat]
  /\ mu \in [Shards -> Threads \cup {Nil}]
  /\ strategy \in {GlobalTrack, Steal, ShardBudget} /\ policy \in Policies
  /\ clock \in Nat
  /\ left \in [Clients \cup {Admin} -> Nat]

ShardType ==
  /\ data \in [Keys -> Entries \cup {Nil}]
  /\ ent \in [Entries -> [key : Keys \cup {Nil}, size : Nat, exp : Nat]]
  /\ lru \in [Shards -> Seq(Entries)] /\ fifo \in [Shards -> Seq(Entries)]
  /\ shUsed \in [Shards -> Nat] /\ used \in Nat

ShardOK == ShardType /\ MapOK /\ ShardLists /\ Accounting

IInv == GlobalType /\ ShardOK /\ ReachableOK /\ ThreadsOK

----------------------------------------------------------------------------
(* Where a thread can be under each strategy, and the deadlines it carries *)

EvictLabels == {"gspace", "pick", "scan", "ttlskip", "ttlval", "ttlnote", "evict", "stale"}

\* A label of ensureSpace is reached only with a policy that evicts and, while the
\* strategy of the tenant is never changed, only under its strategy.
PlaceOK(a, l) ==
  LET r == Resumes(a, l)
  IN  /\ r \in EvictLabels \cup {"steal", "thief", "budget"} => policy # NoEviction
      /\ SwitchTo = {} =>
           /\ r \in EvictLabels \/ a \in {"unlink", "push", "touch"} => strategy = GlobalTrack
           /\ r \in {"steal", "thief"} => strategy = Steal
           /\ r = "budget" => strategy = ShardBudget

PlacesOK == /\ SwitchTo = {} => pc[Admin] = "idle"
            /\ \A t \in Threads : PlaceOK(pc[t], loc[t])

Within(d) == MaxTTL > 0 => d <= clock + MaxTTL

DeadlinesOK == /\ \A e \in Entries : Within(ent[e].exp)
               /\ \A t \in Threads : Within(loc[t].exp)

WhereInv == PlacesOK /\ DeadlinesOK

----------------------------------------------------------------------------
(* The tenant-wide lists *)

\* An entry that a Set has yet to push is in neither list and is pushed by no other
\* thread; an entry that is about to be unlinked is no longer in the map.
ListInv ==
  /\ LinkedOnce
  /\ FifoComplete
  /\ \A t \in Threads : pc[t] = "push" => loc[t].ent \notin Range(gLru) \cup Range(gFifo)
  /\ \A t, u \in Threads : t # u /\ pc[t] = "push" /\ pc[u] = "push" => loc[t].ent # loc[u].ent
  /\ \A t \in Threads : pc[t] = "unlink" => \A k \in Keys : data[k] # loc[t].ent

----------------------------------------------------------------------------
(* The budgets of the shards *)

\* A Set that has entered ensureSpace under ShardBudget or noeviction and has not yet written.
HoldLabels == {"noevict", "budget", "write"}

Holds(a, l) == Resumes(a, l) \in HoldLabels

\* Under ShardBudget it holds the mutex of its shard, what it has reckoned to need is what
\* its write will add, and once it is to write there is room.
HoldOK(t) ==
  Holds(pc[t], loc[t]) =>
    /\ mu[Shard(t)] = t
    /\ loc[t].need = SatSub(loc[t].size, SizeOf(loc[t].key))
    /\ pc[t] = "write" => shUsed[Shard(t)] + loc[t].need <= budget[Shard(t)]

BudgetInv == strategy = ShardBudget => /\ BudgetRespected
                                       /\ \A t \in Clients : HoldOK(t)
=============================================================================
