------------------------------ MODULE Persist ------------------------------
(***************************************************************************)
(* Durability of one tenant (internal/persist): the append-only file, the  *)
(* snapshot file, SAVE / BGSAVE in the modes snapshot, aof and             *)
(* snapshot+aof, crashes of the process and of the machine, and Load.      *)
(*                                                                         *)
(* The store is the map from keys to values and deadlines.  An operation   *)
(* changes it under the shard mutex and hands its mutation to the sink     *)
(* only after the mutex is released, so the two are separate steps.        *)
(* Tenants are exported one after the other, as shards are: a further      *)
(* tenant is a further shard here.                                         *)
(*                                                                         *)
(* Files.  The AOF is a sequence of lines of which a prefix is known to be *)
(* on the disk (fsync).  A rename is atomic and durable.  The unsynced     *)
(* suffix survives a crash of the process, but any part of it may be lost  *)
(* with the machine, and then the last line may be torn, as it may after a *)
(* failed write.  Load refuses a file whose last line is torn.             *)
(***************************************************************************)
EXTENDS Integers, FiniteSets, Sequences, Functions

CONSTANTS
  Keys, Values, Clients,
  Savers,       \* goroutines that run SAVE, BGSAVE or the periodic snapshot
  Nil,
  ShardCount, ShardOf,
  Configs,      \* configurations: mode, fsync, and what may crash under it
  Work,         \* Work[cfg]: what the clients do under it: the operations, their TTLs
                \* (0: none), who writes a key and, as a bound, the calls of each client
  Capacity,     \* entries that fit in MaxMemory (policy noeviction)
  Evictions,    \* whether entries are evicted; only with room for every key, so that
                \* what Load itself would evict does not matter
  MaxSaves, MaxCrashes, MaxFailures, \* bounds: saves, crashes, failed system calls
  MaxTime       \* bound: last value of the clock

Shards == 0 .. ShardCount - 1

ASSUME PersistAssumption ==
  /\ Configs \subseteq [mode : {"snapshot", "aof", "snapshot+aof"},
                         fsync : {"always", "everysec", "no"},
                         crash : {"process", "machine"}]
  /\ Work \in [Configs -> [ops : SUBSET {"set", "del", "expire", "persist", "flush"},
                           ttls : SUBSET Nat, writers : [Keys -> SUBSET Clients],
                           calls : [Clients -> Nat]]]
  /\ IsFiniteSet(Keys) /\ ShardCount \in Nat \ {0} /\ ShardOf \in [Keys -> Shards]
  /\ Nil \notin Clients \cup Savers \cup Values
  /\ Clients \cap Savers = {}
  /\ Capacity \in Nat
  /\ Evictions \in BOOLEAN /\ (Evictions => Cardinality(Keys) <= Capacity)
  /\ {MaxSaves, MaxCrashes, MaxFailures, MaxTime} \subseteq Nat

VARIABLES
  cfg,         \* the configuration, fixed for a run of the process and its restarts
  mem,         \* the entries of the DB
  snap,        \* dump.ccs: the records it holds
  aof,         \* appendonly.aof: its lines
  synced,      \* length of the prefix of aof known to be on the disk
  torn,        \* the file ends in an incomplete line
  aofOpen,     \* e.aof # nil
  catchingUp, catchup,
  saving,
  mu,          \* holder of e.mu across steps, or Nil
  status,      \* "up", "down", or "refused": Load failed and the process exited
  clock,
  left,        \* what the bounds still allow
  pc, loc,     \* per client and saver: next step, local variables
  untouched    \* history, in snapshot mode: keys not written since the running save
               \* began (run), and since the last completed one began (done)

vars == <<cfg, mem, snap, aof, synced, torn, aofOpen, catchingUp, catchup, saving, mu,
          status, clock, left, pc, loc, untouched>>
store == <<mem, untouched>>
files == <<snap, aof, synced, torn>>
engine == <<cfg, aofOpen, catchingUp, catchup, saving, mu>>

HasAOF == cfg.mode \in {"aof", "snapshot+aof"}
Threads == Clients \cup Savers
None == [val |-> Nil, exp |-> 0]
NoData == [k \in Keys |-> None]
Entry == [val : Values \cup {Nil}, exp : Nat]
Line == [op : {"SET", "DEL", "EXPIRE", "PERSIST", "FLUSHDB"},
         key : Keys \cup {Nil}, val : Values \cup {Nil}, exp : Nat]
NoLine == [op |-> "FLUSHDB", key |-> Nil, val |-> Nil, exp |-> 0]
NoLoc == [line |-> NoLine, cursor |-> 0, now |-> 0, image |-> NoData, keys |-> {},
          n |-> 0, log |-> <<>>]
Labels == {"idle", "emit", "sync", "scan", "wipe", "export", "install", "rename", "reopen"}
LocType == [line : Line, cursor : 0 .. ShardCount, now : Nat, image : [Keys -> Entry],
            keys : SUBSET Keys, n : Nat, log : Seq(Line)]
LeftType == [ops : [Clients -> Nat], saves : Nat, crashes : Nat, failures : 0 .. MaxFailures]

Live(e, now) == e # None /\ (e.exp = 0 \/ e.exp > now)
ShardKeys(s) == {k \in Keys : ShardOf[k] = s}
----------------------------------------------------------------------------
(* Load: the snapshot, then the AOF line by line *)

\* Replaying a line uses the same operations as a client: EXPIRE and PERSIST find
\* nothing when the entry is absent or has already expired.
applyAOF(st, r, now) ==
  LET m == st.mem
      put(e) == [st EXCEPT !.mem[r.key] = e]
      fits == m[r.key] # None \/ Cardinality({k \in Keys : m[k] # None}) < Capacity
  IN  CASE r.op = "SET"     -> IF fits THEN put([val |-> r.val, exp |-> r.exp])
                               ELSE [st EXCEPT !.ok = FALSE]
        [] r.op = "DEL"     -> put(None)
        [] r.op = "EXPIRE"  -> put(IF r.exp > now /\ Live(m[r.key], now)
                                   THEN [m[r.key] EXCEPT !.exp = r.exp] ELSE None)
        [] r.op = "PERSIST" -> put(IF Live(m[r.key], now)
                                   THEN [m[r.key] EXCEPT !.exp = 0] ELSE None)
        [] r.op = "FLUSHDB" -> [st EXCEPT !.mem = NoData]

\* LoadRecords: what is in dump.ccs and has not expired.
loadSnapshot(now) ==
  IF cfg.mode = "aof" THEN NoData
  ELSE [k \in Keys |-> IF Live(snap[k], now) THEN snap[k] ELSE None]

\* LoadRecords ends at the first record for which there is no room.
Fits(m) == Cardinality({k \in Keys : m[k] # None}) <= Capacity

\* The DB after the lines, replayed one by one; Load stops at the first that fails.
Replay(base, lines, now) ==
  LET st[n \in 0 .. Len(lines)] ==
        LET prev == st[n - 1]
        IN  IF n = 0 THEN [mem |-> base, ok |-> TRUE]
            ELSE IF prev.ok THEN applyAOF(prev, lines[n], now) ELSE prev
  IN  st[Len(lines)]

\* The DB after Load, and whether Load succeeded, with the given AOF lines.
LoadLines(lines, now) ==
  LET base == loadSnapshot(now)
      r == Replay(base, IF HasAOF THEN lines ELSE <<>>, now)
  IN  [mem |-> r.mem, ok |-> Fits(base) /\ r.ok]

\* A torn last line is a line that loadAOF cannot parse.
TornLog == HasAOF /\ torn
----------------------------------------------------------------------------
(* Client operations *)

Init ==
  /\ cfg \in Configs
  /\ mem = NoData /\ snap = NoData /\ aof = <<>>
  /\ untouched = [run |-> Keys, done |-> Keys]
  /\ synced = 0 /\ torn = FALSE /\ aofOpen = HasAOF
  /\ catchingUp = FALSE /\ catchup = <<>> /\ saving = FALSE /\ mu = Nil
  /\ status = "up" /\ clock = 0
  /\ left = [ops |-> Work[cfg].calls, saves |-> MaxSaves,
             crashes |-> MaxCrashes, failures |-> MaxFailures]
  /\ pc = [t \in Threads |-> "idle"] /\ loc = [t \in Threads |-> NoLoc]

\* k is written in this step.
Written(k) ==
  untouched' = IF cfg.mode = "snapshot" THEN [run |-> untouched.run \ {k},
                                             done |-> untouched.done \ {k}]
               ELSE untouched

At(t, label) == status = "up" /\ pc[t] = label
Goto(t, label) == pc' = [pc EXCEPT ![t] = label]

Begin(c, op) ==
  /\ At(c, "idle") /\ op \in Work[cfg].ops /\ left.ops[c] > 0
  /\ left' = [left EXCEPT !.ops[c] = @ - 1]

\* db.emit once the shard mutex is released; the sink of a tenant in snapshot mode is nil.
Emits(c, line) ==
  /\ Goto(c, IF HasAOF THEN "emit" ELSE "idle")
  /\ loc' = [loc EXCEPT ![c] = IF HasAOF THEN [NoLoc EXCEPT !.line = line] ELSE NoLoc]

Set(c, k, v, ttl) ==
  /\ Begin(c, "set") /\ c \in Work[cfg].writers[k]
  /\ mem[k] # None \/ Cardinality({j \in Keys : mem[j] # None}) < Capacity
  /\ LET exp == IF ttl = 0 THEN 0 ELSE clock + ttl
     IN  /\ mem' = [mem EXCEPT ![k] = [val |-> v, exp |-> exp]]
         /\ Emits(c, [op |-> "SET", key |-> k, val |-> v, exp |-> exp])
  /\ Written(k)
  /\ UNCHANGED <<files, engine, status, clock>>

\* Del, Expire and Persist emit nothing for an entry that has expired; they remove it.
Alter(c, op, k, e, line) ==
  /\ Begin(c, op) /\ c \in Work[cfg].writers[k] /\ mem[k] # None
  /\ IF Live(mem[k], clock)
     THEN mem' = [mem EXCEPT ![k] = e] /\ Emits(c, line)
     ELSE mem' = [mem EXCEPT ![k] = None] /\ UNCHANGED <<pc, loc>>
  /\ Written(k)
  /\ UNCHANGED <<files, engine, status, clock>>

Del(c, k) == Alter(c, "del", k, None, [op |-> "DEL", key |-> k, val |-> Nil, exp |-> 0])

\* A TTL that is not positive makes Expire call Del.
Expire(c, k, ttl) ==
  IF ttl > 0
  THEN Alter(c, "expire", k, [mem[k] EXCEPT !.exp = clock + ttl],
             [op |-> "EXPIRE", key |-> k, val |-> Nil, exp |-> clock + ttl])
  ELSE Alter(c, "expire", k, None, [op |-> "DEL", key |-> k, val |-> Nil, exp |-> 0])

PersistKey(c, k) ==
  mem[k].exp # 0 /\ Alter(c, "persist", k, [mem[k] EXCEPT !.exp = 0],
                          [op |-> "PERSIST", key |-> k, val |-> Nil, exp |-> 0])

FlushStart(c) ==
  /\ Begin(c, "flush")
  /\ Goto(c, "scan") /\ loc' = [loc EXCEPT ![c] = NoLoc]
  /\ UNCHANGED <<store, files, engine, status, clock>>

FlushScan(c) ==
  /\ At(c, "scan")
  /\ LET s == loc[c].cursor
     IN  /\ loc' = [loc EXCEPT ![c].cursor = s + 1,
                               ![c].keys = @ \cup {k \in ShardKeys(s) : mem[k] # None}]
         /\ Goto(c, IF s + 1 = ShardCount THEN "wipe" ELSE "scan")
  /\ UNCHANGED <<store, files, engine, status, clock, left>>

FlushDel(c, k) ==
  /\ At(c, "wipe") /\ k \in loc[c].keys
  /\ mem' = [mem EXCEPT ![k] = None] /\ Written(k)
  /\ loc' = [loc EXCEPT ![c].keys = @ \ {k}, ![c].n = IF mem[k] # None THEN @ + 1 ELSE @]
  /\ UNCHANGED <<files, engine, status, clock, left, pc>>

FlushEnd(c) ==
  /\ At(c, "wipe") /\ loc[c].keys = {}
  /\ IF loc[c].n > 0 THEN Emits(c, NoLine)
     ELSE Goto(c, "idle") /\ loc' = [loc EXCEPT ![c] = NoLoc]
  /\ UNCHANGED <<store, files, engine, status, clock, left>>

Return(c) == Goto(c, "idle") /\ loc' = [loc EXCEPT ![c] = NoLoc]

\* Mutant: the catchup buffer is left out.
SingleWrite(line) == catchup

\* The compaction window: the line also goes to the catchup buffer.
DualWrite(line) == IF catchingUp THEN Append(catchup, line) ELSE catchup

\* appendAOF up to its fsync: with fsync always, e.mu is held until the fsync is done.
appendAOF(c) ==
  /\ At(c, "emit") /\ mu = Nil
  /\ aof' = IF aofOpen THEN Append(aof, loc[c].line) ELSE aof
  /\ IF aofOpen /\ cfg.fsync = "always"
     THEN mu' = c /\ Goto(c, "sync") /\ UNCHANGED <<catchup, loc>>
     ELSE catchup' = DualWrite(loc[c].line) /\ Return(c) /\ UNCHANGED mu
  /\ UNCHANGED <<cfg, store, snap, synced, torn, aofOpen, catchingUp, saving, status, clock, left>>

\* Mutant: the fsync is skipped.
appendSyncSkipped(c) ==
  /\ At(c, "sync")
  /\ catchup' = DualWrite(loc[c].line)
  /\ mu' = Nil /\ Return(c)
  /\ UNCHANGED <<cfg, store, files, aofOpen, catchingUp, saving, status, clock, left>>

appendSync(c) ==
  /\ At(c, "sync")
  /\ synced' = Len(aof)
  /\ catchup' = DualWrite(loc[c].line)
  /\ mu' = Nil /\ Return(c)
  /\ UNCHANGED <<cfg, store, snap, aof, torn, aofOpen, catchingUp, saving, status, clock, left>>

\* A write or fsync error returns before the catchup buffer is written; the caller ignores
\* it.  A failed write may leave a part of the line in the file.
appendFails(c) ==
  /\ \/ At(c, "emit") /\ mu = Nil /\ aofOpen /\ torn' \in {torn, TRUE}
     \/ At(c, "sync") /\ UNCHANGED torn
  /\ left.failures > 0 /\ left' = [left EXCEPT !.failures = @ - 1]
  /\ mu' = Nil /\ Return(c)
  /\ UNCHANGED <<cfg, store, snap, aof, synced, aofOpen, catchingUp, catchup, saving, status,
                 clock>>

\* The expiry worker, a read of an expired key, and eviction write no line.
Reclaim(k) ==
  /\ status = "up" /\ mem[k] # None
  /\ Evictions \/ ~Live(mem[k], clock)
  /\ mem' = [mem EXCEPT ![k] = None] /\ Written(k)
  /\ UNCHANGED <<files, engine, status, clock, left, pc, loc>>
----------------------------------------------------------------------------
(* SAVE, BGSAVE and the periodic snapshot *)

\* Mutant: the gate is not tested.
SaveUngated == TRUE

SaveGate == ~saving

\* SaveSnapshot: the compare-and-swap on saving, then beginCatchup.
SaveSnapshot(s) ==
  /\ At(s, "idle") /\ mu = Nil /\ left.saves > 0 /\ SaveGate
  /\ left' = [left EXCEPT !.saves = @ - 1]
  /\ saving' = TRUE /\ untouched' = [untouched EXCEPT !.run = Keys]
  /\ catchingUp' = HasAOF /\ catchup' = <<>>
  /\ Goto(s, "export") /\ loc' = [loc EXCEPT ![s] = [NoLoc EXCEPT !.now = clock]]
  /\ UNCHANGED <<cfg, mem, files, aofOpen, mu, status, clock>>

\* Mutant: the loop goes one shard too far.
ExportAllPast(s) ==
  /\ At(s, "export") /\ loc[s].cursor <= ShardCount
  /\ loc' = [loc EXCEPT ![s].cursor = @ + 1,
                        ![s].image = [k \in Keys |->
                          IF ShardOf[k] = loc[s].cursor /\ Live(mem[k], loc[s].now)
                          THEN mem[k] ELSE @[k]]]
  /\ UNCHANGED <<store, files, engine, status, clock, left, pc>>

\* ExportAll, one shard under its mutex.
ExportAll(s) ==
  /\ At(s, "export") /\ loc[s].cursor < ShardCount
  /\ loc' = [loc EXCEPT ![s].cursor = @ + 1,
                        ![s].image = [k \in Keys |->
                          IF ShardOf[k] = loc[s].cursor /\ Live(mem[k], loc[s].now)
                          THEN mem[k] ELSE @[k]]]
  /\ UNCHANGED <<store, files, engine, status, clock, left, pc>>

\* Mutant: the last shard is not exported.
ExportedShort(s) == At(s, "export") /\ loc[s].cursor >= ShardCount - 1

Exported(s) == At(s, "export") /\ loc[s].cursor = ShardCount

Finish(s) == saving' = FALSE /\ Goto(s, "idle") /\ loc' = [loc EXCEPT ![s] = NoLoc]

\* Write, fsync and rename dump.ccs.
WriteSnapshot(s) ==
  /\ Exported(s) /\ cfg.mode # "aof"
  /\ snap' = loc[s].image /\ untouched' = [untouched EXCEPT !.done = untouched.run]
  /\ IF cfg.mode = "snapshot" THEN Finish(s)
     ELSE Goto(s, "install") /\ UNCHANGED <<saving, loc>>
  /\ UNCHANGED <<cfg, mem, aof, synced, torn, aofOpen, catchingUp, catchup, mu, status, clock,
                 left>>

\* Mutant: the buffer is dropped instead of becoming the new AOF.
Truncated(s) == <<>>

Delta(s) == catchup

\* installCatchupAsAOF: the buffer is written to a temporary file, without fsync.
installCatchupAsAOF(s) ==
  /\ At(s, "install") /\ mu = Nil
  /\ mu' = s /\ aofOpen' = FALSE
  /\ catchingUp' = FALSE /\ catchup' = <<>>
  /\ loc' = [loc EXCEPT ![s].log = Delta(s)]
  /\ Goto(s, "rename")
  /\ UNCHANGED <<cfg, store, files, saving, status, clock, left>>

\* One SET line for each entry; lines of distinct keys commute, so any order will do.
Lines(image) ==
  LET present == {k \in Keys : image[k] # None}
      order == CHOOSE f \in Bijection(1 .. Cardinality(present), present) : TRUE
  IN  [i \in DOMAIN order |-> [op |-> "SET", key |-> order[i], val |-> image[order[i]].val,
                               exp |-> image[order[i]].exp]]

\* Mutant: the lines buffered meanwhile are not appended.
ExportOnly(s) == Lines(loc[s].image)

Rewritten(s) == Lines(loc[s].image) \o catchup

\* rewriteAOF from the drain of the buffer: the new file is written and synced.
rewriteAOF(s) ==
  /\ Exported(s) /\ cfg.mode = "aof" /\ mu = Nil
  /\ mu' = s /\ aofOpen' = FALSE
  /\ loc' = [loc EXCEPT ![s].log = Rewritten(s), ![s].n = Len(Rewritten(s))]
  /\ Goto(s, "rename")
  /\ UNCHANGED <<cfg, store, files, catchingUp, catchup, saving, status, clock, left>>

Rename(s) ==
  /\ At(s, "rename")
  /\ aof' = loc[s].log /\ synced' = loc[s].n /\ torn' = FALSE
  /\ Goto(s, "reopen")
  /\ UNCHANGED <<store, snap, engine, status, clock, left, loc>>

EndSwap(s) == catchingUp' = FALSE /\ catchup' = <<>> /\ mu' = Nil /\ Finish(s)

\* Open the new file; the hybrid mode syncs it now when fsync is always.
Reopen(s) ==
  /\ At(s, "reopen")
  /\ aofOpen' = TRUE
  /\ synced' = IF cfg.mode = "snapshot+aof" /\ cfg.fsync = "always" THEN Len(aof) ELSE synced
  /\ EndSwap(s)
  /\ UNCHANGED <<cfg, store, snap, aof, torn, status, clock, left>>

Failure == left.failures > 0 /\ left' = [left EXCEPT !.failures = @ - 1]

\* A file error before the swap: abortCatchup.
SaveFails(s) ==
  /\ At(s, "export") /\ mu = Nil /\ Failure
  /\ catchingUp' = FALSE /\ catchup' = <<>> /\ Finish(s)
  /\ UNCHANGED <<cfg, store, files, aofOpen, mu, status, clock>>

\* Mutant: the gate stays closed after an error in the swap.
SwapFailsSaving(s) ==
  /\ At(s, "rename") \/ At(s, "reopen")
  /\ Failure
  /\ catchingUp' = FALSE /\ catchup' = <<>> /\ mu' = Nil
  /\ Goto(s, "idle") /\ loc' = [loc EXCEPT ![s] = NoLoc]
  /\ UNCHANGED <<cfg, store, files, aofOpen, saving, status, clock>>

\* The rename or the reopening fails once the old file is closed: e.aof stays nil.
SwapFails(s) ==
  /\ At(s, "rename") \/ At(s, "reopen")
  /\ Failure /\ EndSwap(s)
  /\ UNCHANGED <<cfg, store, files, aofOpen, status, clock>>

\* The fsync after the reopening fails: the file is open, the error is returned.
ReopenSyncFails(s) ==
  /\ At(s, "reopen") /\ cfg.mode = "snapshot+aof" /\ cfg.fsync = "always"
  /\ aofOpen' = TRUE
  /\ Failure /\ EndSwap(s)
  /\ UNCHANGED <<cfg, store, files, status, clock>>

fsyncLoop ==
  /\ status = "up" /\ cfg.fsync = "everysec" /\ aofOpen /\ mu = Nil
  /\ synced < Len(aof) /\ synced' = Len(aof)
  /\ UNCHANGED <<store, snap, aof, torn, engine, status, clock, left, pc, loc>>
----------------------------------------------------------------------------
(* Crash, shutdown and restart *)

Stop ==
  /\ status = "up" /\ left.crashes > 0
  /\ left' = [left EXCEPT !.crashes = @ - 1]
  /\ status' = "down" /\ mem' = NoData
  /\ aofOpen' = FALSE /\ catchingUp' = FALSE /\ catchup' = <<>> /\ saving' = FALSE
  /\ mu' = Nil
  /\ pc' = [t \in Threads |-> "idle"] /\ loc' = [t \in Threads |-> NoLoc]
  /\ UNCHANGED <<cfg, snap, clock, untouched>>

Crash == cfg.crash = "process" /\ Stop /\ UNCHANGED <<aof, synced, torn>>

\* Engine.Close on a signal: it waits for e.mu and syncs.
Close ==
  /\ mu = Nil /\ Stop
  /\ synced' = IF aofOpen THEN Len(aof) ELSE synced
  /\ UNCHANGED <<aof, torn>>

LosePower ==
  /\ cfg.crash = "machine" /\ Stop
  /\ \E n \in synced .. Len(aof) :
       /\ aof' = SubSeq(aof, 1, n) /\ synced' = n
       /\ torn' \in IF torn \/ n < Len(aof) THEN BOOLEAN ELSE {FALSE}

\* main: Open, Load, AttachSinks; the process exits when Load fails.
Load ==
  /\ status = "down"
  /\ LET r == LoadLines(aof, clock)
     IN  IF r.ok /\ ~TornLog
         THEN /\ status' = "up" /\ mem' = r.mem /\ aofOpen' = HasAOF
              /\ untouched' = [run |-> Keys, done |-> Keys]
         ELSE status' = "refused" /\ UNCHANGED <<store, aofOpen>>
  /\ UNCHANGED <<cfg, files, catchingUp, catchup, saving, mu, clock, left, pc, loc>>

Advance ==
  /\ clock < MaxTime /\ clock' = clock + 1
  /\ UNCHANGED <<store, files, engine, status, left, pc, loc>>

\* Nothing is left to do: the bounds are used up.
Done ==
  /\ status = "refused" \/ \A t \in Threads : pc[t] = "idle"
  /\ UNCHANGED vars

ClientStep(c) ==
  \/ FlushScan(c) \/ FlushEnd(c) \/ appendAOF(c) \/ appendSync(c) \/ appendFails(c)
  \/ \E k \in Keys : FlushDel(c, k)

Operation(c) ==
  \/ FlushStart(c)
  \/ \E k \in Keys : \/ Del(c, k) \/ PersistKey(c, k)
                     \/ \E ttl \in Work[cfg].ttls : \/ Expire(c, k, ttl)
                                          \/ \E v \in Values : Set(c, k, v, ttl)

SaverStep(s) ==
  \/ ExportAll(s) \/ WriteSnapshot(s) \/ installCatchupAsAOF(s) \/ rewriteAOF(s)
  \/ Rename(s) \/ Reopen(s) \/ SaveFails(s) \/ SwapFails(s) \/ ReopenSyncFails(s)

Next ==
  \/ \E c \in Clients : Operation(c) \/ ClientStep(c)
  \/ \E s \in Savers : SaveSnapshot(s) \/ SaverStep(s)
  \/ \E k \in Keys : Reclaim(k)
  \/ fsyncLoop \/ Crash \/ Close \/ LosePower \/ Load \/ Advance \/ Done

Spec == Init /\ [][Next]_vars

\* The Go scheduler runs every goroutine that can run; a started save or emission goes on.
Fairness ==
  /\ \A s \in Savers : WF_vars(SaverStep(s))
  /\ \A c \in Clients : WF_vars(ClientStep(c))
FairSpec == Spec /\ Fairness
----------------------------------------------------------------------------
(* Properties *)

\* Every variable holds a value of its type: no loop over the shards runs past the last
\* one (FlushDB, ExportAll), and what is synced of the AOF is a prefix of it.
TypeOK ==
  /\ cfg \in Configs /\ left \in LeftType
  /\ mem \in [Keys -> Entry] /\ snap \in [Keys -> Entry]
  /\ aof \in Seq(Line) /\ catchup \in Seq(Line)
  /\ synced \in 0 .. Len(aof)
  /\ {torn, aofOpen, catchingUp, saving} \subseteq BOOLEAN
  /\ mu \in Threads \cup {Nil}
  /\ status \in {"up", "down", "refused"}
  /\ clock \in 0 .. MaxTime
  /\ pc \in [Threads -> Labels] /\ loc \in [Threads -> LocType]
  /\ untouched \in [run : SUBSET Keys, done : SUBSET Keys]

\* A mutation of k is between its change of the store and its line in the AOF.
InFlight(k) ==
  \E c \in Clients : pc[c] # "idle" /\ (loc[c].line.key = k \/ loc[c].line.op = "FLUSHDB")

\* What Load would rebuild if the process died now: nothing when it refuses.
Recovered ==
  LET r == LoadLines(aof, clock) IN IF r.ok /\ ~TornLog THEN r.mem ELSE NoData

\* Whenever the process dies, Load brings back every live entry whose write has
\* returned, with its value and deadline: during SAVE too, when the base and the
\* log change files (appendAOF, rewriteAOF, installCatchupAsAOF).  This is so as
\* long as no system call has failed: errors of appendAOF are not reported.
NothingLost ==
  status = "up" /\ HasAOF /\ left.failures = MaxFailures =>
    \A k \in Keys : Live(mem[k], clock) /\ ~InFlight(k) => Recovered[k] = mem[k]

\* Load brings back no entry whose DEL or FLUSHDB has returned, although the old log
\* may be replayed over a newer snapshot after a crash in the middle of SAVE.
NothingResurrected ==
  status = "up" /\ HasAOF =>
    \A k \in Keys : ~Live(mem[k], clock) /\ ~InFlight(k) => ~Live(Recovered[k], clock)

\* With fsync always, whichever lines the machine takes with it when it dies, Load
\* accepts the others and brings back every live entry whose write has returned.
\* The file is cut between two lines here; LoadAccepts is about a line cut in two.
PowerSafe(mode) ==
  status = "up" /\ cfg.mode = mode /\ cfg.fsync = "always" /\ left.failures = MaxFailures =>
    \A n \in synced .. Len(aof) :
      LET r == LoadLines(SubSeq(aof, 1, n), clock)
      IN  r.ok /\ \A k \in Keys : Live(mem[k], clock) /\ ~InFlight(k) => r.mem[k] = mem[k]

\* PowerSafe in mode aof: appendAOF syncs each line before it returns, and rewriteAOF
\* syncs the new file before it renames it.
SyncedSurvives == PowerSafe("aof")

\* PowerSafe in mode snapshot+aof: installCatchupAsAOF renames the new file before it
\* syncs it.
HybridSurvives == PowerSafe("snapshot+aof")

\* Load accepts what the engine itself has written: the process comes up again after
\* every crash (loadAOF, applyAOF).
LoadAccepts == status # "refused"

\* A restart in snapshot mode goes back no further than the last completed SAVE:
\* a key untouched since that SAVE began is brought back as it is, although the
\* export runs against concurrent writers and later saves may fail or be cut short.
\* There must be room for every key: an export made during writes may hold more than
\* the store ever did at once, and LoadRecords then fails.
SinceLastSave ==
  status = "up" /\ cfg.mode = "snapshot" =>
    \A k \in untouched.done : Live(mem[k], clock) => Recovered[k] = mem[k]

\* Every save ends and opens the gate for the next one, on its error paths too.
SavingEnds == saving ~> ~saving
=============================================================================
