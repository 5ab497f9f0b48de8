-------------------------- MODULE PersistInvariant --------------------------
(***************************************************************************)
(* The inductive invariant of Persist, part by part: the types, who runs,  *)
(* what the snapshot holds, what the log says, and what is on the disk.    *)
(***************************************************************************)
EXTENDS Persist

----------------------------------------------------------------------------
(* What lines make of a key *)

\* What a SET or DEL line makes of its key.
EntryOf(r) == IF r.op = "SET" THEN [val |-> r.val, exp |-> r.exp] ELSE None

On(lines, k) == {i \in 1 .. Len(lines) : lines[i].key = k}

\* What the lines make of key k, from b: the last line on k decides.
Final(lines, k, b) ==
  IF On(lines, k) = {} THEN b
  ELSE EntryOf(lines[CHOOSE i \in On(lines, k) : \A j \in On(lines, k) : j <= i])

\* The lines of SET and DEL.
DataLine == {r \in Line : r.op \in {"SET", "DEL"} /\ r.key \in Keys}

\* Line r after the others decides its own key.
Appended(lines, r, k) ==
  /\ k = r.key => \A b : Final(Append(lines, r), k, b) = EntryOf(r)
  /\ k # r.key => \A b : Final(Append(lines, r), k, b) = Final(lines, k, b)
  /\ On(Append(lines, r), k) # {} <=> (On(lines, k) # {} \/ k = r.key)

\* The lines q after the lines p go on from what p made of k.
Joined(p, q, k) ==
  /\ \A b : Final(p \o q, k, b) = Final(q, k, Final(p, k, b))
  /\ On(p \o q, k) = {} <=> On(p, k) = {} /\ On(q, k) = {}

\* The lines make an entry of k, which depends on what was there only when none is on k.
Settled(lines, k) ==
  /\ \A b \in Entry : Final(lines, k, b) \in Entry
  /\ On(lines, k) # {} => \A a, b : Final(lines, k, a) = Final(lines, k, b)
  /\ On(lines, k) = {} => \A b : Final(lines, k, b) = b

\* MaxMemory has room for every key.
Roomy == Cardinality(Keys) <= Capacity

\* What SAVE writes and Load replays, line by line.
Replays ==
  /\ \A image \in [Keys -> Entry] :
       /\ Lines(image) \in Seq(DataLine)
       /\ \A k \in Keys : Final(Lines(image), k, None) = image[k]
  /\ \A lines \in Seq(DataLine), r \in DataLine, k \in Keys : Appended(lines, r, k)
  /\ \A p, q \in Seq(DataLine), k \in Keys : Joined(p, q, k)
  /\ \A k : \A lines \in Seq(DataLine) : Settled(lines, k)
  /\ \A base, now : Replay(base, <<>>, now) = [mem |-> base, ok |-> TRUE]
  /\ \A base \in [Keys -> Entry], lines \in Seq(Line), now \in Nat :
       Replay(base, lines, now) \in [mem : [Keys -> Entry], ok : BOOLEAN]
  /\ Roomy => \A m : Fits(m)
  /\ Roomy => \A base \in [Keys -> Entry], lines \in Seq(DataLine), now \in Nat :
                /\ Replay(base, lines, now).ok
                /\ \A k \in Keys : Replay(base, lines, now).mem[k] = Final(lines, k, base[k])

----------------------------------------------------------------------------
(* Types *)

\* What a saver has synced of the file it is about to rename; the shards FlushDB has yet
\* to scan.
LocalsOK(a, l) == /\ a = "rename" => l.n <= Len(l.log)
                  /\ a \in {"export", "install"} => l.n = 0
                  /\ a = "scan" => l.cursor < ShardCount

FilesOK == /\ mem \in [Keys -> Entry] /\ snap \in [Keys -> Entry]
           /\ aof \in Seq(Line) /\ catchup \in Seq(Line) /\ synced \in 0 .. Len(aof)

ThreadsOK == /\ pc \in [Threads -> Labels] /\ loc \in [Threads -> LocType]
             /\ \A t \in Threads : LocalsOK(pc[t], loc[t])

FlagsOK == /\ cfg \in Configs /\ left \in LeftType
           /\ torn \in BOOLEAN /\ aofOpen \in BOOLEAN /\ catchingUp \in BOOLEAN /\ saving \in BOOLEAN
           /\ mu \in Threads \cup {Nil} /\ status \in {"up", "down", "refused"}
           /\ clock \in 0 .. MaxTime
           /\ untouched \in [run : SUBSET Keys, done : SUBSET Keys]

TypeInv == FilesOK /\ ThreadsOK /\ FlagsOK

----------------------------------------------------------------------------
(* Who runs: one save at a time, one thread inside e.mu *)

ClientLabels == {"idle", "emit", "sync", "scan", "wipe"}

SaverLabels == {"idle", "export", "install", "rename", "reopen"}

MuLabels == {"sync", "rename", "reopen"}

\* The steps that only some modes take.
ModeOK(a, mode) == /\ a = "install" => mode = "snapshot+aof"
                   /\ a \in {"emit", "sync", "rename", "reopen"} => mode \in {"aof", "snapshot+aof"}

GateInv ==
  /\ \A c \in Clients : pc[c] \in ClientLabels
  /\ \A s \in Savers : pc[s] \in SaverLabels /\ (pc[s] # "idle" => saving)
  /\ \A s, u \in Savers : pc[s] # "idle" /\ pc[u] # "idle" => s = u
  /\ \A t \in Threads : /\ pc[t] \in MuLabels <=> mu = t
                        /\ ModeOK(pc[t], cfg.mode)
  /\ status # "up" => ~saving /\ \A t \in Threads : pc[t] = "idle"

----------------------------------------------------------------------------
(* What the snapshot holds *)

\* The export of a saver, while it runs: its clock is not ahead, and in snapshot mode
\* the image agrees with the store on what was exported and not written since.
ImageOK(s) ==
  pc[s] = "export" =>
    /\ loc[s].now <= clock /\ loc[s].cursor <= ShardCount
    /\ cfg.mode = "snapshot" =>
         \A k \in untouched.run :
           ShardOf[k] < loc[s].cursor /\ Live(mem[k], clock) => loc[s].image[k] = mem[k]

SnapInv ==
  /\ status = "up" /\ cfg.mode = "snapshot" =>
       \A k \in untouched.done : Live(mem[k], clock) => snap[k] = mem[k]
  /\ \A s \in Savers : ImageOK(s)

----------------------------------------------------------------------------
(* What the log holds *)

\* The clients only SET and DEL, and each key has one writer: the lines of a key then
\* reach the log in the order of its changes, and say all about it.
SetDel == \A x \in Configs : Work[x].ops \subseteq {"set", "del"}

SingleWriters == \A x \in Configs : \A k \in Keys : \A c, d \in Work[x].writers[k] : c = d

\* Entry r stands for entry m at the time now: it is m when m is live.
Agrees(r, m, now) == IF Live(m, now) THEN r = m ELSE Evictions \/ ~Live(r, now)

\* The line of k is not yet in the log, or not yet in the catchup buffer.
Emitting(k) == \E c \in Clients : pc[c] = "emit" /\ loc[c].line.key = k

Busy(k) == \E c \in Clients : pc[c] \in {"emit", "sync"} /\ loc[c].line.key = k

\* What the log is replayed over.
Base == IF cfg.mode = "aof" THEN NoData ELSE snap

DataInv ==
  /\ aof \in Seq(DataLine) /\ catchup \in Seq(DataLine)
  /\ \A s \in Savers : loc[s].log \in Seq(DataLine)
  /\ \A c \in Clients : /\ pc[c] \in {"idle", "emit", "sync"}
                        /\ pc[c] # "idle" => /\ loc[c].line \in DataLine
                                             /\ c \in Work[cfg].writers[loc[c].line.key]

\* No file operation has failed.
Healthy == status = "up" /\ HasAOF /\ left.failures = MaxFailures

\* The file is only closed inside the swap.
OpenOK == aofOpen \/ \E s \in Savers : pc[s] \in {"rename", "reopen"}

\* The line on its way is the last change of its key.
EmitOK(c) ==
  pc[c] \in {"emit", "sync"} =>
    /\ Agrees(EntryOf(loc[c].line), mem[loc[c].line.key], clock)
    /\ pc[c] = "sync" => On(aof, loc[c].line.key) # {}

\* The log says what the DB holds.
AofOK(k) == ~Emitting(k) => Agrees(Final(aof, k, Base[k]), mem[k], clock)

\* The part of the DB that is exported, with the buffered lines, says what the DB holds.
ExportedOK(s, k) ==
  /\ ShardOf[k] >= loc[s].cursor => loc[s].image[k] = None
  /\ On(catchup, k) # {} => On(aof, k) # {}
  /\ (ShardOf[k] < loc[s].cursor \/ On(catchup, k) # {}) /\ ~Busy(k)
       => Agrees(Final(catchup, k, loc[s].image[k]), mem[k], clock)

SaverOK(s) ==
  /\ pc[s] \in {"export", "install"} => catchingUp /\ \A k \in Keys : ExportedOK(s, k)
  /\ pc[s] = "install" => snap = loc[s].image /\ loc[s].cursor = ShardCount
  /\ pc[s] = "rename" =>
       \A k \in Keys : ~Emitting(k) => Agrees(Final(loc[s].log, k, Base[k]), mem[k], clock)

LogInv == Healthy => /\ OpenOK
                     /\ \A c \in Clients : EmitOK(c)
                     /\ \A k \in Keys : AofOK(k)
                     /\ \A s \in Savers : SaverOK(s)

\* The file has no torn line before a file operation fails.
WholeInv == status = "up" /\ left.failures = MaxFailures => ~TornLog

----------------------------------------------------------------------------
(* What is on the disk *)

\* What fails is the machine: a crash of the process leaves a line that is not synced.
Durable == \A x \in Configs : x.mode = "aof" /\ x.fsync = "always" => x.crash = "machine"

\* Nobody is between the write of a line and its fsync.
NoSync == \A c \in Clients : pc[c] # "sync"

\* All of the log but the line whose fsync is to come.
Unsynced(c) == \E p \in Seq(DataLine) : aof = Append(p, loc[c].line) /\ synced = Len(p)

SyncInv ==
  cfg.mode = "aof" /\ cfg.fsync = "always" /\ left.failures = MaxFailures =>
    /\ NoSync => synced = Len(aof)
    /\ \A c \in Clients : pc[c] = "sync" => Unsynced(c)
    /\ \A s \in Savers : pc[s] = "rename" => loc[s].n = Len(loc[s].log)
=============================================================================
