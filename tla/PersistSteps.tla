---------------------------- MODULE PersistSteps ----------------------------
(***************************************************************************)
(* Every step of Persist keeps the types, the turns of the threads, what   *)
(* the snapshot holds, what the log says of the store and what of it is on *)
(* the disk, given what a replay does (Replays, which PersistProofs        *)
(* establishes).                                                           *)
(***************************************************************************)
EXTENDS PersistInvariant, TLAPS

----------------------------------------------------------------------------
(* What a replay does *)

\* The lines SAVE writes for an image.
LEMMA LinesFinal ==
  ASSUME Replays, NEW image \in [Keys -> Entry]
  PROVE  /\ Lines(image) \in Seq(DataLine)
         /\ \A k \in Keys : Final(Lines(image), k, None) = image[k]
BY Zenon DEF Replays

\* One more line of SET or DEL.
LEMMA DataAppend ==
  ASSUME Replays
  PROVE  \A lines \in Seq(DataLine), r \in DataLine, k \in Keys : Appended(lines, r, k)
BY Zenon DEF Replays

\* The catch-up lines after the lines of the image.
LEMMA FinalConcat ==
  ASSUME Replays, NEW p \in Seq(DataLine), NEW q \in Seq(DataLine), NEW k \in Keys
  PROVE  /\ \A b : Final(p \o q, k, b) = Final(q, k, Final(p, k, b))
         /\ On(p \o q, k) = {} <=> On(p, k) = {} /\ On(q, k) = {}
<1>1. Joined(p, q, k)
  BY Zenon DEF Replays
<1> QED BY <1>1, Zenon DEF Joined

\* What lines make of a key.
LEMMA FinalFacts ==
  ASSUME Replays, NEW lines \in Seq(DataLine), NEW k
  PROVE  /\ \A b \in Entry : Final(lines, k, b) \in Entry
         /\ On(lines, k) # {} => \A a, b : Final(lines, k, a) = Final(lines, k, b)
         /\ On(lines, k) = {} => \A b : Final(lines, k, b) = b
<1>1. Settled(lines, k)
  BY Zenon DEF Replays
<1> QED BY <1>1, Zenon DEF Settled

\* Nothing to replay.
LEMMA ReplayNothing ==
  ASSUME Replays
  PROVE  \A base, now : Replay(base, <<>>, now) = [mem |-> base, ok |-> TRUE]
BY Zenon DEF Replays

\* What a replay makes.
LEMMA ReplayType ==
  ASSUME Replays, NEW base \in [Keys -> Entry], NEW lines \in Seq(Line), NEW now \in Nat
  PROVE  Replay(base, lines, now) \in [mem : [Keys -> Entry], ok : BOOLEAN]
BY Zenon DEF Replays

\* With room for every key, a snapshot fits.
LEMMA AllFits ==
  ASSUME Replays, Roomy
  PROVE  \A m : Fits(m)
BY Zenon DEF Replays

\* What a replay of SETs and DELs makes of a key.
LEMMA ReplayFinal ==
  ASSUME Replays, Roomy, NEW base \in [Keys -> Entry], NEW lines \in Seq(DataLine), NEW now \in Nat
  PROVE  /\ Replay(base, lines, now).ok
         /\ \A k \in Keys : Replay(base, lines, now).mem[k] = Final(lines, k, base[k])
BY DEF Replays

----------------------------------------------------------------------------
(* Types *)

\* The facts about the constants that the proofs use.
LEMMA Constants ==
  /\ Clients \subseteq Threads /\ Savers \subseteq Threads /\ Clients \cap Savers = {}
  /\ Threads = Clients \cup Savers /\ Nil \notin Threads
  /\ ShardOf \in [Keys -> 0 .. ShardCount - 1] /\ ShardCount \in Nat /\ ShardCount > 0
  /\ {MaxSaves, MaxCrashes, MaxFailures, MaxTime} \subseteq Nat
BY PersistAssumption DEF Threads, Shards

\* The persistence modes.
LEMMA Modes ==
  ASSUME TypeInv
  PROVE  cfg.mode \in {"snapshot", "aof", "snapshot+aof"}
BY PersistAssumption, Zenon DEF TypeInv, FlagsOK

\* The shard of a key and the cursor of an export: the shards after the next, all of them.
LEMMA PastCursor ==
  ASSUME NEW i \in Int, NEW n \in Nat, i >= n + 1
  PROVE  i # n /\ i >= n
OBVIOUS

\* A cursor past the last shard is past the shard of every key.
LEMMA BelowShardCount == \A k \in Keys : ShardOf[k] < ShardCount
BY Constants

\* The initial values of the local variables have their types.
LEMMA NothingTypes ==
  /\ None \in Entry /\ NoData \in [Keys -> Entry] /\ NoLine \in Line /\ NoLoc \in LocType
  /\ NoLoc.n = 0 /\ NoLoc.cursor < ShardCount /\ \A a \in {"idle", "emit"} : \A l : LocalsOK(a, l)
<1>1. None \in Entry /\ NoData \in [Keys -> Entry] /\ NoLine \in Line
  BY Zenon DEF None, NoData, NoLine, Entry, Line
<1>2. NoLoc \in LocType /\ NoLoc.n = 0 /\ NoLoc.cursor < ShardCount
  BY <1>1, Constants DEF NoLoc, LocType
<1> QED BY <1>1, <1>2, Zenon DEF LocalsOK

\* A bound that is used keeps its type.
LEMMA LeftTypes ==
  ASSUME TypeInv
  PROVE  /\ \A c \in Clients : left.ops[c] > 0 => [left EXCEPT !.ops[c] = @ - 1] \in LeftType
         /\ left.saves > 0 => [left EXCEPT !.saves = @ - 1] \in LeftType
         /\ left.crashes > 0 => [left EXCEPT !.crashes = @ - 1] \in LeftType
         /\ left.failures > 0 => /\ [left EXCEPT !.failures = @ - 1] \in LeftType
                                 /\ [left EXCEPT !.failures = @ - 1].failures # MaxFailures
         /\ \A c \in Clients : [left EXCEPT !.ops[c] = @ - 1].failures = left.failures
<1>0. left \in LeftType /\ MaxFailures \in Nat
  BY Constants, Zenon DEF TypeInv, FlagsOK
<1>1. \A c \in Clients : left.ops[c] > 0 => [left EXCEPT !.ops[c] = @ - 1] \in LeftType
  BY <1>0 DEF LeftType
<1>2. left.saves > 0 => [left EXCEPT !.saves = @ - 1] \in LeftType
  BY <1>0 DEF LeftType
<1>3. left.crashes > 0 => [left EXCEPT !.crashes = @ - 1] \in LeftType
  BY <1>0 DEF LeftType
<1>4. left.failures > 0 => /\ [left EXCEPT !.failures = @ - 1] \in LeftType
                           /\ [left EXCEPT !.failures = @ - 1].failures # MaxFailures
  BY <1>0 DEF LeftType
<1>5. \A c \in Clients : [left EXCEPT !.ops[c] = @ - 1].failures = left.failures
  BY <1>0, Zenon DEF LeftType
<1> QED BY <1>1, <1>2, <1>3, <1>4, <1>5, Zenon

\* What Load rebuilds has the type of the store.
LEMMA LoadType ==
  ASSUME Replays, TypeInv
  PROVE  /\ loadSnapshot(clock) \in [Keys -> Entry]
         /\ \A lines \in Seq(Line) : LoadLines(lines, clock) \in [mem : [Keys -> Entry], ok : BOOLEAN]
<1>1. loadSnapshot(clock) \in [Keys -> Entry]
  BY NothingTypes, Zenon DEF loadSnapshot, TypeInv, FilesOK
<1>2. ASSUME NEW lines \in Seq(Line)
      PROVE  LoadLines(lines, clock) \in [mem : [Keys -> Entry], ok : BOOLEAN]
  <2> DEFINE q == IF HasAOF THEN lines ELSE <<>>
  <2>1. q \in Seq(Line)
    OBVIOUS
  <2> HIDE DEF q
  <2>2. Replay(loadSnapshot(clock), q, clock) \in [mem : [Keys -> Entry], ok : BOOLEAN]
    <3>1. clock \in Nat
      BY Constants DEF TypeInv, FlagsOK
    <3> QED BY <1>1, <2>1, <3>1, ReplayType, Zenon
  <2> DEFINE p == Replay(loadSnapshot(clock), q, clock)
             good == Fits(loadSnapshot(clock)) /\ p.ok
  <2>3. LoadLines(lines, clock) = [mem |-> p.mem, ok |-> good]
    BY Zenon DEF LoadLines, q
  <2>4. good \in BOOLEAN
    BY Zenon
  <2>5. p.mem \in [Keys -> Entry]
    BY <2>2, Zenon
  <2> HIDE DEF p, good
  <2> QED BY <2>3, <2>4, <2>5
<1> QED BY <1>1, <1>2, Zenon

\* What is live was live before.
LEMMA LiveBefore ==
  ASSUME NEW e \in Entry, NEW a \in Nat, NEW b \in Nat, a <= b, Live(e, b)
  PROVE  Live(e, a)
BY DEF Live, Entry

\* The types the arguments below use.
LEMMA LogTypes ==
  ASSUME TypeInv
  PROVE  /\ cfg \in Configs /\ clock \in Nat /\ mem \in [Keys -> Entry] /\ snap \in [Keys -> Entry]
         /\ Base \in [Keys -> Entry] /\ pc \in [Threads -> Labels] /\ loc \in [Threads -> LocType]
         /\ Clients \subseteq Threads /\ Savers \subseteq Threads /\ Clients \cap Savers = {}
         /\ \A t \in Threads : loc[t].image \in [Keys -> Entry]
         /\ ShardOf \in [Keys -> 0 .. ShardCount - 1] /\ ShardCount \in Nat
         /\ \A t \in Threads : loc[t].cursor \in 0 .. ShardCount /\ loc[t].cursor \in Nat /\ loc[t].now \in Nat
         /\ left \in LeftType /\ NoData \in [Keys -> Entry]
<1>1. /\ cfg \in Configs /\ clock \in Nat /\ mem \in [Keys -> Entry] /\ snap \in [Keys -> Entry]
      /\ pc \in [Threads -> Labels] /\ loc \in [Threads -> LocType] /\ left \in LeftType
  BY Constants DEF TypeInv, FilesOK, FlagsOK, ThreadsOK
<1>2. Base \in [Keys -> Entry] /\ NoData \in [Keys -> Entry]
  BY <1>1, NothingTypes, Zenon DEF Base
<1>3. \A t \in Threads : /\ loc[t].image \in [Keys -> Entry] /\ loc[t].cursor \in 0 .. ShardCount
                        /\ loc[t].now \in Nat
  BY <1>1, Zenon DEF LocType
<1>4. \A i \in 0 .. ShardCount : i \in Nat
  BY Constants
<1> QED BY <1>1, <1>2, <1>3, <1>4, Constants, Zenon

\* The steps that move one thread.
LEMMA OneMoves ==
  ASSUME ThreadsOK, NEW t \in Threads, NEW a \in Labels, NEW l \in LocType, LocalsOK(a, l),
         pc' = [pc EXCEPT ![t] = a], loc' = [loc EXCEPT ![t] = l]
  PROVE  ThreadsOK'
<1>1. pc' \in [Threads -> Labels] /\ loc' \in [Threads -> LocType]
  BY Zenon DEF ThreadsOK
<1>2. \A u \in Threads : LocalsOK(pc'[u], loc'[u])
  <2> TAKE u \in Threads
  <2>1. CASE u = t
    <3>1. pc'[u] = a /\ loc'[u] = l
      BY <2>1, Zenon DEF ThreadsOK
    <3> QED BY <3>1, Zenon
  <2>2. CASE u # t
    <3>1. pc'[u] = pc[u] /\ loc'[u] = loc[u]
      BY <2>2, Zenon DEF ThreadsOK
    <3> QED BY <3>1, Zenon DEF ThreadsOK
  <2> QED BY <2>1, <2>2, Zenon
<1> QED BY <1>1, <1>2, Zenon DEF ThreadsOK, LocalsOK

\* The emission of a line.
LEMMA EmitMoves ==
  ASSUME TypeInv, NEW c \in Clients, NEW line \in Line, Emits(c, line)
  PROVE  ThreadsOK'
<1> DEFINE a == IF HasAOF THEN "emit" ELSE "idle"
           l == IF HasAOF THEN [NoLoc EXCEPT !.line = line] ELSE NoLoc
<1>1. [NoLoc EXCEPT !.line = line] \in LocType
  BY NothingTypes, Zenon DEF LocType
<1>2. a \in Labels /\ l \in LocType /\ LocalsOK(a, l)
  BY <1>1, NothingTypes, Zenon DEF Labels, LocalsOK
<1>3. pc' = [pc EXCEPT ![c] = a] /\ loc' = [loc EXCEPT ![c] = l]
  BY Zenon DEF Emits, Goto
<1> HIDE DEF a, l
<1> QED BY <1>2, <1>3, OneMoves, Zenon DEF TypeInv, Threads

\* The return of an operation or of a save.
LEMMA BackMoves ==
  ASSUME TypeInv, NEW t \in Threads, Goto(t, "idle"), loc' = [loc EXCEPT ![t] = NoLoc]
  PROVE  ThreadsOK'
<1>1. "idle" \in Labels /\ LocalsOK("idle", NoLoc)
  BY Zenon DEF Labels, LocalsOK
<1> QED BY <1>1, NothingTypes, OneMoves, Zenon DEF Goto, TypeInv

\* Written keeps the history well typed.
LEMMA WrittenType ==
  ASSUME TypeInv, NEW k, Written(k)
  PROVE  untouched' \in [run : SUBSET Keys, done : SUBSET Keys]
BY Zenon DEF TypeInv, FlagsOK, Written

\* The operations of clients keep the types.
LEMMA OperationTypes ==
  ASSUME TypeInv, NEW c \in Clients, Operation(c)
  PROVE  TypeInv'
<1>0. c \in Threads /\ cfg \in Configs /\ clock \in Nat /\ mem \in [Keys -> Entry]
  BY LogTypes, Zenon
<1>1. \A ttl \in Work[cfg].ttls : ttl \in Nat
  BY <1>0, PersistAssumption, Zenon
<1>2. ASSUME NEW op, Begin(c, op) PROVE left' \in LeftType
  BY <1>2, LeftTypes, Zenon DEF Begin
<1>3. ASSUME UNCHANGED <<files, engine, status, clock>>, left' \in LeftType,
             mem' \in [Keys -> Entry], untouched' \in [run : SUBSET Keys, done : SUBSET Keys],
             ThreadsOK'
      PROVE  TypeInv'
  BY <1>3, Zenon DEF TypeInv, FilesOK, FlagsOK, files, engine
<1>4. ASSUME NEW op, NEW k \in Keys, NEW e \in Entry, NEW line \in Line, Alter(c, op, k, e, line)
      PROVE  TypeInv'
  <2>1. left' \in LeftType
    BY <1>2, <1>4, Zenon DEF Alter
  <2>2. mem' \in [Keys -> Entry]
    BY <1>0, <1>4, NothingTypes, Zenon DEF Alter
  <2>3. untouched' \in [run : SUBSET Keys, done : SUBSET Keys]
    BY <1>4, WrittenType, Zenon DEF Alter
  <2>4. ThreadsOK'
    <3>1. CASE UNCHANGED <<pc, loc>>
      BY <3>1, Zenon DEF TypeInv, ThreadsOK
    <3>2. CASE Emits(c, line)
      BY <3>2, EmitMoves, Zenon
    <3> QED BY <1>4, <3>1, <3>2, Zenon DEF Alter
  <2>5. UNCHANGED <<files, engine, status, clock>>
    BY <1>4, Zenon DEF Alter
  <2> QED BY <1>3, <2>1, <2>2, <2>3, <2>4, <2>5, Zenon
<1>5. ASSUME NEW k \in Keys, Del(c, k) PROVE TypeInv'
  <2>1. [op |-> "DEL", key |-> k, val |-> Nil, exp |-> 0] \in Line
    BY Zenon DEF Line
  <2> QED BY <1>4, <1>5, <2>1, NothingTypes, Zenon DEF Del
<1>6. ASSUME NEW k \in Keys, PersistKey(c, k) PROVE TypeInv'
  <2>1. [op |-> "PERSIST", key |-> k, val |-> Nil, exp |-> 0] \in Line
    BY Zenon DEF Line
  <2>2. [mem[k] EXCEPT !.exp = 0] \in Entry
    BY <1>0, Zenon DEF Entry
  <2> QED BY <1>4, <1>6, <2>1, <2>2, Zenon DEF PersistKey
<1>7. ASSUME NEW k \in Keys, NEW ttl \in Nat, Expire(c, k, ttl) PROVE TypeInv'
  <2>1. [op |-> "EXPIRE", key |-> k, val |-> Nil, exp |-> clock + ttl] \in Line
    BY <1>0 DEF Line
  <2>2. [mem[k] EXCEPT !.exp = clock + ttl] \in Entry
    BY <1>0 DEF Entry
  <2>3. [op |-> "DEL", key |-> k, val |-> Nil, exp |-> 0] \in Line
    BY Zenon DEF Line
  <2>4. CASE ttl > 0
    BY <1>4, <1>7, <2>1, <2>2, <2>4, Zenon DEF Expire
  <2>5. CASE ~(ttl > 0)
    BY <1>4, <1>7, <2>3, <2>5, NothingTypes, Zenon DEF Expire
  <2> QED BY <2>4, <2>5, Zenon
<1>8. ASSUME NEW k \in Keys, NEW v \in Values, NEW ttl \in Nat, Set(c, k, v, ttl) PROVE TypeInv'
  <2> DEFINE exp == IF ttl = 0 THEN 0 ELSE clock + ttl
             line == [op |-> "SET", key |-> k, val |-> v, exp |-> exp]
  <2>1. exp \in Nat
    BY <1>0
  <2>2. /\ mem' = [mem EXCEPT ![k] = [val |-> v, exp |-> exp]] /\ Emits(c, line)
        /\ Begin(c, "set") /\ Written(k) /\ UNCHANGED <<files, engine, status, clock>>
    BY <1>8, Zenon DEF Set
  <2> HIDE DEF exp
  <2>3. line \in Line /\ [val |-> v, exp |-> exp] \in Entry
    BY <2>1, Zenon DEF Line, Entry
  <2>4. mem' \in [Keys -> Entry]
    BY <1>0, <2>2, <2>3, Zenon
  <2> HIDE DEF line
  <2> QED BY <1>2, <1>3, <2>2, <2>3, <2>4, EmitMoves, WrittenType, Zenon
<1>9. CASE FlushStart(c)
  <2>1. "scan" \in Labels /\ LocalsOK("scan", NoLoc)
    BY NothingTypes, Zenon DEF Labels, LocalsOK
  <2>2. ThreadsOK'
    BY <1>0, <1>9, <2>1, NothingTypes, OneMoves, Zenon DEF FlushStart, Goto, TypeInv
  <2>3. left' \in LeftType
    BY <1>2, <1>9, Zenon DEF FlushStart
  <2>4. mem' \in [Keys -> Entry] /\ untouched' \in [run : SUBSET Keys, done : SUBSET Keys]
    BY <1>9, Zenon DEF FlushStart, store, TypeInv, FilesOK, FlagsOK
  <2> QED BY <1>3, <1>9, <2>2, <2>3, <2>4, Zenon DEF FlushStart
<1> QED BY <1>1, <1>5, <1>6, <1>7, <1>8, <1>9, Zenon DEF Operation

\* The further steps of the operations keep the types.
LEMMA ClientTypes ==
  ASSUME TypeInv, NEW c \in Clients, ClientStep(c)
  PROVE  TypeInv'
<1> DEFINE l == loc[c]
<1>0. /\ c \in Threads /\ l \in LocType /\ aof \in Seq(Line) /\ catchup \in Seq(Line)
      /\ synced \in 0 .. Len(aof) /\ l.line \in Line
  BY Zenon DEF Threads, TypeInv, ThreadsOK, FilesOK, LocType
<1>1. DualWrite(l.line) \in Seq(Line)
  BY <1>0 DEF DualWrite
<1>2. Nil \in Threads \cup {Nil} /\ c \in Threads \cup {Nil}
  BY <1>0, Zenon
<1>3. CASE FlushScan(c)
  <2> DEFINE m == [l EXCEPT !.cursor = @ + 1,
                            !.keys = @ \cup {k \in ShardKeys(l.cursor) : mem[k] # None}]
             a == IF l.cursor + 1 = ShardCount THEN "wipe" ELSE "scan"
  <2>1. loc' = [loc EXCEPT ![c] = m] /\ pc' = [pc EXCEPT ![c] = a]
    <3>1. loc \in [Threads -> LocType]
      BY Zenon DEF TypeInv, ThreadsOK
    <3>2. loc' = [loc EXCEPT ![c].cursor = l.cursor + 1,
                             ![c].keys = @ \cup {k \in ShardKeys(l.cursor) : mem[k] # None}]
      BY <1>3, Zenon DEF FlushScan
    <3>3. pc' = [pc EXCEPT ![c] = a]
      BY <1>3, Zenon DEF FlushScan, Goto
    <3> QED BY <1>0, <3>1, <3>2, <3>3, Zenon DEF LocType
  <2>2. m \in LocType /\ a \in Labels /\ LocalsOK(a, m)
    <3>1. l.cursor < ShardCount /\ l.cursor \in Nat
      <4>1. LocalsOK("scan", l)
        BY <1>0, <1>3, Zenon DEF FlushScan, At, TypeInv, ThreadsOK
      <4> QED BY <1>0, <4>1, LogTypes, Zenon DEF LocalsOK
    <3>2. l.cursor + 1 \in 0 .. ShardCount /\ (l.cursor + 1 # ShardCount => l.cursor + 1 < ShardCount)
      BY <3>1, Constants
    <3>3. l.keys \cup {k \in ShardKeys(l.cursor) : mem[k] # None} \in SUBSET Keys
      BY <1>0 DEF LocType, ShardKeys
    <3>4. \A i \in 0 .. ShardCount, K \in SUBSET Keys :
            LET n == [l EXCEPT !.cursor = i, !.keys = K] IN n \in LocType /\ n.cursor = i
      BY <1>0, Zenon DEF LocType
    <3>5. m \in LocType /\ m.cursor = l.cursor + 1
      BY <3>2, <3>3, <3>4, Zenon
    <3> HIDE DEF m
    <3> QED BY <3>2, <3>5, Zenon DEF Labels, LocalsOK
  <2> HIDE DEF m, a
  <2>3. ThreadsOK'
    BY <1>0, <2>1, <2>2, OneMoves, Zenon DEF TypeInv
  <2> QED BY <1>3, <2>3, Zenon DEF FlushScan, TypeInv, FilesOK, FlagsOK, store, files, engine
<1>4. ASSUME NEW k \in Keys, FlushDel(c, k) PROVE TypeInv'
  <2> DEFINE m == [l EXCEPT !.keys = @ \ {k}, !.n = IF mem[k] # None THEN @ + 1 ELSE @]
  <2>1. loc' = [loc EXCEPT ![c] = m] /\ pc' = [pc EXCEPT ![c] = "wipe"]
    <3>1. loc \in [Threads -> LocType] /\ pc \in [Threads -> Labels]
      BY Zenon DEF TypeInv, ThreadsOK
    <3>2. loc' = [loc EXCEPT ![c].keys = @ \ {k}, ![c].n = IF mem[k] # None THEN @ + 1 ELSE @]
      BY <1>4, Zenon DEF FlushDel
    <3>3. pc' = pc /\ pc[c] = "wipe"
      BY <1>4, Zenon DEF FlushDel, At
    <3>4. pc' = [pc EXCEPT ![c] = "wipe"]
      BY <1>0, <3>1, <3>3, Zenon
    <3> QED BY <1>0, <3>1, <3>2, <3>4, Zenon DEF LocType
  <2>2. m \in LocType /\ "wipe" \in Labels /\ LocalsOK("wipe", m)
    <3>1. l.keys \ {k} \in SUBSET Keys /\ (IF mem[k] # None THEN l.n + 1 ELSE l.n) \in Nat
      BY <1>0 DEF LocType
    <3>2. \A i \in Nat, K \in SUBSET Keys : [l EXCEPT !.keys = K, !.n = i] \in LocType
      BY <1>0, Zenon DEF LocType
    <3>3. m \in LocType
      BY <3>1, <3>2, Zenon
    <3> QED BY <3>3, Zenon DEF Labels, LocalsOK
  <2> HIDE DEF m
  <2>3. ThreadsOK'
    BY <1>0, <2>1, <2>2, OneMoves, Zenon DEF TypeInv
  <2>4. mem' \in [Keys -> Entry]
    BY <1>4, NothingTypes, Zenon DEF FlushDel, TypeInv, FilesOK
  <2>5. untouched' \in [run : SUBSET Keys, done : SUBSET Keys]
    BY <1>4, WrittenType, Zenon DEF FlushDel
  <2> QED BY <1>4, <2>3, <2>4, <2>5, Zenon DEF FlushDel, TypeInv, FilesOK, FlagsOK, files, engine
<1>5. CASE FlushEnd(c)
  <2>1. ThreadsOK'
    BY <1>0, <1>5, EmitMoves, BackMoves, NothingTypes, Zenon DEF FlushEnd
  <2> QED BY <1>5, <2>1, Zenon DEF FlushEnd, TypeInv, FilesOK, FlagsOK, store, files, engine
<1>6. CASE appendAOF(c)
  <2>1. aof' \in Seq(Line) /\ synced' \in 0 .. Len(aof')
    <3>1. synced' = synced /\ (aof' = aof \/ aof' = Append(aof, l.line))
      BY <1>6, Zenon DEF appendAOF
    <3>2. Len(aof) \in Nat /\ Len(Append(aof, l.line)) = Len(aof) + 1
          /\ Append(aof, l.line) \in Seq(Line)
      BY <1>0
    <3> QED BY <1>0, <3>1, <3>2
  <2>2. ThreadsOK'
    <3>1. CASE Return(c)
      BY <1>0, <3>1, BackMoves, Zenon DEF Return
    <3>2. CASE Goto(c, "sync") /\ UNCHANGED loc
      <4>1. loc' = [loc EXCEPT ![c] = l] /\ pc' = [pc EXCEPT ![c] = "sync"]
        BY <1>0, <3>2, Zenon DEF Goto, TypeInv, ThreadsOK
      <4>2. "sync" \in Labels /\ LocalsOK("sync", l)
        BY Zenon DEF Labels, LocalsOK
      <4> QED BY <1>0, <4>1, <4>2, OneMoves, Zenon DEF TypeInv
    <3> QED BY <1>6, <3>1, <3>2, Zenon DEF appendAOF
  <2>3. catchup' \in Seq(Line) /\ mu' \in Threads \cup {Nil}
    BY <1>0, <1>1, <1>2, <1>6, Zenon DEF appendAOF, TypeInv, FlagsOK
  <2> QED BY <1>6, <2>1, <2>2, <2>3, Zenon DEF appendAOF, TypeInv, FilesOK, FlagsOK, store
<1>7. CASE appendSync(c)
  <2>1. synced' \in 0 .. Len(aof)
    BY <1>0, <1>7 DEF appendSync
  <2>2. ThreadsOK'
    BY <1>0, <1>7, BackMoves, Zenon DEF appendSync, Return
  <2> QED BY <1>1, <1>2, <1>7, <2>1, <2>2, Zenon DEF appendSync, TypeInv, FilesOK, FlagsOK, store
<1>8. CASE appendFails(c)
  <2>1. ThreadsOK'
    BY <1>0, <1>8, BackMoves, Zenon DEF appendFails, Return
  <2>2. left' \in LeftType
    BY <1>8, LeftTypes, Zenon DEF appendFails
  <2>3. torn' \in BOOLEAN
    BY <1>8, Zenon DEF appendFails, TypeInv, FlagsOK
  <2> QED BY <1>2, <1>8, <2>1, <2>2, <2>3, Zenon DEF appendFails, TypeInv, FilesOK, FlagsOK, store
<1> QED BY <1>3, <1>4, <1>5, <1>6, <1>7, <1>8, Zenon DEF ClientStep

\* The steps of SAVE keep the types.
LEMMA SaverTypes ==
  ASSUME Replays, TypeInv, NEW s \in Savers, SaveSnapshot(s) \/ SaverStep(s)
  PROVE  TypeInv'
<1> DEFINE l == loc[s]
<1>0. /\ s \in Threads /\ l \in LocType /\ aof \in Seq(Line) /\ catchup \in Seq(Line)
      /\ <<>> \in Seq(Line) /\ mem \in [Keys -> Entry] /\ clock \in Nat
      /\ LocalsOK(pc[s], l) /\ loc \in [Threads -> LocType] /\ pc \in [Threads -> Labels]
  BY Constants DEF TypeInv, ThreadsOK, FilesOK, FlagsOK
<1>1. l.log \in Seq(Line) /\ l.n \in Nat /\ l.cursor \in 0 .. ShardCount /\ l.image \in [Keys -> Entry]
  BY <1>0, Zenon DEF LocType
<1>2. Nil \in Threads \cup {Nil} /\ s \in Threads \cup {Nil}
  BY <1>0, Zenon
<1>3. Failure => left' \in LeftType
  BY LeftTypes, Zenon DEF Failure
<1>4. Finish(s) => ThreadsOK' /\ saving' \in BOOLEAN
  BY <1>0, BackMoves, Zenon DEF Finish
<1>5. EndSwap(s) => /\ ThreadsOK' /\ saving' \in BOOLEAN /\ catchingUp' \in BOOLEAN
                    /\ catchup' \in Seq(Line) /\ mu' \in Threads \cup {Nil}
  BY <1>0, <1>2, <1>4, Zenon DEF EndSwap
<1>6. CASE SaveSnapshot(s)
  <2>1. [NoLoc EXCEPT !.now = clock] \in LocType /\ [NoLoc EXCEPT !.now = clock].n = 0
    BY <1>0, NothingTypes, Zenon DEF LocType
  <2>2. "export" \in Labels /\ LocalsOK("export", [NoLoc EXCEPT !.now = clock])
    BY <2>1, Zenon DEF Labels, LocalsOK
  <2>3. ThreadsOK'
    BY <1>0, <1>6, <2>1, <2>2, OneMoves, Zenon DEF SaveSnapshot, Goto, TypeInv
  <2>4. left' \in LeftType
    BY <1>6, LeftTypes, Zenon DEF SaveSnapshot
  <2>5. /\ untouched' \in [run : SUBSET Keys, done : SUBSET Keys]
        /\ saving' \in BOOLEAN /\ catchup' \in Seq(Line) /\ catchingUp' \in BOOLEAN
    <3>1. catchingUp' \in BOOLEAN
      BY <1>6 DEF SaveSnapshot, HasAOF
    <3>2. untouched' \in [run : SUBSET Keys, done : SUBSET Keys]
      BY <1>6, Zenon DEF SaveSnapshot, TypeInv, FlagsOK
    <3> QED BY <1>0, <1>6, <3>1, <3>2, Zenon DEF SaveSnapshot
  <2> QED BY <1>6, <2>3, <2>4, <2>5, Zenon DEF SaveSnapshot, TypeInv, FilesOK, FlagsOK, files
<1>7. CASE ExportAll(s)
  <2> DEFINE I == [k \in Keys |-> IF ShardOf[k] = l.cursor /\ Live(mem[k], l.now)
                                  THEN mem[k] ELSE l.image[k]]
             m == [l EXCEPT !.cursor = l.cursor + 1, !.image = I]
  <2>1. I \in [Keys -> Entry]
    BY <1>0, <1>1, Zenon
  <2>2. loc' = [loc EXCEPT ![s] = m]
    <3>1. loc' = [loc EXCEPT ![s].cursor = @ + 1,
                        ![s].image = [k \in Keys |->
                          IF ShardOf[k] = loc[s].cursor /\ Live(mem[k], loc[s].now)
                          THEN mem[k] ELSE @[k]]]
      BY <1>7, Zenon DEF ExportAll
    <3> QED BY <1>0, <3>1, Zenon DEF LocType
  <2> HIDE DEF I
  <2>3. pc' = [pc EXCEPT ![s] = "export"] /\ pc[s] = "export"
    BY <1>0, <1>7, Zenon DEF ExportAll, At
  <2>4. m \in LocType /\ m.n = l.n
    <3>1. l.cursor + 1 \in 0 .. ShardCount
      <4>1. l.cursor < ShardCount
        BY <1>7, Zenon DEF ExportAll
      <4> QED BY <1>1, <4>1, Constants
    <3>2. \A i \in 0 .. ShardCount, J \in [Keys -> Entry] : [l EXCEPT !.cursor = i, !.image = J] \in LocType
      BY <1>0, Zenon DEF LocType
    <3>3. m \in LocType
      BY <2>1, <3>1, <3>2, Zenon
    <3> QED BY <1>0, <3>3, Zenon DEF LocType
  <2>5. "export" \in Labels /\ LocalsOK("export", m)
    BY <1>0, <2>3, <2>4, Zenon DEF Labels, LocalsOK
  <2> HIDE DEF m
  <2>6. ThreadsOK'
    BY <1>0, <2>2, <2>3, <2>4, <2>5, OneMoves, Zenon DEF TypeInv
  <2> QED BY <1>7, <2>6, Zenon DEF ExportAll, TypeInv, FilesOK, FlagsOK, store, files, engine
<1>8. CASE WriteSnapshot(s)
  <2>1. snap' \in [Keys -> Entry] /\ untouched' \in [run : SUBSET Keys, done : SUBSET Keys]
    BY <1>1, <1>8, Zenon DEF WriteSnapshot, TypeInv, FlagsOK
  <2>2. ThreadsOK' /\ saving' \in BOOLEAN
    <3>1. CASE Finish(s)
      BY <1>4, <3>1, Zenon
    <3>2. CASE Goto(s, "install") /\ UNCHANGED <<saving, loc>>
      <4>1. pc' = [pc EXCEPT ![s] = "install"] /\ loc' = [loc EXCEPT ![s] = l]
        BY <1>0, <3>2, Zenon DEF Goto
      <4>2. "install" \in Labels /\ LocalsOK("install", l)
        BY <1>0, <1>8, Zenon DEF Labels, LocalsOK, WriteSnapshot, Exported, At
      <4>3. ThreadsOK'
        BY <1>0, <4>1, <4>2, OneMoves, Zenon DEF TypeInv
      <4> QED BY <3>2, <4>3, Zenon DEF TypeInv, FlagsOK
    <3> QED BY <1>8, <3>1, <3>2, Zenon DEF WriteSnapshot
  <2> QED BY <1>8, <2>1, <2>2, Zenon DEF WriteSnapshot, TypeInv, FilesOK, FlagsOK
<1>9. CASE installCatchupAsAOF(s)
  <2> DEFINE m == [l EXCEPT !.log = Delta(s)]
  <2>1. loc' = [loc EXCEPT ![s] = m] /\ pc' = [pc EXCEPT ![s] = "rename"]
    BY <1>0, <1>9, Zenon DEF installCatchupAsAOF, Goto
  <2>2. Delta(s) \in Seq(Line) /\ Len(Delta(s)) \in Nat
    BY <1>0 DEF Delta
  <2>3. m \in LocType /\ m.n = l.n /\ m.log = Delta(s) /\ l.n = 0
    BY <1>0, <1>1, <1>9, <2>2, Zenon DEF LocType, LocalsOK, installCatchupAsAOF, At
  <2>4. "rename" \in Labels /\ LocalsOK("rename", m)
    BY <2>2, <2>3 DEF Labels, LocalsOK
  <2> HIDE DEF m
  <2>5. ThreadsOK'
    BY <1>0, <2>1, <2>3, <2>4, OneMoves, Zenon DEF TypeInv
  <2> QED BY <1>0, <1>2, <1>9, <2>5, Zenon DEF installCatchupAsAOF, TypeInv, FilesOK, FlagsOK, store, files
<1>10. CASE rewriteAOF(s)
  <2> DEFINE q == Rewritten(s)
             m == [l EXCEPT !.log = q, !.n = Len(q)]
  <2>1. q \in Seq(Line) /\ Len(q) \in Nat
    <3>1. Lines(l.image) \in Seq(DataLine)
      BY <1>1, LinesFinal, Zenon
    <3>2. Lines(l.image) \in Seq(Line)
      BY <3>1 DEF DataLine
    <3>3. q \in Seq(Line)
      BY <1>0, <3>2 DEF Rewritten
    <3> QED BY <3>3
  <2>2. loc' = [loc EXCEPT ![s] = m] /\ pc' = [pc EXCEPT ![s] = "rename"]
    <3>1. loc' = [loc EXCEPT ![s].log = q, ![s].n = Len(q)] /\ pc' = [pc EXCEPT ![s] = "rename"]
      BY <1>10, Zenon DEF rewriteAOF, Goto
    <3> HIDE DEF q
    <3> QED BY <1>0, <3>1, Zenon DEF LocType
  <2> HIDE DEF q
  <2>3. m \in LocType /\ m.n = Len(q) /\ m.log = q
    BY <1>0, <1>1, <2>1, Zenon DEF LocType
  <2>4. "rename" \in Labels /\ LocalsOK("rename", m)
    BY <2>1, <2>3 DEF Labels, LocalsOK
  <2> HIDE DEF m
  <2>5. ThreadsOK'
    BY <1>0, <2>2, <2>3, <2>4, OneMoves, Zenon DEF TypeInv
  <2> QED BY <1>2, <1>10, <2>5, Zenon DEF rewriteAOF, TypeInv, FilesOK, FlagsOK, store, files
<1>11. CASE Rename(s)
  <2>1. aof' \in Seq(Line) /\ synced' \in 0 .. Len(aof')
    <3>1. aof' = l.log /\ synced' = l.n /\ l.n <= Len(l.log)
      BY <1>0, <1>11, Zenon DEF Rename, At, LocalsOK
    <3>2. Len(l.log) \in Nat
      BY <1>1
    <3>3. l.n \in 0 .. Len(l.log)
      BY <1>1, <3>1, <3>2
    <3> QED BY <1>1, <3>1, <3>3, Zenon
  <2>2. loc' = [loc EXCEPT ![s] = l] /\ pc' = [pc EXCEPT ![s] = "reopen"]
    BY <1>0, <1>11, Zenon DEF Rename, Goto
  <2>3. "reopen" \in Labels /\ LocalsOK("reopen", l)
    BY Zenon DEF Labels, LocalsOK
  <2>4. ThreadsOK'
    BY <1>0, <2>2, <2>3, OneMoves, Zenon DEF TypeInv
  <2> QED BY <1>11, <2>1, <2>4, Zenon DEF Rename, TypeInv, FilesOK, FlagsOK, store, engine
<1>12. CASE Reopen(s)
  <2>1. synced' \in 0 .. Len(aof)
    BY <1>0, <1>12 DEF Reopen, TypeInv, FilesOK
  <2> QED BY <1>5, <1>12, <2>1, Zenon DEF Reopen, TypeInv, FilesOK, FlagsOK, store
<1>13. CASE SaveFails(s)
  BY <1>0, <1>3, <1>4, <1>13, Zenon DEF SaveFails, TypeInv, FilesOK, FlagsOK, store, files
<1>14. CASE SwapFails(s)
  BY <1>3, <1>5, <1>14, Zenon DEF SwapFails, TypeInv, FilesOK, FlagsOK, store, files
<1>15. CASE ReopenSyncFails(s)
  BY <1>3, <1>5, <1>15, Zenon DEF ReopenSyncFails, TypeInv, FilesOK, FlagsOK, store, files
<1> QED BY <1>6, <1>7, <1>8, <1>9, <1>10, <1>11, <1>12, <1>13, <1>14, <1>15, Zenon DEF SaverStep

\* The end of the process keeps the types, whatever is left of the AOF.
LEMMA StopTypes ==
  ASSUME TypeInv, Stop, aof' \in Seq(Line), synced' \in 0 .. Len(aof'), torn' \in BOOLEAN
  PROVE  TypeInv'
<1>1. left' \in LeftType
  BY LeftTypes, Zenon DEF Stop
<1>2. ThreadsOK'
  <2>1. "idle" \in Labels /\ LocalsOK("idle", NoLoc)
    BY Zenon DEF Labels, LocalsOK
  <2>2. pc' = [t \in Threads |-> "idle"] /\ loc' = [t \in Threads |-> NoLoc]
    BY Zenon DEF Stop
  <2>3. pc' \in [Threads -> Labels] /\ loc' \in [Threads -> LocType]
    BY <2>1, <2>2, NothingTypes, Zenon
  <2>4. \A t \in Threads : pc'[t] = "idle" /\ loc'[t] = NoLoc
    BY <2>2, Zenon
  <2> QED BY <2>1, <2>3, <2>4, Zenon DEF ThreadsOK, LocalsOK
<1>3. FilesOK'
  BY NothingTypes DEF Stop, TypeInv, FilesOK
<1>4. FlagsOK'
  BY <1>1, Zenon DEF Stop, TypeInv, FlagsOK
<1> QED BY <1>2, <1>3, <1>4, Zenon DEF TypeInv

\* The initial state has the types.
LEMMA InitTypes == Init => TypeInv
<1> SUFFICES ASSUME Init PROVE TypeInv
  BY Zenon
<1>0. cfg \in Configs /\ Work[cfg].calls \in [Clients -> Nat]
  BY PersistAssumption, Zenon DEF Init
<1>1. left \in LeftType
  <2>1. MaxSaves \in Nat /\ MaxCrashes \in Nat /\ MaxFailures \in Nat
    BY Constants, Zenon
  <2>2. MaxFailures \in 0 .. MaxFailures
    BY <2>1
  <2>3. left = [ops |-> Work[cfg].calls, saves |-> MaxSaves, crashes |-> MaxCrashes,
                failures |-> MaxFailures]
    BY Zenon DEF Init
  <2> QED BY <1>0, <2>1, <2>2, <2>3, Zenon DEF LeftType
<1>2. ThreadsOK
  BY NothingTypes, Zenon DEF Init, ThreadsOK, Labels
<1>3. FilesOK
  BY NothingTypes DEF Init, FilesOK
<1>4. FlagsOK
  <2>1. 0 \in 0 .. MaxTime
    BY Constants
  <2>2. aofOpen \in BOOLEAN /\ untouched \in [run : SUBSET Keys, done : SUBSET Keys]
    BY DEF Init, HasAOF
  <2> QED BY <1>0, <1>1, <2>1, <2>2, Zenon DEF Init, FlagsOK
<1> QED BY <1>2, <1>3, <1>4, Zenon DEF TypeInv

\* The steps of no thread keep the types.
LEMMA OtherTypes ==
  ASSUME Replays, TypeInv,
         (\E k \in Keys : Reclaim(k)) \/ fsyncLoop \/ Crash \/ Close \/ LosePower \/ Load
         \/ Advance \/ UNCHANGED vars
  PROVE  TypeInv'
<1>0. /\ aof \in Seq(Line) /\ Len(aof) \in Nat /\ synced \in 0 .. Len(aof) /\ torn \in BOOLEAN
      /\ Len(aof) \in 0 .. Len(aof)
  BY DEF TypeInv, FilesOK, FlagsOK
<1>1. ASSUME NEW k \in Keys, Reclaim(k) PROVE TypeInv'
  <2>1. mem' \in [Keys -> Entry]
    BY <1>1, NothingTypes, Zenon DEF Reclaim, TypeInv, FilesOK
  <2>2. untouched' \in [run : SUBSET Keys, done : SUBSET Keys]
    BY <1>1, WrittenType, Zenon DEF Reclaim
  <2> QED BY <1>1, <2>1, <2>2, Zenon DEF Reclaim, TypeInv, FilesOK, FlagsOK, ThreadsOK, files, engine
<1>2. CASE fsyncLoop
  BY <1>0, <1>2, Zenon DEF fsyncLoop, TypeInv, FilesOK, FlagsOK, ThreadsOK, store, engine
<1>3. CASE Crash
  BY <1>0, <1>3, StopTypes, Zenon DEF Crash
<1>4. CASE Close
  <2>1. aof' = aof /\ torn' = torn /\ (synced' = synced \/ synced' = Len(aof)) /\ Stop
    BY <1>4, Zenon DEF Close
  <2> QED BY <1>0, <2>1, StopTypes, Zenon
<1>5. CASE LosePower
  <2>1. PICK n \in synced .. Len(aof) :
          aof' = SubSeq(aof, 1, n) /\ synced' = n /\ torn' \in BOOLEAN
    BY <1>5, Zenon DEF LosePower
  <2>2. n \in Int /\ n >= 0 /\ n <= Len(aof)
    BY <1>0, <2>1
  <2>3. \A i \in 1 .. n : aof[i] \in Line
    BY <1>0, <2>2
  <2>4. aof' \in Seq(Line) /\ Len(aof') = n
    <3>1. /\ SubSeq(aof, 1, n) \in Seq(Line)
          /\ Len(SubSeq(aof, 1, n)) = IF 1 <= n THEN n - 1 + 1 ELSE 0
      BY <1>0, <2>2
    <3> QED BY <2>1, <2>2, <3>1
  <2>5. synced' \in 0 .. Len(aof') /\ torn' \in BOOLEAN /\ Stop
    BY <1>5, <2>1, <2>2, <2>4 DEF LosePower
  <2> QED BY <2>4, <2>5, StopTypes, Zenon
<1>6. CASE Load
  <2>1. LoadLines(aof, clock) \in [mem : [Keys -> Entry], ok : BOOLEAN]
    BY <1>0, LoadType, Zenon
  <2> DEFINE r == LoadLines(aof, clock)
  <2>2. \/ status' = "up" /\ mem' = r.mem /\ aofOpen' = HasAOF
           /\ untouched' = [run |-> Keys, done |-> Keys]
        \/ status' = "refused" /\ UNCHANGED <<store, aofOpen>>
    BY <1>6, Zenon DEF Load
  <2> HIDE DEF r
  <2>3. mem' \in [Keys -> Entry]
    BY <2>1, <2>2, Zenon DEF r, store, TypeInv, FilesOK
  <2>4. /\ aofOpen' \in BOOLEAN /\ untouched' \in [run : SUBSET Keys, done : SUBSET Keys]
        /\ status' \in {"up", "down", "refused"}
    <3>1. HasAOF \in BOOLEAN
      BY DEF HasAOF
    <3>2. [run |-> Keys, done |-> Keys] \in [run : SUBSET Keys, done : SUBSET Keys]
      BY Zenon
    <3> HIDE DEF r
    <3> QED BY <2>2, <3>1, <3>2, Zenon DEF store, TypeInv, FlagsOK
  <2>5. UNCHANGED <<cfg, files, catchingUp, catchup, saving, mu, clock, left, pc, loc>>
    BY <1>6, Zenon DEF Load
  <2> QED BY <2>3, <2>4, <2>5, Zenon DEF TypeInv, FilesOK, FlagsOK, ThreadsOK, files
<1>7. CASE Advance
  <2>1. clock' \in 0 .. MaxTime
    <3>1. clock \in 0 .. MaxTime /\ MaxTime \in Nat
      BY Constants, Zenon DEF TypeInv, FlagsOK
    <3>2. clock < MaxTime /\ clock' = clock + 1
      BY <1>7, Zenon DEF Advance
    <3> QED BY <3>1, <3>2
  <2> QED BY <1>7, <2>1, Zenon DEF Advance, TypeInv, FilesOK, FlagsOK, ThreadsOK, store, files, engine
<1>8. CASE UNCHANGED vars
  BY <1>8, Zenon DEF vars, TypeInv, FilesOK, FlagsOK, ThreadsOK
<1> QED BY <1>1, <1>2, <1>3, <1>4, <1>5, <1>6, <1>7, <1>8, Zenon

\* Every step keeps the types.
LEMMA TypeStep == Replays /\ TypeInv /\ [Next]_vars => TypeInv'
<1> SUFFICES ASSUME Replays, TypeInv, [Next]_vars PROVE TypeInv'
  BY Zenon
<1>1. ASSUME NEW c \in Clients, Operation(c) \/ ClientStep(c) PROVE TypeInv'
  BY <1>1, OperationTypes, ClientTypes, Zenon
<1>2. ASSUME NEW s \in Savers, SaveSnapshot(s) \/ SaverStep(s) PROVE TypeInv'
  BY <1>2, SaverTypes, Zenon
<1> QED BY <1>1, <1>2, OtherTypes, Zenon DEF Next, Done

----------------------------------------------------------------------------
(* Failed file operations *)

\* A step after which none has failed: none has failed before, nor fails in it.  Only the
\* loss of the machine tears the file then.
LEMMA Counted ==
  ASSUME TypeInv, [Next]_vars, left'.failures = MaxFailures
  PROVE  /\ left.failures = MaxFailures /\ cfg' = cfg
         /\ \A c \in Clients : ~appendFails(c)
         /\ \A s \in Savers : ~SaveFails(s) /\ ~SwapFails(s) /\ ~ReopenSyncFails(s)
         /\ status' = "up" => /\ torn' = torn \/ torn' = FALSE
                              /\ status = "up" \/ Load
<1> DEFINE Q == /\ left'.failures = left.failures /\ cfg' = cfg
                /\ status' = "up" => /\ torn' = torn \/ torn' = FALSE
                                     /\ status = "up" \/ Load
<1>1. \A c \in Clients : ~appendFails(c)
  BY LeftTypes, Zenon DEF appendFails
<1>2. \A s \in Savers : ~SaveFails(s) /\ ~SwapFails(s) /\ ~ReopenSyncFails(s)
  BY LeftTypes, Zenon DEF SaveFails, SwapFails, ReopenSyncFails, Failure
<1>3. /\ \A c \in Clients : [left EXCEPT !.ops[c] = @ - 1].failures = left.failures
      /\ [left EXCEPT !.saves = @ - 1].failures = left.failures
      /\ [left EXCEPT !.crashes = @ - 1].failures = left.failures
  BY LogTypes, Zenon DEF LeftType
<1>4. ASSUME NEW c \in Clients, Operation(c) PROVE Q
  <2>1. ASSUME NEW op, Begin(c, op), UNCHANGED <<files, engine, status>> PROVE Q
    BY <1>3, <2>1, Zenon DEF Begin, files, engine
  <2>2. ASSUME NEW op, NEW k, NEW e, NEW line, Alter(c, op, k, e, line) PROVE Q
    BY <2>1, <2>2, Zenon DEF Alter
  <2>3. ASSUME NEW k, NEW v, NEW ttl, Set(c, k, v, ttl) PROVE Q
    BY <2>1, <2>3, Zenon DEF Set
  <2>4. ASSUME FlushStart(c) PROVE Q
    BY <2>1, <2>4, Zenon DEF FlushStart
  <2>5. ASSUME NEW k, NEW ttl, Expire(c, k, ttl) PROVE Q
    BY <2>2, <2>5, Zenon DEF Expire
  <2>6. ASSUME NEW k, Del(c, k) \/ PersistKey(c, k) PROVE Q
    BY <2>2, <2>6, Zenon DEF Del, PersistKey
  <2> HIDE DEF Q
  <2> QED BY <1>4, <2>3, <2>4, <2>5, <2>6, Zenon DEF Operation
<1>5. ASSUME NEW c \in Clients, ClientStep(c) PROVE Q
  <2>1. ASSUME NEW k, FlushDel(c, k) PROVE Q
    BY <2>1, Zenon DEF FlushDel, files, engine
  <2>2. CASE FlushScan(c) \/ FlushEnd(c)
    BY <2>2, Zenon DEF FlushScan, FlushEnd, files, engine
  <2>3. CASE appendAOF(c) \/ appendSync(c)
    BY <2>3, Zenon DEF appendAOF, appendSync
  <2> HIDE DEF Q
  <2> QED BY <1>1, <1>5, <2>1, <2>2, <2>3, Zenon DEF ClientStep
<1>6. ASSUME NEW s \in Savers, SaveSnapshot(s) \/ SaverStep(s) PROVE Q
  <2>1. CASE SaveSnapshot(s)
    BY <1>3, <2>1, Zenon DEF SaveSnapshot, files
  <2>2. CASE ExportAll(s) \/ WriteSnapshot(s)
    BY <2>2, Zenon DEF ExportAll, WriteSnapshot, files, engine
  <2>3. CASE installCatchupAsAOF(s) \/ rewriteAOF(s)
    BY <2>3, Zenon DEF installCatchupAsAOF, rewriteAOF, files
  <2>4. CASE Rename(s) \/ Reopen(s)
    BY <2>4, Zenon DEF Rename, Reopen, engine
  <2> HIDE DEF Q
  <2> QED BY <1>2, <1>6, <2>1, <2>2, <2>3, <2>4, Zenon DEF SaverStep
<1>7. ASSUME NEW k, Reclaim(k) PROVE Q
  BY <1>7, Zenon DEF Reclaim, files, engine
<1>8. ASSUME Crash \/ Close \/ LosePower PROVE Q
  <2>1. Stop
    BY <1>8, Zenon DEF Crash, Close, LosePower
  <2> QED BY <1>3, <2>1, Zenon DEF Stop
<1>9. ASSUME fsyncLoop \/ Load \/ Advance \/ UNCHANGED vars PROVE Q
  <2>1. CASE fsyncLoop
    BY <2>1, Zenon DEF fsyncLoop, engine
  <2>2. CASE Load
    BY <2>2, Zenon DEF Load, files
  <2>3. CASE Advance \/ UNCHANGED vars
    BY <2>3, Zenon DEF Advance, vars, files, engine
  <2> HIDE DEF Q
  <2> QED BY <1>9, <2>1, <2>2, <2>3, Zenon
<1>10. Q
  <2> HIDE DEF Q
  <2> QED BY <1>4, <1>5, <1>6, <1>7, <1>8, <1>9, Zenon DEF Next, Done
<1> QED BY <1>1, <1>2, <1>10, Zenon

\* A file without failures has no torn line: Load refuses the one it finds.
LEMMA WholeStep == TypeInv /\ WholeInv /\ [Next]_vars => WholeInv'
<1> SUFFICES ASSUME TypeInv, WholeInv, [Next]_vars, status' = "up", left'.failures = MaxFailures
             PROVE  ~TornLog'
  BY Zenon DEF WholeInv
<1>1. /\ left.failures = MaxFailures /\ cfg' = cfg
      /\ torn' = torn \/ torn' = FALSE
      /\ status = "up" \/ Load
  BY Counted, Zenon
<1>2. status = "up" => ~TornLog
  BY <1>1, Zenon DEF WholeInv
<1>3. Load => ~TornLog
  BY Zenon DEF Load
<1> QED BY <1>1, <1>2, <1>3, Zenon DEF TornLog, HasAOF

\* It has none at the start.
LEMMA WholeInit == Init => WholeInv
BY Zenon DEF Init, WholeInv, TornLog

----------------------------------------------------------------------------
(* Who runs *)

\* One thread moves: it may enter e.mu when nobody is inside, and a saver may leave
\* idle when the gate is open.
LEMMA GateMoves ==
  ASSUME TypeInv, GateInv, NEW t \in Threads, NEW a, pc' = [pc EXCEPT ![t] = a],
         status = "up", UNCHANGED <<status, cfg>>, ModeOK(a, cfg.mode),
         t \in Clients => a \in ClientLabels /\ saving' = saving,
         t \in Savers => /\ a \in SaverLabels /\ (a # "idle" => saving')
                         /\ pc[t] # "idle" \/ ~saving,
         a \in MuLabels => mu' = t /\ mu \in {t, Nil},
         a \notin MuLabels => mu' = IF mu = t THEN Nil ELSE mu
  PROVE  GateInv'
<1>1. /\ pc \in [Threads -> Labels] /\ Nil \notin Threads /\ Threads = Clients \cup Savers
      /\ Clients \cap Savers = {}
  BY Constants, Zenon DEF TypeInv, ThreadsOK
<1>2. \A u \in Threads : pc'[u] = IF u = t THEN a ELSE pc[u]
  BY <1>1, Zenon
<1>3. \A c \in Clients : pc'[c] \in ClientLabels
  BY <1>1, <1>2, Zenon DEF GateInv
<1>4. t \in Savers => \A s \in Savers : pc[s] # "idle" => s = t
  BY Zenon DEF GateInv
<1>5. \A s \in Savers : pc'[s] \in SaverLabels /\ (pc'[s] # "idle" => saving')
  BY <1>1, <1>2, <1>4 DEF GateInv
<1>6. \A s, u \in Savers : pc'[s] # "idle" /\ pc'[u] # "idle" => s = u
  <2>1. CASE t \in Savers
    BY <1>1, <1>2, <1>4, <2>1, Zenon
  <2>2. CASE t \notin Savers
    BY <1>1, <1>2, <2>2, Zenon DEF GateInv
  <2> QED BY <2>1, <2>2, Zenon
<1>7. \A u \in Threads : pc'[u] \in MuLabels <=> mu' = u
  BY <1>1, <1>2 DEF GateInv
<1>8. \A u \in Threads : ModeOK(pc'[u], cfg'.mode)
  BY <1>2, Zenon DEF GateInv
<1> QED BY <1>3, <1>5, <1>6, <1>7, <1>8, Zenon DEF GateInv, ModeOK

\* A step in which no thread moves.
LEMMA GateStays ==
  ASSUME GateInv, UNCHANGED <<pc, mu, saving, cfg>>, status = "up" => status' = "up"
  PROVE  GateInv'
BY Zenon DEF GateInv, ModeOK

\* The operations of clients and their further steps keep the gate.
LEMMA ClientGate ==
  ASSUME TypeInv, GateInv, NEW c \in Clients, Operation(c) \/ ClientStep(c)
  PROVE  GateInv'
<1>0. c \in Threads /\ c \notin Savers /\ c # Nil /\ (pc[c] \in MuLabels <=> mu = c)
  BY Constants, Zenon DEF GateInv
<1>1. ASSUME status = "up", UNCHANGED <<status, cfg, mu, saving>>, pc[c] \notin MuLabels,
             NEW a \in {"idle", "scan", "wipe"}, pc' = [pc EXCEPT ![c] = a]
      PROVE  GateInv'
  <2>1. a \in ClientLabels /\ a \notin MuLabels /\ ModeOK(a, cfg.mode)
    BY Zenon DEF ClientLabels, MuLabels, ModeOK
  <2>2. mu' = IF mu = c THEN Nil ELSE mu
    BY <1>0, <1>1, Zenon
  <2> QED BY <1>0, <1>1, <2>1, <2>2, GateMoves, Zenon
<1>2. ASSUME NEW line, status = "up", UNCHANGED <<status, cfg, mu, saving>>, pc[c] \notin MuLabels,
             Emits(c, line)
      PROVE  GateInv'
  <2> DEFINE a == IF HasAOF THEN "emit" ELSE "idle"
  <2>1. a \in ClientLabels /\ a \notin MuLabels /\ ModeOK(a, cfg.mode)
    BY Zenon DEF ClientLabels, MuLabels, ModeOK, HasAOF
  <2>2. mu' = IF mu = c THEN Nil ELSE mu
    BY <1>0, <1>2, Zenon
  <2>3. pc' = [pc EXCEPT ![c] = a]
    BY <1>2, Zenon DEF Emits, Goto
  <2> HIDE DEF a
  <2> QED BY <1>0, <1>2, <2>1, <2>2, <2>3, GateMoves, Zenon
<1>3. \A op : Begin(c, op) => status = "up" /\ pc[c] \notin MuLabels
  BY Zenon DEF Begin, At, MuLabels
<1>4. ASSUME NEW op, NEW k, NEW e, NEW line, Alter(c, op, k, e, line) PROVE GateInv'
  <2>1. UNCHANGED <<status, cfg, mu, saving>>
    BY <1>4, Zenon DEF Alter, engine
  <2>2. CASE UNCHANGED <<pc, loc>>
    BY <2>1, <2>2, GateStays, Zenon
  <2>3. CASE Emits(c, line)
    BY <1>2, <1>3, <1>4, <2>1, <2>3, Zenon DEF Alter
  <2> QED BY <1>4, <2>2, <2>3, Zenon DEF Alter
<1>5. ASSUME NEW k, NEW v, NEW ttl, Set(c, k, v, ttl) PROVE GateInv'
  <2>1. PICK line : Emits(c, line)
    BY <1>5, Zenon DEF Set
  <2>2. UNCHANGED <<status, cfg, mu, saving>>
    BY <1>5, Zenon DEF Set, engine
  <2> QED BY <1>2, <1>3, <1>5, <2>1, <2>2, Zenon DEF Set
<1>6. CASE FlushStart(c)
  <2>1. UNCHANGED <<status, cfg, mu, saving>>
    BY <1>6, Zenon DEF FlushStart, engine
  <2> QED BY <1>1, <1>3, <1>6, <2>1, Zenon DEF FlushStart, Goto
<1>7. CASE Operation(c)
  <2>1. ASSUME NEW k \in Keys, Del(c, k) \/ PersistKey(c, k) PROVE GateInv'
    BY <1>4, <2>1, Zenon DEF Del, PersistKey
  <2>2. ASSUME NEW k \in Keys, NEW ttl, Expire(c, k, ttl) PROVE GateInv'
    BY <1>4, <2>2, Zenon DEF Expire
  <2> QED BY <1>5, <1>6, <1>7, <2>1, <2>2, Zenon DEF Operation
<1>8. CASE FlushScan(c)
  <2>1. UNCHANGED <<status, cfg, mu, saving>> /\ status = "up" /\ pc[c] \notin MuLabels
    BY <1>8, Zenon DEF FlushScan, engine, At, MuLabels
  <2>2. \E a \in {"idle", "scan", "wipe"} : pc' = [pc EXCEPT ![c] = a]
    BY <1>8, Zenon DEF FlushScan, Goto
  <2> QED BY <1>1, <2>1, <2>2, Zenon
<1>9. ASSUME NEW k, FlushDel(c, k) PROVE GateInv'
  BY <1>9, GateStays, Zenon DEF FlushDel, engine
<1>10. CASE FlushEnd(c)
  <2>1. UNCHANGED <<status, cfg, mu, saving>> /\ status = "up" /\ pc[c] \notin MuLabels
    BY <1>10, Zenon DEF FlushEnd, engine, At, MuLabels
  <2>2. CASE Emits(c, NoLine)
    BY <1>2, <2>1, <2>2, Zenon
  <2>3. CASE Goto(c, "idle")
    BY <1>1, <2>1, <2>3, Zenon DEF Goto
  <2> QED BY <1>10, <2>2, <2>3, Zenon DEF FlushEnd
<1>11. ASSUME status = "up", UNCHANGED <<status, cfg, saving>>, mu' = Nil, mu \in {c, Nil}, Return(c)
       PROVE  GateInv'
  <2>1. "idle" \in ClientLabels /\ "idle" \notin MuLabels /\ ModeOK("idle", cfg.mode)
    BY Zenon DEF ClientLabels, MuLabels, ModeOK
  <2>2. mu' = IF mu = c THEN Nil ELSE mu
    BY <1>0, <1>11, Zenon
  <2>3. pc' = [pc EXCEPT ![c] = "idle"]
    BY <1>11, Zenon DEF Return, Goto
  <2> QED BY <1>0, <1>11, <2>1, <2>2, <2>3, GateMoves, Zenon
<1>12. CASE appendAOF(c)
  <2>1. UNCHANGED <<status, cfg, saving>> /\ status = "up" /\ mu = Nil /\ pc[c] = "emit"
    BY <1>12, Zenon DEF appendAOF, At
  <2>2. CASE Return(c) /\ UNCHANGED mu
    BY <1>11, <2>1, <2>2, Zenon
  <2>3. CASE mu' = c /\ Goto(c, "sync")
    <3>1. ModeOK("emit", cfg.mode)
      BY <1>0, <2>1, Zenon DEF GateInv
    <3>2. "sync" \in ClientLabels /\ "sync" \in MuLabels /\ ModeOK("sync", cfg.mode)
      BY <3>1, Zenon DEF ClientLabels, MuLabels, ModeOK
    <3> QED BY <1>0, <2>1, <2>3, <3>2, GateMoves, Zenon DEF Goto
  <2> QED BY <1>12, <2>2, <2>3, Zenon DEF appendAOF
<1>13. CASE appendSync(c)
  <2>1. UNCHANGED <<status, cfg, saving>> /\ status = "up" /\ mu = c /\ mu' = Nil /\ Return(c)
    BY <1>0, <1>13, Zenon DEF appendSync, At, MuLabels
  <2> QED BY <1>11, <2>1, Zenon
<1>14. CASE appendFails(c)
  <2>1. UNCHANGED <<status, cfg, saving>> /\ status = "up" /\ mu \in {c, Nil} /\ mu' = Nil /\ Return(c)
    BY <1>0, <1>14, Zenon DEF appendFails, At, MuLabels
  <2> QED BY <1>11, <2>1, Zenon
<1> QED BY <1>7, <1>8, <1>9, <1>10, <1>12, <1>13, <1>14, Zenon DEF ClientStep

\* The steps of SAVE keep the gate.
LEMMA SaverGate ==
  ASSUME TypeInv, GateInv, NEW s \in Savers, SaveSnapshot(s) \/ SaverStep(s)
  PROVE  GateInv'
<1>0. /\ s \in Threads /\ s \notin Clients /\ s # Nil /\ (pc[s] \in MuLabels <=> mu = s)
      /\ ModeOK(pc[s], cfg.mode) /\ (pc[s] # "idle" => saving)
  BY Constants, Zenon DEF GateInv
<1>1. ASSUME NEW a \in SaverLabels, status = "up", UNCHANGED <<status, cfg>>, Goto(s, a),
             a # "idle" => saving', pc[s] # "idle" \/ ~saving, ModeOK(a, cfg.mode),
             a \in MuLabels => mu' = s /\ mu \in {s, Nil},
             a \notin MuLabels => mu' = IF mu = s THEN Nil ELSE mu
      PROVE  GateInv'
  BY <1>0, <1>1, GateMoves, Zenon DEF Goto
<1>2. /\ \A a \in {"idle", "export", "install"} : a \in SaverLabels /\ a \notin MuLabels
      /\ \A a \in {"rename", "reopen"} : a \in SaverLabels /\ a \in MuLabels
      /\ ModeOK("idle", cfg.mode) /\ ModeOK("export", cfg.mode)
  BY Zenon DEF SaverLabels, MuLabels, ModeOK
<1>3. ASSUME status = "up", UNCHANGED <<status, cfg>>, Finish(s), pc[s] # "idle",
             mu' = IF mu = s THEN Nil ELSE mu
      PROVE  GateInv'
  <2>1. Goto(s, "idle")
    BY <1>3, Zenon DEF Finish
  <2> QED BY <1>1, <1>2, <1>3, <2>1, Zenon
<1>4. ASSUME status = "up", UNCHANGED <<status, cfg>>, EndSwap(s), pc[s] \in {"rename", "reopen"}
      PROVE  GateInv'
  <2>1. mu = s /\ mu' = Nil /\ Finish(s) /\ pc[s] # "idle"
    BY <1>0, <1>2, <1>4, Zenon DEF EndSwap
  <2> QED BY <1>3, <1>4, <2>1, Zenon
<1>5. CASE SaveSnapshot(s)
  <2>1. status = "up" /\ UNCHANGED <<status, cfg, mu>> /\ Goto(s, "export") /\ saving' /\ ~saving
        /\ mu = Nil
    BY <1>5, Zenon DEF SaveSnapshot, At, SaveGate
  <2> QED BY <1>0, <1>1, <1>2, <2>1, Zenon
<1>6. CASE ExportAll(s)
  BY <1>6, GateStays, Zenon DEF ExportAll, engine
<1>7. CASE WriteSnapshot(s)
  <2>1. status = "up" /\ UNCHANGED <<status, cfg, mu>> /\ pc[s] = "export" /\ mu # s
    BY <1>0, <1>7, Zenon DEF WriteSnapshot, Exported, At, MuLabels
  <2>2. CASE Finish(s)
    BY <1>3, <2>1, <2>2, Zenon
  <2>3. CASE cfg.mode # "snapshot" /\ Goto(s, "install") /\ UNCHANGED saving
    <3>1. cfg.mode = "snapshot+aof"
      <4>1. cfg.mode # "aof"
        BY <1>7, Zenon DEF WriteSnapshot
      <4> QED BY <2>3, <4>1, Modes, Zenon
    <3>2. ModeOK("install", cfg.mode)
      BY <3>1, Zenon DEF ModeOK
    <3> QED BY <1>0, <1>1, <1>2, <2>1, <2>3, <3>2, Zenon
  <2> QED BY <1>7, <2>2, <2>3, Zenon DEF WriteSnapshot
<1>8. CASE installCatchupAsAOF(s) \/ rewriteAOF(s)
  <2>1. /\ status = "up" /\ UNCHANGED <<status, cfg, saving>> /\ Goto(s, "rename")
        /\ mu = Nil /\ mu' = s /\ pc[s] \in {"install", "export"}
        /\ cfg.mode \in {"aof", "snapshot+aof"}
    BY <1>0, <1>8, Zenon DEF installCatchupAsAOF, rewriteAOF, Exported, At, ModeOK
  <2>2. ModeOK("rename", cfg.mode)
    BY <2>1, Zenon DEF ModeOK
  <2> QED BY <1>0, <1>1, <1>2, <2>1, <2>2, Zenon
<1>9. CASE Rename(s)
  <2>1. /\ status = "up" /\ UNCHANGED <<status, cfg, saving, mu>> /\ Goto(s, "reopen")
        /\ pc[s] = "rename"
    BY <1>9, Zenon DEF Rename, At, engine
  <2>2. ModeOK("reopen", cfg.mode)
    BY <1>0, <2>1, Zenon DEF ModeOK
  <2> QED BY <1>0, <1>1, <1>2, <2>1, <2>2, Zenon
<1>10. CASE Reopen(s)
  BY <1>4, <1>10, Zenon DEF Reopen, At
<1>11. CASE SaveFails(s)
  <2>1. status = "up" /\ UNCHANGED <<status, cfg, mu>> /\ mu = Nil /\ Finish(s) /\ pc[s] = "export"
    BY <1>11, Zenon DEF SaveFails, At
  <2> QED BY <1>0, <1>3, <2>1, Zenon
<1>12. CASE SwapFails(s)
  BY <1>4, <1>12, Zenon DEF SwapFails, At
<1>13. CASE ReopenSyncFails(s)
  BY <1>4, <1>13, Zenon DEF ReopenSyncFails, At
<1> QED BY <1>5, <1>6, <1>7, <1>8, <1>9, <1>10, <1>11, <1>12, <1>13, Zenon DEF SaverStep

\* The end of the process leaves nobody running.
LEMMA StopGate ==
  ASSUME Stop
  PROVE  GateInv'
<1>1. /\ \A t \in Threads : pc'[t] = "idle"
      /\ mu' = Nil /\ ~saving' /\ Nil \notin Threads
  BY Constants, Zenon DEF Stop
<1>2. "idle" \in ClientLabels /\ "idle" \in SaverLabels /\ "idle" \notin MuLabels
  BY Zenon DEF ClientLabels, SaverLabels, MuLabels
<1>3. Clients \subseteq Threads /\ Savers \subseteq Threads
  BY Zenon DEF Threads
<1> QED BY <1>1, <1>2, <1>3, Zenon DEF GateInv, ModeOK

\* Every step keeps the gate.
LEMMA GateStep == TypeInv /\ GateInv /\ [Next]_vars => GateInv'
<1> SUFFICES ASSUME TypeInv, GateInv, [Next]_vars PROVE GateInv'
  BY Zenon
<1>1. ASSUME NEW c \in Clients, Operation(c) \/ ClientStep(c) PROVE GateInv'
  BY <1>1, ClientGate, Zenon
<1>2. ASSUME NEW s \in Savers, SaveSnapshot(s) \/ SaverStep(s) PROVE GateInv'
  BY <1>2, SaverGate, Zenon
<1>3. ASSUME NEW k \in Keys, Reclaim(k) PROVE GateInv'
  BY <1>3, GateStays, Zenon DEF Reclaim, engine
<1>4. CASE fsyncLoop
  BY <1>4, GateStays, Zenon DEF fsyncLoop, engine
<1>5. CASE Crash \/ Close \/ LosePower
  BY <1>5, StopGate, Zenon DEF Crash, Close, LosePower
<1>6. CASE Load
  BY <1>6, GateStays, Zenon DEF Load
<1>7. CASE Advance
  BY <1>7, GateStays, Zenon DEF Advance, engine
<1>8. CASE UNCHANGED vars
  BY <1>8, GateStays, Zenon DEF vars
<1> QED BY <1>1, <1>2, <1>3, <1>4, <1>5, <1>6, <1>7, <1>8, Zenon DEF Next, Done

\* Nobody runs at the start.
LEMMA GateInit == Init => GateInv
<1> SUFFICES ASSUME Init PROVE GateInv
  BY Zenon
<1>1. /\ \A t \in Threads : pc[t] = "idle"
      /\ mu = Nil /\ ~saving /\ Nil \notin Threads
  BY Constants, Zenon DEF Init
<1>2. "idle" \in ClientLabels /\ "idle" \in SaverLabels /\ "idle" \notin MuLabels
  BY Zenon DEF ClientLabels, SaverLabels, MuLabels
<1>3. Clients \subseteq Threads /\ Savers \subseteq Threads
  BY Zenon DEF Threads
<1> QED BY <1>1, <1>2, <1>3, Zenon DEF GateInv, ModeOK

----------------------------------------------------------------------------
(* What the snapshot holds *)

\* No saver begins or goes on with an export, and the keys that count as untouched are.
LEMMA SnapStays ==
  ASSUME TypeInv, SnapInv, cfg' = cfg, snap' = snap, clock' \in Nat, clock <= clock',
         status' = "up" => status = "up",
         \A s \in Savers : pc'[s] = "export" => pc[s] = "export" /\ loc'[s] = loc[s],
         cfg.mode = "snapshot" =>
           /\ \A k \in untouched'.done : k \in untouched.done /\ mem'[k] = mem[k]
           /\ \A k \in untouched'.run : k \in untouched.run /\ mem'[k] = mem[k]
  PROVE  SnapInv'
<1>0. /\ clock \in Nat /\ mem \in [Keys -> Entry] /\ untouched.done \subseteq Keys
      /\ untouched.run \subseteq Keys /\ loc \in [Threads -> LocType]
  <2>1. untouched.done \subseteq Keys /\ untouched.run \subseteq Keys
    BY Zenon DEF TypeInv, FlagsOK
  <2> QED BY <2>1, LogTypes, Zenon
<1>1. \A k \in Keys : Live(mem[k], clock') => Live(mem[k], clock)
  BY <1>0, LiveBefore, Zenon
<1>2. status' = "up" /\ cfg.mode = "snapshot" =>
        \A k \in untouched'.done : Live(mem'[k], clock') => snap[k] = mem'[k]
  BY <1>0, <1>1, Zenon DEF SnapInv
<1>3. ASSUME NEW s \in Savers, pc'[s] = "export" PROVE ImageOK(s)'
  <2>1. pc[s] = "export" /\ loc'[s] = loc[s] /\ ImageOK(s) /\ loc[s] \in LocType
    BY <1>0, <1>3, Zenon DEF SnapInv, Threads
  <2>2. loc[s].now \in Nat
    BY <2>1, Zenon DEF LocType
  <2>3. loc'[s].now <= clock' /\ loc'[s].cursor <= ShardCount
    BY <1>0, <2>1, <2>2 DEF ImageOK
  <2>4. cfg.mode = "snapshot" =>
          \A k \in untouched'.run :
            ShardOf[k] < loc[s].cursor /\ Live(mem'[k], clock') => loc[s].image[k] = mem'[k]
    BY <1>0, <1>1, <2>1, Zenon DEF ImageOK
  <2> QED BY <2>1, <2>3, <2>4, Zenon DEF ImageOK, Live
<1> QED BY <1>2, <1>3, Zenon DEF SnapInv, ImageOK, Live

\* A write takes its key off the untouched ones.
LEMMA WrittenSnap ==
  ASSUME TypeInv, NEW k \in Keys, NEW e, mem' = [mem EXCEPT ![k] = e], Written(k)
  PROVE  cfg.mode = "snapshot" =>
           /\ \A j \in untouched'.done : j \in untouched.done /\ mem'[j] = mem[j]
           /\ \A j \in untouched'.run : j \in untouched.run /\ mem'[j] = mem[j]
<1>0. mem \in [Keys -> Entry] /\ untouched.done \subseteq Keys /\ untouched.run \subseteq Keys
  BY Zenon DEF TypeInv, FilesOK, FlagsOK
<1>1. SUFFICES ASSUME cfg.mode = "snapshot"
               PROVE  /\ \A j \in untouched'.done : j \in untouched.done /\ mem'[j] = mem[j]
                      /\ \A j \in untouched'.run : j \in untouched.run /\ mem'[j] = mem[j]
  BY Zenon
<1>2. untouched'.done = untouched.done \ {k} /\ untouched'.run = untouched.run \ {k}
  BY <1>1, Zenon DEF Written
<1> QED BY <1>0, <1>2, Zenon

\* The operations of clients keep the snapshot's promise.
LEMMA ClientSnap ==
  ASSUME TypeInv, SnapInv, NEW c \in Clients, Operation(c) \/ ClientStep(c)
  PROVE  SnapInv'
<1>0. /\ c \in Threads /\ c \notin Savers /\ clock \in Nat
      /\ pc \in [Threads -> Labels] /\ loc \in [Threads -> LocType] /\ Savers \subseteq Threads
  BY LogTypes, Zenon
<1>1. ASSUME pc' = pc \/ \E a : pc' = [pc EXCEPT ![c] = a],
             loc' = loc \/ \E l : loc' = [loc EXCEPT ![c] = l],
             cfg' = cfg, snap' = snap, clock' = clock, status' = status,
             \/ UNCHANGED store
             \/ \E k \in Keys : Written(k) /\ \E e : mem' = [mem EXCEPT ![k] = e]
      PROVE  SnapInv'
  <2>1. \A s \in Savers : pc'[s] = pc[s] /\ loc'[s] = loc[s]
    BY <1>0, <1>1, Zenon
  <2>2. cfg.mode = "snapshot" =>
          /\ \A j \in untouched'.done : j \in untouched.done /\ mem'[j] = mem[j]
          /\ \A j \in untouched'.run : j \in untouched.run /\ mem'[j] = mem[j]
    <3>1. CASE UNCHANGED store
      BY <3>1, Zenon DEF store
    <3>2. CASE \E k \in Keys : Written(k) /\ \E e : mem' = [mem EXCEPT ![k] = e]
      BY <3>2, WrittenSnap, Zenon
    <3> QED BY <1>1, <3>1, <3>2, Zenon
  <2>3. clock' \in Nat /\ clock <= clock'
    BY <1>0, <1>1
  <2> QED BY <1>1, <2>1, <2>2, <2>3, SnapStays, Zenon
<1>2. \A line : Emits(c, line) => /\ \E a : pc' = [pc EXCEPT ![c] = a]
                                  /\ \E l : loc' = [loc EXCEPT ![c] = l]
  BY Zenon DEF Emits, Goto
<1>3. Return(c) => /\ \E a : pc' = [pc EXCEPT ![c] = a]
                   /\ \E l : loc' = [loc EXCEPT ![c] = l]
  BY Zenon DEF Return, Goto
<1>4. ASSUME NEW op, NEW k \in Keys, NEW e, NEW line, Alter(c, op, k, e, line) PROVE SnapInv'
  <2>1. cfg' = cfg /\ snap' = snap /\ clock' = clock /\ status' = status /\ Written(k)
    BY <1>4, Zenon DEF Alter, files, engine
  <2>2. \E x : mem' = [mem EXCEPT ![k] = x]
    BY <1>4, Zenon DEF Alter
  <2>3. UNCHANGED <<pc, loc>> \/ Emits(c, line)
    BY <1>4, Zenon DEF Alter
  <2> QED BY <1>1, <1>2, <2>1, <2>2, <2>3, Zenon
<1>5. ASSUME NEW k \in Keys, NEW v, NEW ttl, Set(c, k, v, ttl) PROVE SnapInv'
  <2>1. cfg' = cfg /\ snap' = snap /\ clock' = clock /\ status' = status /\ Written(k)
    BY <1>5, Zenon DEF Set, files, engine
  <2>2. (\E x : mem' = [mem EXCEPT ![k] = x]) /\ \E line : Emits(c, line)
    BY <1>5, Zenon DEF Set
  <2> QED BY <1>1, <1>2, <2>1, <2>2, Zenon
<1>6. CASE Operation(c)
  <2>1. ASSUME NEW k \in Keys, Del(c, k) \/ PersistKey(c, k) PROVE SnapInv'
    BY <1>4, <2>1, Zenon DEF Del, PersistKey
  <2>2. ASSUME NEW k \in Keys, NEW ttl, Expire(c, k, ttl) PROVE SnapInv'
    BY <1>4, <2>2, Zenon DEF Expire
  <2>3. CASE FlushStart(c)
    BY <1>1, <2>3, Zenon DEF FlushStart, Goto, files, engine
  <2> QED BY <1>5, <1>6, <2>1, <2>2, <2>3, Zenon DEF Operation
<1>7. CASE FlushScan(c)
  <2>1. \E l : loc' = [loc EXCEPT ![c] = l]
    BY <1>7, Zenon DEF FlushScan
  <2> QED BY <1>1, <1>7, <2>1, Zenon DEF FlushScan, Goto, files, engine
<1>8. ASSUME NEW k \in Keys, FlushDel(c, k) PROVE SnapInv'
  <2>1. \E l : loc' = [loc EXCEPT ![c] = l]
    BY <1>8, Zenon DEF FlushDel
  <2> QED BY <1>1, <1>8, <2>1, Zenon DEF FlushDel, files, engine
<1>9. CASE FlushEnd(c)
  <2>1. Emits(c, NoLine) \/ Return(c)
    BY <1>9, Zenon DEF FlushEnd, Return
  <2> QED BY <1>1, <1>2, <1>3, <1>9, <2>1, Zenon DEF FlushEnd, files, engine
<1>10. CASE appendAOF(c)
  <2>1. (Goto(c, "sync") /\ UNCHANGED loc) \/ Return(c)
    BY <1>10, Zenon DEF appendAOF
  <2> QED BY <1>1, <1>3, <1>10, <2>1, Zenon DEF appendAOF, Goto
<1>11. CASE appendSync(c)
  BY <1>1, <1>3, <1>11, Zenon DEF appendSync
<1>12. CASE appendFails(c)
  BY <1>1, <1>3, <1>12, Zenon DEF appendFails, files
<1> QED BY <1>6, <1>7, <1>8, <1>9, <1>10, <1>11, <1>12, Zenon DEF ClientStep

\* The steps of SAVE keep the snapshot's promise.
LEMMA SaverSnap ==
  ASSUME TypeInv, GateInv, SnapInv, NEW s \in Savers, SaveSnapshot(s) \/ SaverStep(s)
  PROVE  SnapInv'
<1>0. /\ s \in Threads /\ clock \in Nat /\ loc[s] \in LocType
      /\ pc \in [Threads -> Labels] /\ loc \in [Threads -> LocType] /\ Savers \subseteq Threads
      /\ mem \in [Keys -> Entry] /\ untouched \in [run : SUBSET Keys, done : SUBSET Keys]
      /\ ShardCount \in Nat /\ ShardOf \in [Keys -> 0 .. ShardCount - 1]
  <2>1. untouched \in [run : SUBSET Keys, done : SUBSET Keys]
    BY Zenon DEF TypeInv, FlagsOK
  <2> QED BY <2>1, LogTypes, Zenon
<1>1. ASSUME NEW a, a # "export", Goto(s, a), loc' = loc \/ \E l : loc' = [loc EXCEPT ![s] = l],
             UNCHANGED <<cfg, snap, clock, status, mem, untouched>>
      PROVE  SnapInv'
  <2>1. \A u \in Savers : pc'[u] = "export" => pc[u] = "export" /\ loc'[u] = loc[u]
    BY <1>0, <1>1, Zenon DEF Goto
  <2>2. clock' \in Nat /\ clock <= clock'
    BY <1>0, <1>1
  <2> QED BY <1>1, <2>1, <2>2, SnapStays, Zenon
<1>2. Finish(s) => Goto(s, "idle") /\ \E l : loc' = [loc EXCEPT ![s] = l]
  BY Zenon DEF Finish
<1>3. CASE SaveSnapshot(s)
  <2>1. /\ pc' = [pc EXCEPT ![s] = "export"] /\ loc' = [loc EXCEPT ![s] = [NoLoc EXCEPT !.now = clock]]
        /\ UNCHANGED <<cfg, snap, clock, status, mem>> /\ untouched'.done = untouched.done
    BY <1>0, <1>3, Zenon DEF SaveSnapshot, Goto, files
  <2>2. \A u \in Savers : u # s => pc[u] = "idle"
    BY <1>3, Zenon DEF GateInv, SaveSnapshot, SaveGate
  <2>3. loc'[s].now = clock /\ loc'[s].cursor = 0
    BY <1>0, <2>1, Zenon DEF NoLoc
  <2>4. ASSUME NEW u \in Savers PROVE ImageOK(u)'
    <3>1. CASE u = s
      <4>1. \A k \in Keys : ~(ShardOf[k] < 0)
        BY <1>0
      <4>2. untouched'.run \subseteq Keys
        BY <1>0, <1>3, Zenon DEF SaveSnapshot
      <4> QED BY <1>0, <2>1, <2>3, <3>1, <4>1, <4>2 DEF ImageOK
    <3>2. CASE u # s
      BY <1>0, <2>1, <2>2, <3>2, Zenon DEF ImageOK
    <3> QED BY <3>1, <3>2, Zenon
  <2> QED BY <2>1, <2>4, Zenon DEF SnapInv, ImageOK, Live
<1>4. CASE ExportAll(s)
  <2> DEFINE l == loc[s]
             I == [k \in Keys |-> IF ShardOf[k] = l.cursor /\ Live(mem[k], l.now)
                                  THEN mem[k] ELSE l.image[k]]
  <2>1. /\ pc[s] = "export" /\ l.cursor < ShardCount
        /\ UNCHANGED <<cfg, snap, clock, status, mem, untouched, pc>>
    BY <1>4, Zenon DEF ExportAll, At, store, files, engine
  <2>2. /\ loc'[s].cursor = l.cursor + 1 /\ loc'[s].now = l.now /\ loc'[s].image = I
        /\ \A u \in Savers : u # s => loc'[u] = loc[u]
    BY <1>0, <1>4, Zenon DEF ExportAll, LocType
  <2>3. l.now \in Nat /\ l.now <= clock /\ l.cursor \in Nat /\ l.cursor + 1 <= ShardCount
    <3>1. ImageOK(s)
      BY <2>1, Zenon DEF SnapInv
    <3>2. l.now <= clock /\ l.now \in Nat /\ l.cursor \in Nat
      BY <1>0, <2>1, <3>1, LogTypes, Zenon DEF ImageOK
    <3> QED BY <1>0, <2>1, <3>2
  <2>4. ASSUME cfg.mode = "snapshot", NEW k \in untouched.run, ShardOf[k] < l.cursor + 1,
               Live(mem[k], clock)
        PROVE  I[k] = mem[k]
    <3>1. k \in Keys /\ mem[k] \in Entry /\ ShardOf[k] \in Nat
      BY <1>0
    <3>2. Live(mem[k], l.now)
      BY <1>0, <2>3, <2>4, <3>1, LiveBefore, Zenon
    <3>3. CASE ShardOf[k] = l.cursor
      BY <3>1, <3>2, <3>3, Zenon
    <3>4. CASE ShardOf[k] # l.cursor
      <4>1. ShardOf[k] < l.cursor
        BY <2>3, <2>4, <3>1, <3>4
      <4>2. l.image[k] = mem[k]
        BY <2>1, <2>4, <4>1, Zenon DEF SnapInv, ImageOK
      <4> QED BY <3>1, <3>4, <4>2, Zenon
    <3> QED BY <3>3, <3>4, Zenon
  <2> HIDE DEF I
  <2>5. ASSUME NEW u \in Savers PROVE ImageOK(u)'
    <3>1. CASE u = s
      BY <2>1, <2>2, <2>3, <2>4, <3>1, Zenon DEF ImageOK
    <3>2. CASE u # s
      BY <2>1, <2>2, <3>2, Zenon DEF SnapInv, ImageOK
    <3> QED BY <3>1, <3>2, Zenon
  <2> QED BY <2>1, <2>5, Zenon DEF SnapInv, ImageOK, Live
<1>5. CASE WriteSnapshot(s)
  <2>1. /\ pc[s] = "export" /\ loc[s].cursor = ShardCount /\ snap' = loc[s].image
        /\ untouched'.done = untouched.run /\ untouched'.run = untouched.run
        /\ UNCHANGED <<cfg, mem, status, clock>>
    BY <1>0, <1>5, Zenon DEF WriteSnapshot, Exported, At
  <2>2. \A u \in Savers : u # s => pc[u] = "idle"
    BY <2>1, Zenon DEF GateInv
  <2>3. \A u \in Savers : pc'[u] # "export"
    BY <1>0, <1>5, <2>2, Zenon DEF WriteSnapshot, Finish, Goto
  <2>4. ASSUME cfg.mode = "snapshot", NEW k \in untouched.run, Live(mem[k], clock)
        PROVE  loc[s].image[k] = mem[k]
    <3>1. ShardOf[k] < loc[s].cursor
      BY <1>0, <2>1
    <3> QED BY <2>1, <2>4, <3>1, Zenon DEF SnapInv, ImageOK
  <2> QED BY <2>1, <2>3, <2>4, Zenon DEF SnapInv, ImageOK
<1>6. CASE installCatchupAsAOF(s)
  BY <1>1, <1>6, Zenon DEF installCatchupAsAOF, store, files
<1>7. CASE rewriteAOF(s)
  <2>1. \E l : loc' = [loc EXCEPT ![s] = l]
    BY <1>7, Zenon DEF rewriteAOF
  <2> QED BY <1>1, <1>7, <2>1, Zenon DEF rewriteAOF, store, files
<1>8. CASE Rename(s)
  BY <1>1, <1>8, Zenon DEF Rename, store, engine
<1>9. CASE Reopen(s)
  BY <1>1, <1>2, <1>9, Zenon DEF Reopen, EndSwap, store
<1>10. CASE SaveFails(s)
  BY <1>1, <1>2, <1>10, Zenon DEF SaveFails, store, files
<1>11. CASE SwapFails(s)
  BY <1>1, <1>2, <1>11, Zenon DEF SwapFails, EndSwap, store, files
<1>12. CASE ReopenSyncFails(s)
  BY <1>1, <1>2, <1>12, Zenon DEF ReopenSyncFails, EndSwap, store, files
<1> QED BY <1>3, <1>4, <1>5, <1>6, <1>7, <1>8, <1>9, <1>10, <1>11, <1>12, Zenon DEF SaverStep

\* In snapshot mode Load brings back what the snapshot holds and has not expired.
LEMMA LoadsSnapshot ==
  ASSUME Replays, TypeInv, cfg.mode = "snapshot", NEW lines
  PROVE  /\ LoadLines(lines, clock).mem = [k \in Keys |-> IF Live(snap[k], clock) THEN snap[k] ELSE None]
         /\ Roomy => LoadLines(lines, clock).ok
<1>1. ~HasAOF
  BY Zenon DEF HasAOF
<1>2. loadSnapshot(clock) = [k \in Keys |-> IF Live(snap[k], clock) THEN snap[k] ELSE None]
  BY Zenon DEF loadSnapshot
<1> DEFINE p == Replay(loadSnapshot(clock), <<>>, clock)
           good == Fits(loadSnapshot(clock)) /\ p.ok
<1>3. LoadLines(lines, clock) = [mem |-> p.mem, ok |-> good]
  BY <1>1, Zenon DEF LoadLines
<1>4. p.mem = loadSnapshot(clock) /\ p.ok
  BY ReplayNothing
<1>5. Roomy => good
  BY <1>4, AllFits, Zenon
<1> HIDE DEF p, good
<1>6. LoadLines(lines, clock).mem = p.mem /\ LoadLines(lines, clock).ok = good
  BY <1>3
<1> QED BY <1>2, <1>4, <1>5, <1>6, Zenon

\* Every step keeps the snapshot's promise.
LEMMA SnapStep == Replays /\ TypeInv /\ GateInv /\ SnapInv /\ [Next]_vars => SnapInv'
<1> SUFFICES ASSUME Replays, TypeInv, GateInv, SnapInv, [Next]_vars PROVE SnapInv'
  BY Zenon
<1>0. clock \in Nat /\ Savers \subseteq Threads
  BY Constants DEF TypeInv, FlagsOK
<1>1. ASSUME NEW c \in Clients, Operation(c) \/ ClientStep(c) PROVE SnapInv'
  BY <1>1, ClientSnap, Zenon
<1>2. ASSUME NEW s \in Savers, SaveSnapshot(s) \/ SaverStep(s) PROVE SnapInv'
  BY <1>2, SaverSnap, Zenon
<1>3. ASSUME UNCHANGED <<cfg, snap, status, mem, untouched, pc, loc>>, clock' \in Nat, clock <= clock'
      PROVE  SnapInv'
  BY <1>3, SnapStays, Zenon
<1>4. ASSUME NEW k \in Keys, Reclaim(k) PROVE SnapInv'
  <2>1. /\ UNCHANGED <<cfg, snap, status, pc, loc, clock>> /\ Written(k)
        /\ mem' = [mem EXCEPT ![k] = None]
    BY <1>4, Zenon DEF Reclaim, files, engine
  <2>2. cfg.mode = "snapshot" =>
          /\ \A j \in untouched'.done : j \in untouched.done /\ mem'[j] = mem[j]
          /\ \A j \in untouched'.run : j \in untouched.run /\ mem'[j] = mem[j]
    BY <2>1, WrittenSnap, Zenon
  <2>3. clock' \in Nat /\ clock <= clock'
    BY <1>0, <2>1
  <2> QED BY <2>1, <2>2, <2>3, SnapStays, Zenon
<1>5. CASE fsyncLoop
  BY <1>0, <1>3, <1>5 DEF fsyncLoop, store, engine
<1>6. CASE Crash \/ Close \/ LosePower
  <2>1. status' = "down" /\ \A s \in Savers : pc'[s] = "idle"
    BY <1>0, <1>6, Zenon DEF Crash, Close, LosePower, Stop
  <2> QED BY <2>1, Zenon DEF SnapInv, ImageOK
<1>7. CASE Load
  <2>1. UNCHANGED <<cfg, snap, clock, pc>> /\ status = "down"
    BY <1>7, Zenon DEF Load, files
  <2>2. \A s \in Savers : pc'[s] = "idle"
    BY <1>0, <2>1, Zenon DEF GateInv
  <2>3. status' = "up" => mem' = LoadLines(aof, clock).mem /\ untouched'.done = Keys
    BY <1>7 DEF Load
  <2>4. ASSUME status' = "up", cfg.mode = "snapshot", NEW k \in Keys, Live(mem'[k], clock)
        PROVE  snap[k] = mem'[k]
    <3>1. mem' = [j \in Keys |-> IF Live(snap[j], clock) THEN snap[j] ELSE None]
      BY <2>3, <2>4, LoadsSnapshot, Zenon
    <3> QED BY <2>4, <3>1, Zenon DEF Live
  <2> QED BY <2>1, <2>2, <2>3, <2>4, Zenon DEF SnapInv, ImageOK, Live
<1>8. CASE Advance
  BY <1>0, <1>3, <1>8 DEF Advance, store, files, engine
<1>9. CASE UNCHANGED vars
  BY <1>0, <1>3, <1>9 DEF vars
<1> QED BY <1>1, <1>2, <1>4, <1>5, <1>6, <1>7, <1>8, <1>9, Zenon DEF Next, Done

\* The snapshot's promise holds at the start.
LEMMA SnapInit == Init => SnapInv
<1>1. ~Live(None, 0) /\ Savers \subseteq Threads
  BY Zenon DEF Live, Threads
<1> QED BY <1>1, Zenon DEF Init, SnapInv, ImageOK, NoData

----------------------------------------------------------------------------
(* The lines of SET and DEL *)

\* A change of k by client c, before it is logged.
Puts(c, k, e, line) ==
  /\ At(c, "idle") /\ c \in Work[cfg].writers[k]
  /\ line \in DataLine /\ line.key = k /\ EntryOf(line) = e /\ e \in Entry
  /\ mem' = [mem EXCEPT ![k] = e] /\ Emits(c, line)
  /\ left'.failures = left.failures
  /\ UNCHANGED <<files, engine, status, clock>>

\* The removal of an entry that is not logged.
Drops(k) ==
  /\ status = "up" /\ (Evictions \/ ~Live(mem[k], clock))
  /\ mem' = [mem EXCEPT ![k] = None]
  /\ left'.failures = left.failures
  /\ UNCHANGED <<files, engine, status, clock, pc, loc>>

\* What the steps of a client are when it only SETs and DELs.
LEMMA ClientKinds ==
  ASSUME SetDel, TypeInv, DataInv, NEW c \in Clients, Operation(c) \/ ClientStep(c)
  PROVE  \/ \E k \in Keys, e \in Entry, line \in DataLine : Puts(c, k, e, line)
         \/ \E k \in Keys : Drops(k)
         \/ appendAOF(c) \/ appendSync(c) \/ appendFails(c)
<1>0. cfg \in Configs /\ clock \in Nat /\ left \in LeftType
  BY PersistAssumption DEF TypeInv, FlagsOK
<1>1. Work[cfg].ops \subseteq {"set", "del"} /\ \A ttl \in Work[cfg].ttls : ttl \in Nat
  BY <1>0, PersistAssumption, Zenon DEF SetDel
<1>2. \A op : Begin(c, op) => At(c, "idle") /\ left'.failures = left.failures /\ op \in {"set", "del"}
  BY <1>0, <1>1, Zenon DEF Begin, LeftType
<1>3. ASSUME NEW k \in Keys, Del(c, k)
      PROVE  Drops(k) \/ \E e \in Entry, line \in DataLine : Puts(c, k, e, line)
  <2> DEFINE line == [op |-> "DEL", key |-> k, val |-> Nil, exp |-> 0]
  <2>1. line \in DataLine /\ line.key = k /\ EntryOf(line) = None /\ None \in Entry
    BY NothingTypes, Zenon DEF DataLine, Line, EntryOf
  <2>2. Alter(c, "del", k, None, line)
    BY <1>3, Zenon DEF Del
  <2> HIDE DEF line
  <2>3. /\ Begin(c, "del") /\ c \in Work[cfg].writers[k] /\ mem' = [mem EXCEPT ![k] = None]
        /\ UNCHANGED <<files, engine, status, clock>>
    BY <2>2, Zenon DEF Alter
  <2>4. CASE Live(mem[k], clock)
    BY <1>2, <2>1, <2>2, <2>3, <2>4, Zenon DEF Alter, Puts
  <2>5. CASE ~Live(mem[k], clock)
    BY <1>2, <2>2, <2>3, <2>5, Zenon DEF Alter, Drops, At
  <2> QED BY <2>4, <2>5, Zenon
<1>4. ASSUME NEW k \in Keys, NEW v \in Values, NEW ttl \in Nat, Set(c, k, v, ttl)
      PROVE  \E e \in Entry, line \in DataLine : Puts(c, k, e, line)
  <2> DEFINE exp == IF ttl = 0 THEN 0 ELSE clock + ttl
             e == [val |-> v, exp |-> exp]
             line == [op |-> "SET", key |-> k, val |-> v, exp |-> exp]
  <2>1. exp \in Nat
    BY <1>0
  <2>2. /\ Begin(c, "set") /\ c \in Work[cfg].writers[k] /\ mem' = [mem EXCEPT ![k] = e]
        /\ Emits(c, line) /\ UNCHANGED <<files, engine, status, clock>>
    BY <1>4, Zenon DEF Set
  <2> HIDE DEF exp
  <2>3. line \in DataLine /\ line.key = k /\ EntryOf(line) = e /\ e \in Entry
    BY <2>1, Zenon DEF DataLine, Line, EntryOf, Entry
  <2> HIDE DEF line, e
  <2> QED BY <1>2, <2>2, <2>3, Zenon DEF Puts
<1>5. \A k \in Keys, ttl \in Nat : ~PersistKey(c, k) /\ ~Expire(c, k, ttl)
  BY <1>2 DEF PersistKey, Expire, Alter
<1>6. ~FlushStart(c)
  BY <1>2 DEF FlushStart
<1>7. ~FlushScan(c) /\ ~FlushEnd(c) /\ \A k \in Keys : ~FlushDel(c, k)
  BY Zenon DEF FlushScan, FlushEnd, FlushDel, At, DataInv
<1>8. CASE Operation(c)
  BY <1>1, <1>3, <1>4, <1>5, <1>6, <1>8, Zenon DEF Operation
<1> QED BY <1>7, <1>8, Zenon DEF ClientStep

\* The lines stay lines of SET and DEL.
LEMMA DataStep ==
  ASSUME Replays, SetDel, TypeInv, GateInv, DataInv, [Next]_vars
  PROVE  DataInv'
<1>0. /\ pc \in [Threads -> Labels] /\ loc \in [Threads -> LocType] /\ Threads = Clients \cup Savers
      /\ Clients \cap Savers = {} /\ <<>> \in Seq(DataLine)
      /\ NoLoc.log = <<>>
  BY Constants DEF TypeInv, ThreadsOK, NoLoc
<1>1. ASSUME UNCHANGED <<cfg, pc, loc>>, aof' \in Seq(DataLine), catchup' \in Seq(DataLine)
      PROVE  DataInv'
  BY <1>1, Zenon DEF DataInv
<1>2. ASSUME NEW c \in Clients, NEW a, NEW l, cfg' = cfg,
             aof' \in Seq(DataLine), catchup' \in Seq(DataLine),
             pc' = [pc EXCEPT ![c] = a], loc' = [loc EXCEPT ![c] = l],
             \/ a = "idle"
             \/ /\ a \in {"emit", "sync"} /\ l.line \in DataLine
                /\ c \in Work[cfg].writers[l.line.key]
      PROVE  DataInv'
  <2>1. \A s \in Savers : loc'[s].log \in Seq(DataLine)
    BY <1>0, <1>2, Zenon DEF DataInv
  <2>2. ASSUME NEW d \in Clients
        PROVE  /\ pc'[d] \in {"idle", "emit", "sync"}
               /\ pc'[d] # "idle" => /\ loc'[d].line \in DataLine
                                     /\ d \in Work[cfg].writers[loc'[d].line.key]
    <3>1. CASE d = c
      <4>1. pc'[d] = a /\ loc'[d] = l
        BY <1>0, <1>2, <3>1, Zenon
      <4> QED BY <1>2, <3>1, <4>1, Zenon
    <3>2. CASE d # c
      <4>1. pc'[d] = pc[d] /\ loc'[d] = loc[d]
        BY <1>0, <1>2, <3>2, Zenon
      <4> QED BY <4>1, Zenon DEF DataInv
    <3> QED BY <3>1, <3>2, Zenon
  <2> QED BY <1>2, <2>1, <2>2, Zenon DEF DataInv
<1>3. ASSUME NEW s \in Savers, NEW a, NEW l, cfg' = cfg,
             aof' \in Seq(DataLine), catchup' \in Seq(DataLine),
             pc' = [pc EXCEPT ![s] = a], loc' = [loc EXCEPT ![s] = l], l.log \in Seq(DataLine)
      PROVE  DataInv'
  <2>1. \A u \in Savers : loc'[u].log \in Seq(DataLine)
    BY <1>0, <1>3, Zenon DEF DataInv
  <2>2. \A d \in Clients : pc'[d] = pc[d] /\ loc'[d] = loc[d]
    BY <1>0, <1>3, Zenon
  <2> QED BY <1>3, <2>1, <2>2, Zenon DEF DataInv
<1>4. ASSUME NEW c \in Clients, Operation(c) \/ ClientStep(c) PROVE DataInv'
  <2>0. c \in Threads /\ loc[c] \in LocType
    BY <1>0, Zenon
  <2>1. ASSUME NEW k \in Keys, NEW e \in Entry, NEW line \in DataLine, Puts(c, k, e, line)
        PROVE  DataInv'
    <3>1. /\ cfg' = cfg /\ aof' \in Seq(DataLine) /\ catchup' \in Seq(DataLine) /\ line.key = k
          /\ c \in Work[cfg].writers[k]
      BY <2>1, Zenon DEF Puts, files, engine, DataInv
    <3>2. CASE HasAOF
      <4>1. pc' = [pc EXCEPT ![c] = "emit"] /\ loc' = [loc EXCEPT ![c] = [NoLoc EXCEPT !.line = line]]
        BY <2>1, <3>2, Zenon DEF Puts, Emits, Goto
      <4>2. [NoLoc EXCEPT !.line = line].line = line
        BY Zenon DEF NoLoc
      <4> QED BY <1>2, <3>1, <4>1, <4>2, Zenon
    <3>3. CASE ~HasAOF
      <4>1. pc' = [pc EXCEPT ![c] = "idle"] /\ loc' = [loc EXCEPT ![c] = NoLoc]
        BY <2>1, <3>3, Zenon DEF Puts, Emits, Goto
      <4> QED BY <1>2, <3>1, <4>1, Zenon
    <3> QED BY <3>2, <3>3, Zenon
  <2>2. ASSUME NEW k \in Keys, Drops(k) PROVE DataInv'
    BY <1>1, <2>2, Zenon DEF Drops, files, engine, DataInv
  <2>3. pc[c] # "idle" => DualWrite(loc[c].line) \in Seq(DataLine) /\ Append(aof, loc[c].line) \in Seq(DataLine)
    BY DEF DualWrite, DataInv
  <2>4. CASE appendAOF(c)
    <3>1. /\ pc[c] = "emit" /\ cfg' = cfg /\ aof' \in Seq(DataLine) /\ catchup' \in Seq(DataLine)
      BY <2>3, <2>4, Zenon DEF appendAOF, At, DataInv
    <3>2. CASE Return(c)
      BY <1>2, <3>1, <3>2, Zenon DEF Return, Goto
    <3>3. CASE Goto(c, "sync") /\ UNCHANGED loc
      <4>1. loc' = [loc EXCEPT ![c] = loc[c]] /\ pc' = [pc EXCEPT ![c] = "sync"]
        BY <1>0, <3>3, Zenon DEF Goto
      <4>2. loc[c].line \in DataLine /\ c \in Work[cfg].writers[loc[c].line.key]
        BY <3>1, Zenon DEF DataInv
      <4> QED BY <1>2, <3>1, <4>1, <4>2, Zenon
    <3> QED BY <2>4, <3>2, <3>3, Zenon DEF appendAOF
  <2>5. CASE appendSync(c)
    BY <1>2, <2>3, <2>5, Zenon DEF appendSync, At, Return, Goto, DataInv
  <2>6. CASE appendFails(c)
    BY <1>2, <2>6, Zenon DEF appendFails, files, Return, Goto, DataInv
  <2> QED BY <1>4, <2>1, <2>2, <2>4, <2>5, <2>6, ClientKinds, Zenon
<1>5. ASSUME NEW s \in Savers, SaveSnapshot(s) \/ SaverStep(s) PROVE DataInv'
  <2>0. s \in Threads /\ loc[s] \in LocType /\ loc[s].log \in Seq(DataLine)
    BY <1>0, Zenon DEF DataInv
  <2>1. ASSUME Finish(s), cfg' = cfg, aof' \in Seq(DataLine), catchup' \in Seq(DataLine)
        PROVE  DataInv'
    BY <1>0, <1>3, <2>1, Zenon DEF Finish, Goto
  <2>2. CASE SaveSnapshot(s)
    <3>1. [NoLoc EXCEPT !.now = clock].log = <<>>
      BY Zenon DEF NoLoc
    <3>2. cfg' = cfg /\ aof' \in Seq(DataLine) /\ catchup' \in Seq(DataLine)
      BY <1>0, <2>2, Zenon DEF SaveSnapshot, files, DataInv
    <3> QED BY <1>0, <1>3, <2>2, <3>1, <3>2, Zenon DEF SaveSnapshot, Goto
  <2>3. CASE ExportAll(s)
    <3>1. /\ cfg' = cfg /\ aof' \in Seq(DataLine) /\ catchup' \in Seq(DataLine) /\ pc' = pc
          /\ \A u \in Threads : loc'[u].log = loc[u].log
          /\ \A c \in Clients : loc'[c] = loc[c]
      BY <1>0, <2>3, Zenon DEF ExportAll, files, engine, DataInv, LocType
    <3> QED BY <1>0, <3>1, Zenon DEF DataInv
  <2>4. CASE WriteSnapshot(s)
    <3>1. cfg' = cfg /\ aof' \in Seq(DataLine) /\ catchup' \in Seq(DataLine)
      BY <2>4, Zenon DEF WriteSnapshot, DataInv
    <3>2. CASE Goto(s, "install") /\ UNCHANGED loc
      <4>1. loc' = [loc EXCEPT ![s] = loc[s]] /\ pc' = [pc EXCEPT ![s] = "install"]
        BY <1>0, <3>2, Zenon DEF Goto
      <4> QED BY <1>3, <2>0, <3>1, <4>1, Zenon
    <3> QED BY <2>1, <2>4, <3>1, <3>2, Zenon DEF WriteSnapshot
  <2>5. CASE installCatchupAsAOF(s)
    <3>1. cfg' = cfg /\ aof' \in Seq(DataLine) /\ catchup' \in Seq(DataLine) /\ catchup \in Seq(DataLine)
      BY <1>0, <2>5, Zenon DEF installCatchupAsAOF, files, DataInv
    <3>2. /\ loc' = [loc EXCEPT ![s] = [loc[s] EXCEPT !.log = catchup]]
          /\ pc' = [pc EXCEPT ![s] = "rename"]
      BY <1>0, <2>0, <2>5, Zenon DEF installCatchupAsAOF, Goto, Delta
    <3>3. [loc[s] EXCEPT !.log = catchup].log = catchup
      BY <2>0, Zenon DEF LocType
    <3> QED BY <1>3, <3>1, <3>2, <3>3, Zenon
  <2>6. CASE rewriteAOF(s)
    <3> DEFINE q == Rewritten(s)
               l == [loc[s] EXCEPT !.log = q, !.n = Len(q)]
    <3>1. cfg' = cfg /\ aof' \in Seq(DataLine) /\ catchup' \in Seq(DataLine) /\ catchup \in Seq(DataLine)
      BY <2>6, Zenon DEF rewriteAOF, files, DataInv
    <3>2. q \in Seq(DataLine)
      <4>1. loc[s].image \in [Keys -> Entry]
        BY <2>0, Zenon DEF LocType
      <4>2. Lines(loc[s].image) \in Seq(DataLine)
        BY <4>1, LinesFinal, Zenon
      <4> QED BY <3>1, <4>2 DEF Rewritten
    <3>3. loc' = [loc EXCEPT ![s].log = q, ![s].n = Len(q)] /\ pc' = [pc EXCEPT ![s] = "rename"]
      BY <2>6, Zenon DEF rewriteAOF, Goto
    <3> HIDE DEF q
    <3>4. loc' = [loc EXCEPT ![s] = l] /\ l.log = q
      BY <1>0, <2>0, <3>3, Zenon DEF LocType
    <3> QED BY <1>3, <3>1, <3>2, <3>3, <3>4, Zenon
  <2>7. CASE Rename(s)
    <3>1. cfg' = cfg /\ aof' \in Seq(DataLine) /\ catchup' \in Seq(DataLine)
      BY <2>0, <2>7, Zenon DEF Rename, engine, DataInv
    <3>2. loc' = [loc EXCEPT ![s] = loc[s]] /\ pc' = [pc EXCEPT ![s] = "reopen"]
      BY <1>0, <2>7, Zenon DEF Rename, Goto
    <3> QED BY <1>3, <2>0, <3>1, <3>2, Zenon
  <2>8. CASE Reopen(s)
    BY <1>0, <2>1, <2>8, Zenon DEF Reopen, EndSwap, DataInv
  <2>9. CASE SaveFails(s)
    BY <1>0, <2>1, <2>9, Zenon DEF SaveFails, files, DataInv
  <2>10. CASE SwapFails(s)
    BY <1>0, <2>1, <2>10, Zenon DEF SwapFails, EndSwap, files, DataInv
  <2>11. CASE ReopenSyncFails(s)
    BY <1>0, <2>1, <2>11, Zenon DEF ReopenSyncFails, EndSwap, files, DataInv
  <2> QED BY <1>5, <2>2, <2>3, <2>4, <2>5, <2>6, <2>7, <2>8, <2>9, <2>10, <2>11, Zenon DEF SaverStep
<1>6. ASSUME NEW k \in Keys, Reclaim(k) PROVE DataInv'
  BY <1>1, <1>6, Zenon DEF Reclaim, files, engine, DataInv
<1>7. CASE fsyncLoop
  BY <1>1, <1>7, Zenon DEF fsyncLoop, engine, DataInv
<1>8. CASE Crash \/ Close \/ LosePower
  <2>1. aof' \in Seq(DataLine)
    <3>1. CASE Crash \/ Close
      BY <3>1, Zenon DEF Crash, Close, DataInv
    <3>2. CASE LosePower
      <4>1. PICK n \in synced .. Len(aof) : aof' = SubSeq(aof, 1, n)
        BY <3>2, Zenon DEF LosePower
      <4>2. aof \in Seq(DataLine) /\ synced \in Nat /\ Len(aof) \in Nat
        BY DEF DataInv, TypeInv, FilesOK
      <4>3. n \in Int /\ n <= Len(aof)
        BY <4>2
      <4>4. \A i \in 1 .. n : aof[i] \in DataLine
        BY <4>2, <4>3
      <4>5. SubSeq(aof, 1, n) \in Seq(DataLine)
        BY <4>2, <4>3
      <4> QED BY <4>1, <4>5, Zenon
    <3> QED BY <1>8, <3>1, <3>2, Zenon
  <2>2. /\ catchup' = <<>> /\ pc' = [t \in Threads |-> "idle"] /\ loc' = [t \in Threads |-> NoLoc]
    BY <1>8, Zenon DEF Crash, Close, LosePower, Stop
  <2> QED BY <1>0, <2>1, <2>2, Zenon DEF DataInv
<1>9. CASE Load
  BY <1>1, <1>9, Zenon DEF Load, files, DataInv
<1>10. CASE Advance
  BY <1>1, <1>10, Zenon DEF Advance, files, engine, DataInv
<1>11. CASE UNCHANGED vars
  BY <1>1, <1>11, Zenon DEF vars, DataInv
<1> QED BY <1>4, <1>5, <1>6, <1>7, <1>8, <1>9, <1>10, <1>11, Zenon DEF Next, Done

----------------------------------------------------------------------------
(* What the log says *)

\* Agreement outlives time, and the removal of what was expired or evicted.
LEMMA AgreesFacts ==
  /\ \A m, now : Agrees(m, m, now)
  /\ \A r, m \in Entry, a, b \in Nat : a <= b /\ Agrees(r, m, a) => Agrees(r, m, b)
  /\ \A r, m, now : Agrees(r, m, now) /\ (Evictions \/ ~Live(m, now)) => Agrees(r, None, now)
<1>1. \A m, now : Agrees(m, m, now)
  BY Zenon DEF Agrees
<1>2. ASSUME NEW r \in Entry, NEW m \in Entry, NEW a \in Nat, NEW b \in Nat, a <= b, Agrees(r, m, a)
      PROVE  Agrees(r, m, b)
  <2>1. (Live(m, b) => Live(m, a)) /\ (Live(r, b) => Live(r, a))
    BY <1>2, LiveBefore, Zenon
  <2> QED BY <1>2, <2>1, Zenon DEF Agrees
<1>3. \A r, m, now : Agrees(r, m, now) /\ (Evictions \/ ~Live(m, now)) => Agrees(r, None, now)
  BY Zenon DEF Agrees, Live
<1> QED BY <1>1, <1>2, <1>3, Zenon

\* Steps after which the entries stand for the DB as they did, and nothing else changes.
LEMMA LogStays ==
  ASSUME Replays, TypeInv, DataInv, LogInv, Healthy' => Healthy,
         UNCHANGED <<cfg, snap, aof, aofOpen, catchingUp, catchup, pc, loc>>,
         \A k \in Keys : \A r \in Entry : Agrees(r, mem[k], clock) => Agrees(r, mem'[k], clock')
  PROVE  LogInv'
<1> SUFFICES ASSUME Healthy'
             PROVE  /\ OpenOK'
                    /\ \A c \in Clients : EmitOK(c)'
                    /\ \A k \in Keys : AofOK(k)'
                    /\ \A s \in Savers : SaverOK(s)'
  BY Zenon DEF LogInv
<1>0. OpenOK /\ (\A c \in Clients : EmitOK(c)) /\ (\A k \in Keys : AofOK(k)) /\ \A s \in Savers : SaverOK(s)
  BY Zenon DEF LogInv
<1>1. \A k : (Emitting(k)' <=> Emitting(k)) /\ (Busy(k)' <=> Busy(k))
  BY Zenon DEF Emitting, Busy
<1>2. Base' = Base
  BY Zenon DEF Base
<1>3. OpenOK'
  BY <1>0, Zenon DEF OpenOK
<1>4. ASSUME NEW c \in Clients PROVE EmitOK(c)'
  <2>1. pc[c] \in {"emit", "sync"} => EntryOf(loc[c].line) \in Entry /\ loc[c].line.key \in Keys
    BY NothingTypes, Zenon DEF DataInv, DataLine, Line, EntryOf, Entry
  <2> QED BY <1>0, <2>1, Zenon DEF EmitOK
<1>5. ASSUME NEW k \in Keys PROVE AofOK(k)'
  <2>1. Final(aof, k, Base[k]) \in Entry
    BY LogTypes, FinalFacts, Zenon DEF DataInv
  <2>2. Final(aof, k, Base[k])' = Final(aof, k, Base[k])
    BY <1>2, Zenon
  <2> QED BY <1>0, <1>1, <1>2, <2>1, <2>2, Zenon DEF AofOK
<1>6. ASSUME NEW s \in Savers PROVE SaverOK(s)'
  <2>0. SaverOK(s) /\ s \in Threads
    BY <1>0, LogTypes, Zenon
  <2>1. ASSUME NEW k \in Keys, ExportedOK(s, k) PROVE ExportedOK(s, k)'
    <3>1. Final(catchup, k, loc[s].image[k]) \in Entry
      BY <2>0, LogTypes, FinalFacts, ZenonT(30) DEF DataInv
    <3> QED BY <1>1, <2>1, <3>1, Zenon DEF ExportedOK
  <2>2. ASSUME NEW k \in Keys, ~Emitting(k) => Agrees(Final(loc[s].log, k, Base[k]), mem[k], clock)
        PROVE  ~Emitting(k)' => Agrees(Final(loc[s].log, k, Base[k]), mem'[k], clock')
    <3>1. Final(loc[s].log, k, Base[k]) \in Entry
      BY LogTypes, FinalFacts, Zenon DEF DataInv
    <3> QED BY <1>1, <2>2, <3>1, Zenon
  <2> QED BY <1>2, <2>0, <2>1, <2>2, Zenon DEF SaverOK
<1> QED BY <1>3, <1>4, <1>5, <1>6, Zenon

\* The lines of clients other than c.
EmitsBut(c, k) == \E d \in Clients \ {c} : pc[d] = "emit" /\ loc[d].line.key = k

BusyBut(c, k) == \E d \in Clients \ {c} : pc[d] \in {"emit", "sync"} /\ loc[d].line.key = k

\* Thread t moves on to step a with the local variables l.
Moves(t, a, l) == pc' = [pc EXCEPT ![t] = a] /\ loc' = [loc EXCEPT ![t] = l]

\* A client moves from one step to the next; l is its new line.
LEMMA ClientMoves ==
  ASSUME TypeInv, NEW c \in Clients, NEW a, NEW l, Moves(c, a, l)
  PROVE  /\ pc'[c] = a /\ loc'[c] = l
         /\ \A t \in Threads : t # c => pc'[t] = pc[t] /\ loc'[t] = loc[t]
         /\ \A s \in Savers : pc'[s] = pc[s] /\ loc'[s] = loc[s]
         /\ \A k : Emitting(k)' <=> \/ a = "emit" /\ l.line.key = k
                                    \/ EmitsBut(c, k)
         /\ \A k : Busy(k)' <=> \/ a \in {"emit", "sync"} /\ l.line.key = k
                                \/ BusyBut(c, k)
<1>1. pc'[c] = a /\ loc'[c] = l /\ \A t \in Threads : t # c => pc'[t] = pc[t] /\ loc'[t] = loc[t]
  BY LogTypes, Zenon DEF Moves
<1>2. \A s \in Savers : pc'[s] = pc[s] /\ loc'[s] = loc[s]
  BY <1>1, LogTypes, Zenon
<1>3. \A d \in Clients \ {c} : pc'[d] = pc[d] /\ loc'[d] = loc[d]
  BY <1>1, LogTypes, Zenon
<1>4. ASSUME NEW k PROVE Emitting(k)' <=> \/ a = "emit" /\ l.line.key = k
                                          \/ EmitsBut(c, k)
  BY <1>1, <1>3, Zenon DEF Emitting, EmitsBut
<1>5. ASSUME NEW k PROVE Busy(k)' <=> \/ a \in {"emit", "sync"} /\ l.line.key = k
                                      \/ BusyBut(c, k)
  BY <1>1, <1>3, Zenon DEF Busy, BusyBut
<1> QED BY <1>1, <1>2, <1>4, <1>5, Zenon

\* The end of an operation.
LEMMA GoneIdle ==
  ASSUME TypeInv, NEW c \in Clients, Moves(c, "idle", NoLoc)
  PROVE  /\ pc'[c] = "idle" /\ loc'[c] = NoLoc
         /\ \A t \in Threads : t # c => pc'[t] = pc[t] /\ loc'[t] = loc[t]
         /\ \A s \in Savers : pc'[s] = pc[s] /\ loc'[s] = loc[s]
         /\ \A k : Emitting(k)' <=> EmitsBut(c, k)
         /\ \A k : Busy(k)' <=> BusyBut(c, k)
BY ClientMoves

\* A change of the DB: its line is on the way.
LEMMA LogPuts ==
  ASSUME SingleWriters, TypeInv, DataInv, LogInv, NEW c \in Clients, NEW k \in Keys,
         NEW e \in Entry, NEW line \in DataLine, Puts(c, k, e, line)
  PROVE  LogInv'
<1> SUFFICES ASSUME Healthy'
             PROVE  /\ OpenOK'
                    /\ \A d \in Clients : EmitOK(d)'
                    /\ \A j \in Keys : AofOK(j)'
                    /\ \A s \in Savers : SaverOK(s)'
  BY Zenon DEF LogInv
<1> DEFINE l == [NoLoc EXCEPT !.line = line]
<1>0. /\ HasAOF /\ Healthy /\ UNCHANGED <<cfg, snap, aof, aofOpen, catchingUp, catchup, clock>>
      /\ pc[c] = "idle" /\ c \in Work[cfg].writers[k] /\ line.key = k /\ EntryOf(line) = e
      /\ mem' = [mem EXCEPT ![k] = e]
  BY Zenon DEF Puts, At, files, engine, Healthy, HasAOF
<1>1. OpenOK /\ (\A d \in Clients : EmitOK(d)) /\ (\A j \in Keys : AofOK(j)) /\ \A s \in Savers : SaverOK(s)
  BY <1>0, Zenon DEF LogInv
<1>2. Moves(c, "emit", l)
  BY <1>0, Zenon DEF Puts, Emits, Goto, Moves
<1>3. l.line = line
  BY Zenon DEF NoLoc
<1> HIDE DEF l
<1>4. /\ pc'[c] = "emit" /\ loc'[c].line = line
      /\ \A d \in Clients : d # c => pc'[d] = pc[d] /\ loc'[d] = loc[d]
      /\ \A s \in Savers : pc'[s] = pc[s] /\ loc'[s] = loc[s]
      /\ Emitting(k)' /\ Busy(k)'
      /\ \A j : j # k => (Emitting(j)' <=> Emitting(j)) /\ (Busy(j)' <=> Busy(j))
  <2>1. /\ pc'[c] = "emit" /\ loc'[c] = l
        /\ \A t \in Threads : t # c => pc'[t] = pc[t] /\ loc'[t] = loc[t]
        /\ \A s \in Savers : pc'[s] = pc[s] /\ loc'[s] = loc[s]
        /\ \A j : Emitting(j)' <=> \/ l.line.key = j
                                   \/ EmitsBut(c, j)
        /\ \A j : Busy(j)' <=> \/ l.line.key = j
                               \/ BusyBut(c, j)
    BY <1>2, ClientMoves
  <2>2. ASSUME NEW j, j # k PROVE (Emitting(j)' <=> Emitting(j)) /\ (Busy(j)' <=> Busy(j))
    <3>1. Emitting(j) <=> EmitsBut(c, j)
      BY <1>0, Zenon DEF Emitting, EmitsBut
    <3>2. Busy(j) <=> BusyBut(c, j)
      BY <1>0, Zenon DEF Busy, BusyBut
    <3> QED BY <1>0, <1>3, <2>1, <2>2, <3>1, <3>2, Zenon
  <2> QED BY <1>0, <1>3, <2>1, <2>2, LogTypes, Zenon
<1>5. \A j \in Keys : j # k => mem'[j] = mem[j]
  BY <1>0, LogTypes, Zenon
<1>6. mem'[k] = e
  BY <1>0, LogTypes, Zenon
<1>7. Base' = Base
  BY <1>0, Zenon DEF Base
<1>8. OpenOK'
  BY <1>0, <1>1, <1>4, Zenon DEF OpenOK
<1>9. ASSUME NEW d \in Clients PROVE EmitOK(d)'
  <2>1. CASE d = c
    <3>1. Agrees(e, e, clock)
      BY AgreesFacts, Zenon
    <3> QED BY <1>0, <1>4, <1>6, <2>1, <3>1, Zenon DEF EmitOK
  <2>2. CASE d # c
    <3>1. pc'[d] = pc[d] /\ loc'[d] = loc[d] /\ EmitOK(d)
      BY <1>1, <1>4, <2>2, Zenon
    <3>2. SUFFICES ASSUME pc[d] \in {"emit", "sync"} PROVE EmitOK(d)'
      BY <3>1, Zenon DEF EmitOK
    <3>3. loc[d].line.key \in Keys /\ d \in Work[cfg].writers[loc[d].line.key]
      BY <3>2, Zenon DEF DataInv, DataLine
    <3>4. loc[d].line.key # k
      BY <1>0, <2>2, <3>3, LogTypes, Zenon DEF SingleWriters
    <3>5. mem'[loc[d].line.key] = mem[loc[d].line.key]
      BY <1>5, <3>3, <3>4, Zenon
    <3> QED BY <1>0, <3>1, <3>5, Zenon DEF EmitOK
  <2> QED BY <2>1, <2>2, Zenon
<1>10. ASSUME NEW j \in Keys PROVE AofOK(j)'
  <2>1. CASE j = k
    BY <1>4, <2>1, Zenon DEF AofOK
  <2>2. CASE j # k
    BY <1>0, <1>1, <1>4, <1>5, <1>7, <2>2, Zenon DEF AofOK
  <2> QED BY <2>1, <2>2, Zenon
<1>11. ASSUME NEW s \in Savers PROVE SaverOK(s)'
  <2>0. SaverOK(s) /\ pc'[s] = pc[s] /\ loc'[s] = loc[s]
    BY <1>1, <1>4, Zenon
  <2>1. ASSUME NEW j \in Keys, ExportedOK(s, j) PROVE ExportedOK(s, j)'
    <3>1. CASE j = k
      BY <1>0, <1>4, <2>0, <2>1, <3>1, Zenon DEF ExportedOK
    <3>2. CASE j # k
      BY <1>0, <1>4, <1>5, <2>0, <2>1, <3>2, Zenon DEF ExportedOK
    <3> QED BY <3>1, <3>2, Zenon
  <2>2. ASSUME NEW j \in Keys, ~Emitting(j) => Agrees(Final(loc[s].log, j, Base[j]), mem[j], clock)
        PROVE  ~Emitting(j)' => Agrees(Final(loc[s].log, j, Base[j]), mem'[j], clock)
    BY <1>4, <1>5, <2>2, Zenon
  <2> QED BY <1>0, <1>7, <2>0, <2>1, <2>2, Zenon DEF SaverOK
<1> QED BY <1>8, <1>9, <1>10, <1>11, Zenon

\* The line reaches the log, and the catchup buffer unless an fsync comes first.
LEMMA LogAppend ==
  ASSUME Replays, TypeInv, GateInv, DataInv, LogInv, NEW c \in Clients, appendAOF(c)
  PROVE  LogInv'
<1> SUFFICES ASSUME Healthy'
             PROVE  /\ OpenOK'
                    /\ \A d \in Clients : EmitOK(d)'
                    /\ \A j \in Keys : AofOK(j)'
                    /\ \A s \in Savers : SaverOK(s)'
  BY Zenon DEF LogInv
<1>0. /\ Healthy /\ UNCHANGED <<cfg, snap, aofOpen, catchingUp, clock, mem>>
      /\ pc[c] = "emit" /\ mu = Nil
  BY Zenon DEF appendAOF, At, store, Healthy, HasAOF
<1>1. OpenOK /\ (\A d \in Clients : EmitOK(d)) /\ (\A j \in Keys : AofOK(j)) /\ \A s \in Savers : SaverOK(s)
  BY <1>0, Zenon DEF LogInv
<1>2. \A t \in Threads : pc[t] \notin {"sync", "rename", "reopen"}
  BY <1>0, Constants, Zenon DEF GateInv, MuLabels
<1>3. loc[c].line \in DataLine /\ aof \in Seq(DataLine) /\ catchup \in Seq(DataLine)
  BY <1>0, Zenon DEF DataInv
<1> PICK line \in DataLine : line = loc[c].line
  BY <1>3, Zenon
<1> PICK k \in Keys : k = line.key
  BY Zenon DEF DataLine
<1>4. aofOpen
  BY <1>1, <1>2, LogTypes, Zenon DEF OpenOK
<1>5. aof' = Append(aof, line)
  BY <1>4, Zenon DEF appendAOF
<1>6. Agrees(EntryOf(line), mem[k], clock)
  BY <1>0, <1>1, Zenon DEF EmitOK
<1> DEFINE a == IF cfg.fsync = "always" THEN "sync" ELSE "idle"
           l == IF cfg.fsync = "always" THEN loc[c] ELSE NoLoc
<1>7. /\ Moves(c, a, l)
      /\ a = "sync" => l = loc[c] /\ catchup' = catchup
      /\ a = "idle" => catchup' = DualWrite(line)
      /\ a \in {"idle", "sync"}
  <2>1. CASE cfg.fsync = "always"
    <3>1. pc' = [pc EXCEPT ![c] = "sync"] /\ loc' = loc /\ catchup' = catchup
      BY <1>4, <2>1, Zenon DEF appendAOF, Goto
    <3>2. loc' = [loc EXCEPT ![c] = loc[c]]
      BY <3>1, LogTypes, Zenon
    <3> QED BY <2>1, <3>1, <3>2, Zenon DEF Moves
  <2>2. CASE cfg.fsync # "always"
    <3>1. pc' = [pc EXCEPT ![c] = "idle"] /\ loc' = [loc EXCEPT ![c] = NoLoc] /\ catchup' = DualWrite(line)
      BY <2>2, Zenon DEF appendAOF, Return, Goto
    <3> QED BY <2>2, <3>1, Zenon DEF Moves
  <2> QED BY <2>1, <2>2, Zenon
<1> HIDE DEF a, l
<1>8. /\ pc'[c] = a /\ loc'[c] = l
      /\ \A d \in Clients : d # c => pc'[d] = pc[d] /\ loc'[d] = loc[d]
      /\ \A s \in Savers : pc'[s] = pc[s] /\ loc'[s] = loc[s]
      /\ \A j : j # k => (Emitting(j)' <=> Emitting(j)) /\ (Busy(j)' <=> Busy(j))
      /\ a = "sync" => Busy(k)'
  <2>1. /\ pc'[c] = a /\ loc'[c] = l
        /\ \A t \in Threads : t # c => pc'[t] = pc[t] /\ loc'[t] = loc[t]
        /\ \A s \in Savers : pc'[s] = pc[s] /\ loc'[s] = loc[s]
        /\ \A j : Emitting(j)' <=> \/ a = "emit" /\ l.line.key = j
                                   \/ EmitsBut(c, j)
        /\ \A j : Busy(j)' <=> \/ a \in {"emit", "sync"} /\ l.line.key = j
                               \/ BusyBut(c, j)
    BY <1>7, ClientMoves
  <2>2. ASSUME NEW j, j # k PROVE (Emitting(j)' <=> Emitting(j)) /\ (Busy(j)' <=> Busy(j))
    <3>1. Emitting(j) <=> EmitsBut(c, j)
      BY <2>2, Zenon DEF Emitting, EmitsBut
    <3>2. Busy(j) <=> BusyBut(c, j)
      BY <2>2, Zenon DEF Busy, BusyBut
    <3>3. ~(a \in {"emit", "sync"} /\ l.line.key = j) /\ ~(a = "emit" /\ l.line.key = j)
      BY <1>7, <2>2, Zenon
    <3> QED BY <2>1, <3>1, <3>2, <3>3, Zenon
  <2>3. a = "sync" => Busy(k)'
    BY <1>7, <2>1, Zenon
  <2> QED BY <2>1, <2>2, <2>3, LogTypes, Zenon
<1>9. ASSUME NEW j \in Keys
      PROVE  /\ j = k => \A b : Final(aof', j, b) = EntryOf(line)
             /\ j # k => \A b : Final(aof', j, b) = Final(aof, j, b)
             /\ On(aof', j) # {} <=> (On(aof, j) # {} \/ j = k)
  <2>1. Appended(aof, line, j)
    BY <1>3, DataAppend, Zenon
  <2> QED BY <1>5, <2>1, Zenon DEF Appended
<1>10. Base' = Base
  BY <1>0, Zenon DEF Base
<1>11. OpenOK'
  BY <1>0, <1>4, Zenon DEF OpenOK
<1>12. ASSUME NEW d \in Clients PROVE EmitOK(d)'
  <2>1. CASE d = c
    <3>1. a = "sync" => loc'[d].line = line
      BY <1>7, <1>8, <2>1, Zenon
    <3> QED BY <1>0, <1>6, <1>7, <1>8, <1>9, <2>1, <3>1, Zenon DEF EmitOK
  <2>2. CASE d # c
    <3>1. pc'[d] = pc[d] /\ loc'[d] = loc[d] /\ EmitOK(d) /\ pc[d] # "sync"
      BY <1>1, <1>2, <1>8, <2>2, LogTypes, Zenon
    <3> QED BY <1>0, <3>1, Zenon DEF EmitOK
  <2> QED BY <2>1, <2>2, Zenon
<1>13. ASSUME NEW j \in Keys PROVE AofOK(j)'
  <2>1. CASE j = k
    <3>1. Final(aof', j, Base'[j]) = EntryOf(line)
      BY <1>9, <2>1, Zenon
    <3> QED BY <1>0, <1>6, <2>1, <3>1, Zenon DEF AofOK
  <2>2. CASE j # k
    <3>1. Final(aof', j, Base'[j]) = Final(aof, j, Base[j])
      BY <1>9, <1>10, <2>2, Zenon
    <3> QED BY <1>0, <1>1, <1>8, <2>2, <3>1, Zenon DEF AofOK
  <2> QED BY <2>1, <2>2, Zenon
<1>14. ASSUME NEW s \in Savers PROVE SaverOK(s)'
  <2>0. SaverOK(s) /\ pc'[s] = pc[s] /\ loc'[s] = loc[s] /\ pc[s] # "rename"
    BY <1>1, <1>2, <1>8, LogTypes, Zenon
  <2>1. ASSUME NEW j \in Keys, ExportedOK(s, j), catchingUp PROVE ExportedOK(s, j)'
    <3>1. CASE a = "sync"
      <4>1. CASE j = k
        <5>1. Busy(j)' /\ loc'[s] = loc[s]
          BY <1>8, <2>0, <3>1, <4>1, Zenon
        <5>2. On(aof', j) # {}
          BY <1>9, <4>1, Zenon
        <5> QED BY <2>1, <5>1, <5>2, Zenon DEF ExportedOK
      <4>2. CASE j # k
        BY <1>0, <1>7, <1>8, <1>9, <2>0, <2>1, <3>1, <4>2, Zenon DEF ExportedOK
      <4> QED BY <4>1, <4>2, Zenon
    <3>2. CASE a = "idle"
      <4>0. catchup' = Append(catchup, line)
        BY <1>7, <2>1, <3>2, Zenon DEF DualWrite
      <4>1. /\ j = k => \A b : Final(catchup', j, b) = EntryOf(line)
            /\ j # k => \A b : Final(catchup', j, b) = Final(catchup, j, b)
            /\ On(catchup', j) # {} <=> (On(catchup, j) # {} \/ j = k)
        <5>1. Appended(catchup, line, j)
          BY <1>3, DataAppend, Zenon
        <5> QED BY <4>0, <5>1, Zenon DEF Appended
      <4>2. CASE j = k
        <5>1. Final(catchup', j, loc'[s].image[j]) = EntryOf(line) /\ On(aof', j) # {}
          BY <1>9, <4>1, <4>2, Zenon
        <5>2. Agrees(Final(catchup', j, loc'[s].image[j]), mem'[j], clock')
          BY <1>0, <1>6, <4>2, <5>1, Zenon
        <5> QED BY <2>0, <2>1, <5>1, <5>2, Zenon DEF ExportedOK
      <4>3. CASE j # k
        <5>1. Final(catchup', j, loc'[s].image[j]) = Final(catchup, j, loc[s].image[j])
          BY <2>0, <4>1, <4>3, Zenon
        <5>2. (On(catchup', j) # {} <=> On(catchup, j) # {}) /\ (On(aof', j) # {} <=> On(aof, j) # {})
          BY <1>9, <4>1, <4>3, Zenon
        <5> QED BY <1>0, <1>8, <2>0, <2>1, <4>3, <5>1, <5>2, Zenon DEF ExportedOK
      <4> QED BY <4>2, <4>3, Zenon
    <3> QED BY <1>7, <3>1, <3>2, Zenon
  <2> QED BY <1>0, <2>0, <2>1, Zenon DEF SaverOK
<1> QED BY <1>11, <1>12, <1>13, <1>14, Zenon

\* The fsync is done: the line reaches the catchup buffer.
LEMMA LogSync ==
  ASSUME Replays, TypeInv, GateInv, DataInv, LogInv, NEW c \in Clients, appendSync(c)
  PROVE  LogInv'
<1> SUFFICES ASSUME Healthy'
             PROVE  /\ OpenOK'
                    /\ \A d \in Clients : EmitOK(d)'
                    /\ \A j \in Keys : AofOK(j)'
                    /\ \A s \in Savers : SaverOK(s)'
  BY Zenon DEF LogInv
<1>0. /\ Healthy /\ UNCHANGED <<cfg, snap, aof, aofOpen, catchingUp, clock, mem>>
      /\ pc[c] = "sync" /\ catchup' = DualWrite(loc[c].line) /\ Moves(c, "idle", NoLoc)
  BY Zenon DEF appendSync, At, store, Healthy, HasAOF, Return, Goto, Moves
<1>1. OpenOK /\ (\A d \in Clients : EmitOK(d)) /\ (\A j \in Keys : AofOK(j)) /\ \A s \in Savers : SaverOK(s)
  BY <1>0, Zenon DEF LogInv
<1>2. mu = c /\ \A t \in Threads : t # c => pc[t] \notin {"sync", "rename", "reopen"}
  BY <1>0, LogTypes, Zenon DEF GateInv, MuLabels
<1>3. loc[c].line \in DataLine /\ catchup \in Seq(DataLine)
  BY <1>0, Zenon DEF DataInv
<1> PICK line \in DataLine : line = loc[c].line
  BY <1>3, Zenon
<1> PICK k \in Keys : k = line.key
  BY Zenon DEF DataLine
<1>4. Agrees(EntryOf(line), mem[k], clock) /\ On(aof, k) # {}
  BY <1>0, <1>1, Zenon DEF EmitOK
<1>5. /\ pc'[c] = "idle"
      /\ \A d \in Clients : d # c => pc'[d] = pc[d] /\ loc'[d] = loc[d]
      /\ \A s \in Savers : pc'[s] = pc[s] /\ loc'[s] = loc[s]
      /\ \A j : Emitting(j)' <=> Emitting(j)
      /\ \A j : j # k => (Busy(j)' <=> Busy(j))
  <2>1. /\ pc'[c] = "idle" /\ loc'[c] = NoLoc
        /\ \A t \in Threads : t # c => pc'[t] = pc[t] /\ loc'[t] = loc[t]
        /\ \A s \in Savers : pc'[s] = pc[s] /\ loc'[s] = loc[s]
        /\ \A j : Emitting(j)' <=> EmitsBut(c, j)
        /\ \A j : Busy(j)' <=> BusyBut(c, j)
    BY <1>0, GoneIdle, Zenon
  <2>2. \A j : Emitting(j) <=> EmitsBut(c, j)
    BY <1>0, Zenon DEF Emitting, EmitsBut
  <2>3. \A j : j # k => (Busy(j) <=> BusyBut(c, j))
    BY Zenon DEF Busy, BusyBut
  <2> QED BY <2>1, <2>2, <2>3, LogTypes, Zenon
<1>6. Base' = Base
  BY <1>0, Zenon DEF Base
<1>7. OpenOK'
  BY <1>0, <1>1, <1>5, Zenon DEF OpenOK
<1>8. ASSUME NEW d \in Clients PROVE EmitOK(d)'
  <2>1. CASE d = c
    BY <1>5, <2>1, Zenon DEF EmitOK
  <2>2. CASE d # c
    <3>1. pc'[d] = pc[d] /\ loc'[d] = loc[d] /\ EmitOK(d)
      BY <1>1, <1>5, <2>2, Zenon
    <3> QED BY <1>0, <3>1, Zenon DEF EmitOK
  <2> QED BY <2>1, <2>2, Zenon
<1>9. ASSUME NEW j \in Keys PROVE AofOK(j)'
  BY <1>0, <1>1, <1>5, <1>6, Zenon DEF AofOK
<1>10. ASSUME NEW s \in Savers PROVE SaverOK(s)'
  <2>0. SaverOK(s) /\ pc'[s] = pc[s] /\ loc'[s] = loc[s] /\ pc[s] # "rename"
    BY <1>1, <1>2, <1>5, LogTypes, Zenon
  <2>1. ASSUME NEW j \in Keys, ExportedOK(s, j), catchingUp PROVE ExportedOK(s, j)'
    <3>0. catchup' = Append(catchup, line)
      BY <1>0, <2>1, Zenon DEF DualWrite
    <3>1. /\ j = k => \A b : Final(catchup', j, b) = EntryOf(line)
          /\ j # k => \A b : Final(catchup', j, b) = Final(catchup, j, b)
          /\ On(catchup', j) # {} <=> (On(catchup, j) # {} \/ j = k)
      <4>1. Appended(catchup, line, j)
        BY <1>3, DataAppend, Zenon
      <4> QED BY <3>0, <4>1, Zenon DEF Appended
    <3>2. CASE j = k
      <4>1. Final(catchup', j, loc'[s].image[j]) = EntryOf(line) /\ On(aof', j) # {}
        BY <1>0, <1>4, <3>1, <3>2, Zenon
      <4>2. Agrees(Final(catchup', j, loc'[s].image[j]), mem'[j], clock')
        BY <1>0, <1>4, <3>2, <4>1, Zenon
      <4> QED BY <2>0, <2>1, <4>1, <4>2, Zenon DEF ExportedOK
    <3>3. CASE j # k
      <4>1. Final(catchup', j, loc'[s].image[j]) = Final(catchup, j, loc[s].image[j])
        BY <2>0, <3>1, <3>3, Zenon
      <4>2. On(catchup', j) # {} <=> On(catchup, j) # {}
        BY <3>1, <3>3, Zenon
      <4> QED BY <1>0, <1>5, <2>0, <2>1, <3>3, <4>1, <4>2, Zenon DEF ExportedOK
    <3> QED BY <3>2, <3>3, Zenon
  <2> QED BY <1>0, <2>0, <2>1, Zenon DEF SaverOK
<1> QED BY <1>7, <1>8, <1>9, <1>10, Zenon

\* A saver moves: the clients and their lines stay, the other savers are idle.
LEMMA SaverMoves ==
  ASSUME TypeInv, GateInv, NEW s \in Savers, NEW a, NEW l, Moves(s, a, l),
         pc[s] # "idle" \/ ~saving
  PROVE  /\ pc'[s] = a /\ loc'[s] = l
         /\ \A c \in Clients : pc'[c] = pc[c] /\ loc'[c] = loc[c]
         /\ \A u \in Savers : u # s => pc'[u] = "idle" /\ pc[u] = "idle"
         /\ \A k : (Emitting(k)' <=> Emitting(k)) /\ (Busy(k)' <=> Busy(k))
<1>1. pc'[s] = a /\ loc'[s] = l /\ \A t \in Threads : t # s => pc'[t] = pc[t] /\ loc'[t] = loc[t]
  BY LogTypes, Zenon DEF Moves
<1>2. \A c \in Clients : pc'[c] = pc[c] /\ loc'[c] = loc[c]
  BY <1>1, LogTypes, Zenon
<1>3. \A u \in Savers : u # s => pc'[u] = pc[u] /\ pc[u] = "idle"
  BY <1>1, LogTypes, Zenon DEF GateInv
<1>4. \A k : (Emitting(k)' <=> Emitting(k)) /\ (Busy(k)' <=> Busy(k))
  BY <1>2, Zenon DEF Emitting, Busy
<1> QED BY <1>1, <1>2, <1>3, <1>4, Zenon

\* What is left to show of the step of a saver.
LEMMA SaverLog ==
  ASSUME TypeInv, GateInv, LogInv, NEW s \in Savers, NEW a, NEW l, Moves(s, a, l),
         pc[s] # "idle" \/ ~saving, UNCHANGED <<cfg, mem, clock>>, aof' = aof \/ mu = s,
         Healthy' => Healthy,
         Healthy => aofOpen' \/ a \in {"rename", "reopen"},
         Healthy => \A k \in Keys : AofOK(k)',
         Healthy => SaverOK(s)'
  PROVE  LogInv'
<1> SUFFICES ASSUME Healthy'
             PROVE  /\ OpenOK'
                    /\ \A c \in Clients : EmitOK(c)'
                    /\ \A u \in Savers : SaverOK(u)'
  BY Zenon DEF LogInv
<1>1. /\ pc'[s] = a /\ loc'[s] = l
      /\ \A c \in Clients : pc'[c] = pc[c] /\ loc'[c] = loc[c]
      /\ \A u \in Savers : u # s => pc'[u] = "idle"
  BY SaverMoves, Zenon
<1>2. OpenOK'
  BY <1>1, Zenon DEF OpenOK
<1>3. ASSUME NEW c \in Clients PROVE EmitOK(c)'
  <2>1. mu = s => pc[c] # "sync"
    BY LogTypes, Zenon DEF GateInv, MuLabels
  <2>2. EmitOK(c) /\ pc'[c] = pc[c] /\ loc'[c] = loc[c]
    BY <1>1, Zenon DEF LogInv
  <2> QED BY <2>1, <2>2, Zenon DEF EmitOK
<1>4. ASSUME NEW u \in Savers PROVE SaverOK(u)'
  <2>1. CASE u = s
    BY <2>1, Zenon
  <2>2. CASE u # s
    BY <1>1, <2>2, Zenon DEF SaverOK
  <2> QED BY <2>1, <2>2, Zenon
<1> QED BY <1>2, <1>3, <1>4, Zenon

\* A save begins: nothing is exported, nothing is buffered.
LEMMA LogBegin ==
  ASSUME TypeInv, GateInv, DataInv, LogInv, NEW s \in Savers, SaveSnapshot(s)
  PROVE  LogInv'
<1> DEFINE l == [NoLoc EXCEPT !.now = clock]
<1>0. /\ UNCHANGED <<cfg, mem, snap, aof, aofOpen, status, clock>> /\ catchup' = <<>>
      /\ catchingUp' = HasAOF /\ left'.failures = left.failures /\ ~saving /\ pc[s] = "idle"
  BY LogTypes, Zenon DEF SaveSnapshot, SaveGate, At, files, LeftType
<1>1. Moves(s, "export", l)
  BY Zenon DEF SaveSnapshot, Goto, Moves
<1>2. l.image = NoData /\ l.cursor = 0
  BY Zenon DEF NoLoc
<1> HIDE DEF l
<1>3. Healthy' <=> Healthy
  BY <1>0, Zenon DEF Healthy, HasAOF
<1> SUFFICES ASSUME Healthy PROVE aofOpen' /\ (\A k \in Keys : AofOK(k)') /\ SaverOK(s)'
  BY <1>0, <1>1, <1>3, SaverLog, Zenon
<1>4. /\ pc'[s] = "export" /\ loc'[s] = l
      /\ \A k : (Emitting(k)' <=> Emitting(k)) /\ (Busy(k)' <=> Busy(k))
  BY <1>0, <1>1, SaverMoves, Zenon
<1>5. Base' = Base
  BY <1>0, Zenon DEF Base
<1>6. aofOpen'
  <2>1. \A u \in Savers : pc[u] = "idle"
    BY <1>0, Zenon DEF GateInv
  <2> QED BY <1>0, <2>1, Zenon DEF LogInv, OpenOK
<1>7. ASSUME NEW k \in Keys PROVE AofOK(k)'
  <2>1. AofOK(k)
    BY Zenon DEF LogInv
  <2> QED BY <1>0, <1>4, <1>5, <2>1, Zenon DEF AofOK
<1>8. ASSUME NEW k \in Keys PROVE ExportedOK(s, k)'
  <2>1. On(<<>>, k) = {}
    BY DEF On
  <2>2. ~(ShardOf[k] < 0) /\ NoData[k] = None
    BY LogTypes DEF NoData
  <2> QED BY <1>0, <1>2, <1>4, <2>1, <2>2, Zenon DEF ExportedOK
<1>9. SaverOK(s)'
  BY <1>0, <1>4, <1>8, Zenon DEF SaverOK, Healthy
<1> QED BY <1>6, <1>7, <1>9, Zenon

\* One shard more is exported.
LEMMA LogExport ==
  ASSUME Replays, TypeInv, GateInv, SnapInv, DataInv, LogInv, NEW s \in Savers, ExportAll(s)
  PROVE  LogInv'
<1> DEFINE cur == loc[s].cursor
           image == [k \in Keys |-> IF ShardOf[k] = cur /\ Live(mem[k], loc[s].now) THEN mem[k]
                                    ELSE loc[s].image[k]]
           l == [loc[s] EXCEPT !.cursor = cur + 1, !.image = image]
<1>0. /\ UNCHANGED <<cfg, mem, snap, aof, aofOpen, catchingUp, catchup, status, clock, left, pc>>
      /\ pc[s] = "export" /\ loc[s] \in LocType
      /\ loc' = [loc EXCEPT ![s].cursor = @ + 1, ![s].image = image]
  BY LogTypes, Zenon DEF ExportAll, At, files, engine, store
<1>1. loc' = [loc EXCEPT ![s] = l]
  <2> HIDE DEF image
  <2> QED BY <1>0, LogTypes, Zenon DEF LocType
<1>2. Moves(s, "export", l)
  BY <1>0, <1>1, LogTypes, Zenon DEF Moves
<1>3. l.image = image /\ l.cursor = cur + 1
  BY <1>0, Zenon DEF LocType
<1> HIDE DEF l
<1>4. Healthy' <=> Healthy
  BY <1>0, Zenon DEF Healthy, HasAOF
<1>5. ASSUME Healthy PROVE aofOpen
  <2>1. \A u \in Savers : pc[u] \notin {"rename", "reopen"}
    BY <1>0, Zenon DEF GateInv
  <2> QED BY <1>5, <2>1, Zenon DEF LogInv, OpenOK
<1> SUFFICES ASSUME Healthy PROVE (\A k \in Keys : AofOK(k)') /\ SaverOK(s)'
  BY <1>0, <1>2, <1>4, <1>5, SaverLog, Zenon
<1>6. /\ pc'[s] = "export" /\ loc'[s] = l
      /\ \A k : (Emitting(k)' <=> Emitting(k)) /\ (Busy(k)' <=> Busy(k))
  BY <1>0, <1>2, SaverMoves, Zenon
<1>7. Base' = Base
  BY <1>0, Zenon DEF Base
<1>8. ASSUME NEW k \in Keys PROVE AofOK(k)'
  <2>1. AofOK(k)
    BY Zenon DEF LogInv
  <2> QED BY <1>0, <1>6, <1>7, <2>1, Zenon DEF AofOK
<1>9. SaverOK(s) /\ loc[s].now <= clock /\ loc[s].now \in Nat /\ cur \in Nat
  BY <1>0, LogTypes, Zenon DEF LogInv, SnapInv, ImageOK
<1>10. ASSUME NEW k \in Keys PROVE ExportedOK(s, k)'
  <2>0. ShardOf[k] \in Int /\ mem[k] \in Entry /\ loc[s].image[k] \in Entry
    BY LogTypes
  <2>1. ExportedOK(s, k)
    BY <1>0, <1>9, Zenon DEF SaverOK
  <2>2. image[k] = IF ShardOf[k] = cur /\ Live(mem[k], loc[s].now) THEN mem[k] ELSE loc[s].image[k]
    BY Zenon
  <2> HIDE DEF image
  <2>3. ShardOf[k] >= cur + 1 => image[k] = None
    <3>1. ShardOf[k] >= cur + 1 => ShardOf[k] # cur /\ ShardOf[k] >= cur
      BY <1>9, <2>0, PastCursor, Zenon
    <3> QED BY <2>1, <2>2, <3>1, Zenon DEF ExportedOK
  <2>4. ASSUME ShardOf[k] < cur + 1 \/ On(catchup, k) # {}, ~Busy(k)
        PROVE  Agrees(Final(catchup, k, image[k]), mem[k], clock)
    <3>1. CASE On(catchup, k) # {}
      <4>1. Final(catchup, k, image[k]) = Final(catchup, k, loc[s].image[k])
        BY <3>1, FinalFacts DEF DataInv
      <4> QED BY <2>1, <2>4, <3>1, <4>1, Zenon DEF ExportedOK
    <3>2. CASE On(catchup, k) = {}
      <4>1. Final(catchup, k, image[k]) = image[k] /\ Final(catchup, k, loc[s].image[k]) = loc[s].image[k]
        BY <3>2, Zenon DEF Final
      <4>2. CASE ShardOf[k] # cur
        <5>1. ShardOf[k] < cur /\ image[k] = loc[s].image[k]
          BY <1>9, <2>0, <2>2, <2>4, <3>2, <4>2
        <5> QED BY <2>1, <2>4, <4>1, <5>1, Zenon DEF ExportedOK
      <4>3. CASE ShardOf[k] = cur
        <5>1. loc[s].image[k] = None
          BY <1>9, <2>1, <4>3 DEF ExportedOK
        <5>2. Live(mem[k], clock) => Live(mem[k], loc[s].now)
          BY <1>9, <2>0, LiveBefore, LogTypes, Zenon
        <5>3. image[k] = IF Live(mem[k], loc[s].now) THEN mem[k] ELSE None
          BY <2>2, <4>3, <5>1, Zenon
        <5>4. ~Live(None, clock)
          BY Zenon DEF Live
        <5> QED BY <4>1, <5>2, <5>3, <5>4, Zenon DEF Agrees
      <4> QED BY <4>2, <4>3, Zenon
    <3> QED BY <3>1, <3>2, Zenon
  <2>5. On(catchup, k) # {} => On(aof, k) # {}
    BY <2>1, Zenon DEF ExportedOK
  <2> HIDE DEF cur
  <2> QED BY <1>0, <1>3, <1>6, <2>3, <2>4, <2>5, Zenon DEF ExportedOK
<1>11. catchingUp
  BY <1>0, <1>9, Zenon DEF SaverOK
<1>12. SaverOK(s)'
  BY <1>0, <1>6, <1>10, <1>11, Zenon DEF SaverOK
<1> QED BY <1>8, <1>12, Zenon

\* The snapshot is renamed into place while the log still has its old lines.
LEMMA LogSnapshot ==
  ASSUME Replays, TypeInv, GateInv, SnapInv, DataInv, LogInv, NEW s \in Savers, WriteSnapshot(s)
  PROVE  LogInv'
<1>0. /\ UNCHANGED <<cfg, mem, aof, aofOpen, catchingUp, catchup, status, clock, left>>
      /\ pc[s] = "export" /\ loc[s].cursor = ShardCount /\ snap' = loc[s].image /\ cfg.mode # "aof"
  BY Zenon DEF WriteSnapshot, Exported, At
<1>1. Healthy' <=> Healthy
  BY <1>0, Zenon DEF Healthy, HasAOF
<1> SUFFICES ASSUME Healthy PROVE LogInv'
  BY <1>1, Zenon DEF LogInv
<1>2. Moves(s, "install", loc[s])
  <2>1. cfg.mode # "snapshot"
    BY Zenon DEF Healthy, HasAOF
  <2>2. pc' = [pc EXCEPT ![s] = "install"] /\ loc' = loc
    BY <2>1, Zenon DEF WriteSnapshot, Goto
  <2> QED BY <2>2, LogTypes, Zenon DEF Moves
<1>3. aofOpen
  <2>1. \A u \in Savers : pc[u] \notin {"rename", "reopen"}
    BY <1>0, Zenon DEF GateInv
  <2> QED BY <2>1, Zenon DEF LogInv, OpenOK
<1> SUFFICES (\A k \in Keys : AofOK(k)') /\ SaverOK(s)'
  BY <1>0, <1>1, <1>2, <1>3, SaverLog, Zenon
<1>4. /\ pc'[s] = "install" /\ loc'[s] = loc[s]
      /\ \A k : (Emitting(k)' <=> Emitting(k)) /\ (Busy(k)' <=> Busy(k))
  BY <1>0, <1>2, SaverMoves, Zenon
<1>5. Base' = loc[s].image
  BY <1>0, Zenon DEF Base
<1>6. SaverOK(s) /\ \A c \in Clients : EmitOK(c)
  BY Zenon DEF LogInv
<1>7. catchingUp /\ \A k \in Keys : ExportedOK(s, k)
  BY <1>0, <1>6, Zenon DEF SaverOK
<1>8. ASSUME NEW k \in Keys PROVE AofOK(k)'
  <2>1. SUFFICES ASSUME ~Emitting(k) PROVE Agrees(Final(aof, k, loc[s].image[k]), mem[k], clock)
    BY <1>0, <1>4, <1>5, Zenon DEF AofOK
  <2>2. CASE On(aof, k) # {}
    <3>1. Final(aof, k, loc[s].image[k]) = Final(aof, k, Base[k])
      BY <2>2, FinalFacts DEF DataInv
    <3>2. AofOK(k)
      BY Zenon DEF LogInv
    <3> QED BY <2>1, <3>1, <3>2, Zenon DEF AofOK
  <2>3. CASE On(aof, k) = {}
    <3>1. ~Busy(k)
      BY <1>6, <2>1, <2>3, Zenon DEF Busy, Emitting, EmitOK
    <3>2. On(catchup, k) = {} /\ ShardOf[k] < loc[s].cursor
      BY <1>0, <1>7, <2>3, BelowShardCount, Zenon DEF ExportedOK
    <3>3. Final(aof, k, loc[s].image[k]) = loc[s].image[k] /\ Final(catchup, k, loc[s].image[k]) = loc[s].image[k]
      BY <2>3, <3>2, Zenon DEF Final
    <3> QED BY <1>7, <3>1, <3>2, <3>3, Zenon DEF ExportedOK
  <2> QED BY <2>2, <2>3, Zenon
<1>9. ASSUME NEW k \in Keys PROVE ExportedOK(s, k)'
  <2>1. ExportedOK(s, k)
    BY <1>7, Zenon
  <2> QED BY <1>0, <1>4, <2>1, Zenon DEF ExportedOK
<1>10. SaverOK(s)'
  BY <1>0, <1>4, <1>7, <1>9, Zenon DEF SaverOK
<1> QED BY <1>8, <1>10, Zenon

\* The new log is written, from the buffer or from the export and the buffer.
LEMMA LogWritten ==
  ASSUME Replays, TypeInv, GateInv, SnapInv, DataInv, LogInv, NEW s \in Savers,
         installCatchupAsAOF(s) \/ rewriteAOF(s)
  PROVE  LogInv'
<1> DEFINE q == IF pc[s] = "install" THEN catchup ELSE Rewritten(s)
           n == IF pc[s] = "install" THEN loc[s].n ELSE Len(q)
           l == [loc[s] EXCEPT !.log = q, !.n = n]
<1>0. /\ UNCHANGED <<cfg, mem, snap, aof, status, clock, left>>
      /\ mu = Nil /\ pc[s] \in {"export", "install"} /\ loc[s] \in LocType
      /\ loc[s].cursor = ShardCount \/ pc[s] = "install"
      /\ pc[s] = "install" => cfg.mode = "snapshot+aof"
      /\ pc[s] = "export" => cfg.mode = "aof"
      /\ pc' = [pc EXCEPT ![s] = "rename"]
  BY LogTypes, Zenon DEF installCatchupAsAOF, rewriteAOF, Exported, At, files, store, Goto, GateInv, ModeOK
<1>1. loc' = [loc EXCEPT ![s] = l]
  <2>1. CASE installCatchupAsAOF(s)
    <3>1. pc[s] = "install" /\ loc' = [loc EXCEPT ![s].log = catchup]
      BY <2>1, Zenon DEF installCatchupAsAOF, At, Delta
    <3> QED BY <1>0, <3>1, LogTypes, Zenon DEF LocType
  <2>2. CASE rewriteAOF(s)
    <3>1. pc[s] # "install" /\ loc' = [loc EXCEPT ![s].log = q, ![s].n = n]
      BY <2>2, Zenon DEF rewriteAOF, Exported, At
    <3> HIDE DEF q, n
    <3> QED BY <1>0, <3>1, LogTypes, Zenon DEF LocType
  <2> QED BY <2>1, <2>2, Zenon
<1>2. l.log = q
  BY <1>0, Zenon DEF LocType
<1> HIDE DEF l, n
<1>3. Moves(s, "rename", l)
  BY <1>0, <1>1, Zenon DEF Moves
<1>4. Healthy' <=> Healthy
  BY <1>0, Zenon DEF Healthy, HasAOF
<1> SUFFICES ASSUME Healthy PROVE (\A k \in Keys : AofOK(k)') /\ SaverOK(s)'
  BY <1>0, <1>3, <1>4, SaverLog, Zenon
<1>5. /\ pc'[s] = "rename" /\ loc'[s] = l
      /\ \A k : (Emitting(k)' <=> Emitting(k)) /\ (Busy(k)' <=> Busy(k))
  BY <1>0, <1>3, SaverMoves, Zenon
<1>6. Base' = Base
  BY <1>0, Zenon DEF Base
<1>7. SaverOK(s) /\ \A k \in Keys : AofOK(k)
  BY Zenon DEF LogInv
<1>8. ASSUME NEW k \in Keys PROVE AofOK(k)'
  BY <1>0, <1>5, <1>6, <1>7, Zenon DEF AofOK
<1>9. ASSUME NEW k \in Keys, ~Emitting(k) PROVE Agrees(Final(q, k, Base[k]), mem[k], clock)
  <2>1. ~Busy(k)
    <3>1. \A c \in Clients : pc[c] # "sync"
      BY <1>0, Constants, Zenon DEF GateInv, MuLabels
    <3> QED BY <1>9, <3>1, Zenon DEF Busy, Emitting
  <2>2. ExportedOK(s, k) /\ loc[s].cursor = ShardCount
    BY <1>0, <1>7, Zenon DEF SaverOK
  <2>3. ShardOf[k] < loc[s].cursor
    BY <2>2, LogTypes
  <2>4. Agrees(Final(catchup, k, loc[s].image[k]), mem[k], clock)
    BY <2>1, <2>2, <2>3, Zenon DEF ExportedOK
  <2>5. CASE pc[s] = "install"
    <3>1. Base[k] = loc[s].image[k] /\ q = catchup
      BY <1>0, <1>7, <2>5, Zenon DEF SaverOK, Base
    <3> QED BY <2>4, <3>1, Zenon
  <2>6. CASE pc[s] # "install"
    <3>0. loc[s].image \in [Keys -> Entry] /\ catchup \in Seq(DataLine)
      BY LogTypes, Zenon DEF DataInv
    <3>1. Base[k] = None /\ q = Lines(loc[s].image) \o catchup
      BY <1>0, <2>6, Zenon DEF Base, NoData, Rewritten
    <3>2. Lines(loc[s].image) \in Seq(DataLine) /\ Final(Lines(loc[s].image), k, None) = loc[s].image[k]
      BY <3>0, LinesFinal, Zenon
    <3>3. Final(q, k, None) = Final(catchup, k, Final(Lines(loc[s].image), k, None))
      <4> DEFINE p == Lines(loc[s].image)
      <4>1. p \in Seq(DataLine) /\ catchup \in Seq(DataLine)
        BY <3>0, <3>2, Zenon
      <4> HIDE DEF p
      <4>2. Final(p \o catchup, k, None) = Final(catchup, k, Final(p, k, None))
        BY <4>1, FinalConcat
      <4> QED BY <3>1, <4>2, Zenon DEF p
    <3> QED BY <2>4, <3>1, <3>2, <3>3, Zenon
  <2> QED BY <2>5, <2>6, Zenon
<1>10. SaverOK(s)'
  <2> HIDE DEF q
  <2> QED BY <1>0, <1>2, <1>5, <1>6, <1>9, Zenon DEF SaverOK
<1> QED BY <1>8, <1>10, Zenon

\* The new log takes the place of the old one, and is opened.
LEMMA LogSwap ==
  ASSUME TypeInv, GateInv, DataInv, LogInv, NEW s \in Savers, Rename(s) \/ Reopen(s)
  PROVE  LogInv'
<1>0. UNCHANGED <<cfg, mem, snap, status, clock, left>>
  BY Zenon DEF Rename, Reopen, store, engine
<1>1. Healthy' <=> Healthy
  BY <1>0, Zenon DEF Healthy, HasAOF
<1>2. Base' = Base
  BY <1>0, Zenon DEF Base
<1>3. CASE Rename(s)
  <2>1. pc[s] = "rename" /\ aof' = loc[s].log /\ Moves(s, "reopen", loc[s])
    BY <1>3, LogTypes, Zenon DEF Rename, At, Goto, Moves
  <2>2. mu = s
    BY <2>1, LogTypes, Zenon DEF GateInv, MuLabels
  <2> SUFFICES ASSUME Healthy PROVE (\A k \in Keys : AofOK(k)') /\ SaverOK(s)'
    BY <1>0, <1>1, <2>1, <2>2, SaverLog, Zenon
  <2>3. /\ pc'[s] = "reopen"
        /\ \A k : (Emitting(k)' <=> Emitting(k)) /\ (Busy(k)' <=> Busy(k))
    BY <2>1, SaverMoves, Zenon
  <2>4. SaverOK(s)
    BY Zenon DEF LogInv
  <2>5. ASSUME NEW k \in Keys PROVE AofOK(k)'
    BY <1>0, <1>2, <2>1, <2>3, <2>4, Zenon DEF AofOK, SaverOK
  <2> QED BY <2>3, <2>5, Zenon DEF SaverOK
<1>4. CASE Reopen(s)
  <2>1. pc[s] = "reopen" /\ aof' = aof /\ Moves(s, "idle", NoLoc) /\ aofOpen'
    BY <1>4, Zenon DEF Reopen, At, Goto, Moves, EndSwap, Finish
  <2> SUFFICES ASSUME Healthy PROVE (\A k \in Keys : AofOK(k)') /\ SaverOK(s)'
    BY <1>0, <1>1, <2>1, SaverLog, Zenon
  <2>2. /\ pc'[s] = "idle"
        /\ \A k : (Emitting(k)' <=> Emitting(k)) /\ (Busy(k)' <=> Busy(k))
    BY <2>1, SaverMoves, Zenon
  <2>3. ASSUME NEW k \in Keys PROVE AofOK(k)'
    <3>1. AofOK(k)
      BY Zenon DEF LogInv
    <3> QED BY <1>0, <1>2, <2>1, <2>2, <3>1, Zenon DEF AofOK
  <2> QED BY <2>2, <2>3, Zenon DEF SaverOK
<1> QED BY <1>3, <1>4, Zenon

\* With room for every key, Load accepts the lines of SETs and DELs.
LEMMA LoadsLog ==
  ASSUME Replays, Roomy, TypeInv, HasAOF, NEW lines \in Seq(DataLine)
  PROVE  /\ LoadLines(lines, clock).ok
         /\ \A k \in Keys : LoadLines(lines, clock).mem[k] = Final(lines, k, loadSnapshot(clock)[k])
<1> DEFINE p == Replay(loadSnapshot(clock), lines, clock)
           good == Fits(loadSnapshot(clock)) /\ p.ok
<1>1. LoadLines(lines, clock) = [mem |-> p.mem, ok |-> good]
  BY Zenon DEF LoadLines
<1>2. Fits(loadSnapshot(clock))
  BY AllFits, Zenon
<1>3. p.ok /\ \A k \in Keys : p.mem[k] = Final(lines, k, loadSnapshot(clock)[k])
  <2>1. loadSnapshot(clock) \in [Keys -> Entry] /\ clock \in Nat
    BY LoadType, LogTypes, Zenon
  <2> QED BY <2>1, ReplayFinal, Zenon
<1>4. good
  BY <1>2, <1>3, Zenon
<1> HIDE DEF p, good
<1>5. LoadLines(lines, clock).mem = p.mem /\ LoadLines(lines, clock).ok = good
  BY <1>1
<1> QED BY <1>3, <1>4, <1>5, Zenon

\* An entry of the snapshot that has expired is not loaded, and stands for nothing.
LEMMA LoadedAgrees ==
  ASSUME Replays, Roomy, TypeInv, HasAOF, NEW lines \in Seq(DataLine), NEW k \in Keys
  PROVE  /\ \A m : Agrees(Final(lines, k, Base[k]), m, clock)
                     => Agrees(LoadLines(lines, clock).mem[k], m, clock)
         /\ Agrees(Final(lines, k, Base[k]), LoadLines(lines, clock).mem[k], clock)
<1> DEFINE b == loadSnapshot(clock)[k]
           r == LoadLines(lines, clock).mem[k]
<1>3. r = Final(lines, k, b)
  BY LoadsLog, Zenon
<1>4. b = IF Live(Base[k], clock) THEN Base[k] ELSE None
  <2>1. ~Live(None, clock)
    BY Zenon DEF Live
  <2> QED BY <2>1, Zenon DEF loadSnapshot, Base, NoData
<1> HIDE DEF b, r
<1>5. CASE On(lines, k) # {}
  <2>1. Final(lines, k, b) = Final(lines, k, Base[k])
    BY <1>5, FinalFacts, Zenon
  <2> QED BY <1>3, <2>1, AgreesFacts, Zenon DEF r, b
<1>6. CASE On(lines, k) = {}
  <2>1. Final(lines, k, b) = b /\ Final(lines, k, Base[k]) = Base[k]
    BY <1>6, Zenon DEF Final
  <2>2. ~Live(None, clock)
    BY Zenon DEF Live
  <2>3. \A m : Agrees(Base[k], m, clock) => Agrees(b, m, clock)
    BY <1>4, <2>2, Zenon DEF Agrees
  <2>4. Agrees(Base[k], b, clock)
    BY <1>4, <2>2, Zenon DEF Agrees
  <2> QED BY <1>3, <2>1, <2>3, <2>4, Zenon DEF r, b
<1> QED BY <1>5, <1>6, Zenon

\* The process comes up with what the files say.
LEMMA LogLoad ==
  ASSUME Replays, Roomy, TypeInv, GateInv, DataInv, LogInv, Load
  PROVE  LogInv'
<1> SUFFICES ASSUME Healthy'
             PROVE  /\ OpenOK'
                    /\ \A d \in Clients : EmitOK(d)'
                    /\ \A j \in Keys : AofOK(j)'
                    /\ \A s \in Savers : SaverOK(s)'
  BY Zenon DEF LogInv
<1>1. /\ status = "down" /\ UNCHANGED <<cfg, snap, aof, clock, pc, loc>>
      /\ mem' = LoadLines(aof, clock).mem /\ aofOpen' = HasAOF /\ HasAOF
  BY Zenon DEF Load, Healthy, HasAOF, files
<1>2. \A t \in Threads : pc'[t] = "idle"
  BY <1>1, Zenon DEF GateInv
<1>3. Base' = Base
  BY <1>1, Zenon DEF Base
<1>4. ASSUME NEW k \in Keys PROVE AofOK(k)'
  <2>1. Agrees(Final(aof, k, Base[k]), LoadLines(aof, clock).mem[k], clock)
    BY <1>1, LoadedAgrees, Zenon DEF DataInv
  <2> QED BY <1>1, <1>3, <2>1, Zenon DEF AofOK
<1>5. OpenOK'
  BY <1>1, Zenon DEF OpenOK
<1> QED BY <1>2, <1>4, <1>5, LogTypes, Zenon DEF EmitOK, SaverOK

\* Every step keeps what the log says.
LEMMA LogStep ==
  ASSUME Replays, SetDel, SingleWriters, Roomy, TypeInv, GateInv, SnapInv, DataInv, LogInv, [Next]_vars
  PROVE  LogInv'
<1>0. ASSUME left.failures > 0, left' = [left EXCEPT !.failures = @ - 1] PROVE LogInv'
  BY <1>0, LeftTypes, Zenon DEF LogInv, Healthy
<1>1. ASSUME NEW k \in Keys, Drops(k) PROVE LogInv'
  <2>1. UNCHANGED <<cfg, snap, aof, aofOpen, catchingUp, catchup, pc, loc>> /\ clock' = clock
    BY <1>1, Zenon DEF Drops, files, engine
  <2>2. Healthy' <=> Healthy
    BY <1>1, <2>1, Zenon DEF Drops, Healthy, HasAOF, engine
  <2>3. ASSUME NEW j \in Keys, NEW r \in Entry, Agrees(r, mem[j], clock)
        PROVE  Agrees(r, mem'[j], clock')
    <3>1. CASE j = k
      <4>1. mem'[j] = None /\ (Evictions \/ ~Live(mem[j], clock))
        BY <1>1, <3>1, LogTypes, Zenon DEF Drops
      <4> QED BY <2>1, <2>3, <4>1, AgreesFacts, Zenon
    <3>2. CASE j # k
      BY <1>1, <2>1, <2>3, <3>2, LogTypes, Zenon DEF Drops
    <3> QED BY <3>1, <3>2, Zenon
  <2> QED BY <2>1, <2>2, <2>3, LogStays, Zenon
<1>2. ASSUME NEW c \in Clients, Operation(c) \/ ClientStep(c) PROVE LogInv'
  <2>1. ASSUME NEW k \in Keys, NEW e \in Entry, NEW line \in DataLine, Puts(c, k, e, line)
        PROVE  LogInv'
    BY <2>1, LogPuts, Zenon
  <2>2. CASE appendFails(c)
    BY <1>0, <2>2, Zenon DEF appendFails
  <2> QED BY <1>1, <1>2, <2>1, <2>2, ClientKinds, LogAppend, LogSync, Zenon
<1>3. ASSUME NEW s \in Savers, SaveSnapshot(s) \/ SaverStep(s) PROVE LogInv'
  <2>1. CASE SaveFails(s) \/ SwapFails(s) \/ ReopenSyncFails(s)
    BY <1>0, <2>1, Zenon DEF SaveFails, SwapFails, ReopenSyncFails, Failure
  <2> QED BY <1>3, <2>1, LogBegin, LogExport, LogSnapshot, LogWritten, LogSwap, Zenon DEF SaverStep
<1>4. ASSUME NEW k \in Keys, Reclaim(k) PROVE LogInv'
  <2>1. Drops(k)
    BY <1>4, Zenon DEF Reclaim, Drops
  <2> QED BY <1>1, <2>1, Zenon
<1>5. ASSUME UNCHANGED <<cfg, snap, aof, aofOpen, catchingUp, catchup, pc, loc>>,
             UNCHANGED <<mem, status, left>>, clock' \in Nat, clock <= clock'
      PROVE  LogInv'
  <2>1. Healthy' <=> Healthy
    BY <1>5, Zenon DEF Healthy, HasAOF
  <2>2. \A j \in Keys : \A r \in Entry : Agrees(r, mem[j], clock) => Agrees(r, mem'[j], clock')
    BY <1>5, AgreesFacts, LogTypes, Zenon
  <2> QED BY <1>5, <2>1, <2>2, LogStays, Zenon
<1>6. CASE fsyncLoop \/ Advance \/ UNCHANGED vars
  <2>1. UNCHANGED <<cfg, snap, aof, aofOpen, catchingUp, catchup, pc, loc>> /\ UNCHANGED <<mem, status, left>>
    BY <1>6, Zenon DEF fsyncLoop, Advance, vars, store, files, engine
  <2>2. clock' \in Nat /\ clock <= clock'
    <3>1. clock' = clock \/ clock' = clock + 1
      BY <1>6, Zenon DEF fsyncLoop, Advance, vars, store
    <3> QED BY <3>1, LogTypes
  <2> QED BY <1>5, <2>1, <2>2, Zenon
<1>7. CASE Crash \/ Close \/ LosePower
  <2>1. status' = "down"
    BY <1>7, Zenon DEF Crash, Close, LosePower, Stop
  <2> QED BY <2>1, Zenon DEF LogInv, Healthy
<1>8. CASE Load
  BY <1>8, LogLoad, Zenon
<1> QED BY <1>2, <1>3, <1>4, <1>6, <1>7, <1>8, Zenon DEF Next, Done

\* They hold at the start.
LEMMA LogInit == Init => DataInv /\ LogInv
<1> SUFFICES ASSUME Init PROVE DataInv /\ LogInv
  BY Zenon
<1>1. /\ \A t \in Threads : pc[t] = "idle" /\ loc[t] = NoLoc
      /\ aof = <<>> /\ catchup = <<>> /\ mem = NoData /\ snap = NoData /\ aofOpen = HasAOF
      /\ Clients \subseteq Threads /\ Savers \subseteq Threads
  BY Zenon DEF Init, Threads
<1>2. DataInv
  <2>1. NoLoc.log = <<>> /\ <<>> \in Seq(DataLine)
    BY DEF NoLoc
  <2> QED BY <1>1, <2>1, Zenon DEF DataInv
<1>3. ASSUME NEW k \in Keys PROVE AofOK(k)
  <2>1. Final(aof, k, Base[k]) = None /\ mem[k] = None
    BY <1>1 DEF Final, On, Base, NoData
  <2> QED BY <2>1, AgreesFacts, Zenon DEF AofOK
<1>4. Healthy => OpenOK
  BY <1>1, Zenon DEF Healthy, OpenOK
<1>5. (\A c \in Clients : EmitOK(c)) /\ \A s \in Savers : SaverOK(s)
  BY <1>1, Zenon DEF EmitOK, SaverOK
<1> QED BY <1>2, <1>3, <1>4, <1>5, Zenon DEF LogInv

\* What the files say of a key that no client is changing.
LEMMA FilesAgree ==
  ASSUME Replays, Roomy, TypeInv, DataInv, LogInv, WholeInv, Healthy, NEW k \in Keys, ~InFlight(k)
  PROVE  Agrees(Recovered[k], mem[k], clock)
<1>1. ~Emitting(k)
  BY Zenon DEF Emitting, InFlight
<1>2. Agrees(Final(aof, k, Base[k]), mem[k], clock)
  BY <1>1, Zenon DEF LogInv, AofOK
<1>3. aof \in Seq(DataLine) /\ HasAOF
  BY Zenon DEF DataInv, Healthy
<1>4. Recovered = LoadLines(aof, clock).mem
  BY <1>3, LoadsLog, Zenon DEF Recovered, WholeInv, Healthy
<1> QED BY <1>2, <1>3, <1>4, LoadedAgrees, Zenon

----------------------------------------------------------------------------
(* What is on the disk *)

\* Every step keeps it.
LEMMA SyncStep ==
  ASSUME SetDel, Durable, TypeInv, GateInv, DataInv, SyncInv, [Next]_vars
  PROVE  SyncInv'
<1> SUFFICES ASSUME cfg'.mode = "aof", cfg'.fsync = "always", left'.failures = MaxFailures
             PROVE  /\ NoSync' => synced' = Len(aof')
                    /\ \A c \in Clients : pc'[c] = "sync" => Unsynced(c)'
                    /\ \A s \in Savers : pc'[s] = "rename" => loc'[s].n = Len(loc'[s].log)
  BY Zenon DEF SyncInv
<1>0. /\ cfg.mode = "aof" /\ cfg.fsync = "always" /\ cfg.crash = "machine"
      /\ left.failures = MaxFailures
      /\ \A c \in Clients : ~appendFails(c)
      /\ \A s \in Savers : ~SaveFails(s) /\ ~SwapFails(s) /\ ~ReopenSyncFails(s)
  BY Counted, LogTypes, Zenon DEF Durable
<1> DEFINE G == /\ NoSync' => synced' = Len(aof')
                /\ \A c \in Clients : pc'[c] = "sync" => Unsynced(c)'
                /\ \A s \in Savers : pc'[s] = "rename" => loc'[s].n = Len(loc'[s].log)
<1>1. /\ NoSync => synced = Len(aof)
      /\ \A c \in Clients : pc[c] = "sync" => Unsynced(c)
      /\ \A s \in Savers : pc[s] = "rename" => loc[s].n = Len(loc[s].log)
  BY <1>0, Zenon DEF SyncInv
<1>2. mu = Nil => NoSync
  BY Constants, Zenon DEF NoSync, GateInv, MuLabels
<1>3. ASSUME UNCHANGED <<aof, synced, pc, loc>> PROVE G
  BY <1>1, <1>3, Zenon DEF NoSync, Unsynced
<1>4. ASSUME NEW c \in Clients, Operation(c) \/ ClientStep(c) PROVE G
  <2>1. ASSUME NEW a, NEW l, Moves(c, a, l), a # "sync", aof' = aof,
               \/ pc[c] # "sync" /\ synced' = synced
               \/ pc[c] = "sync" /\ synced' = Len(aof)
        PROVE  G
    <3>1. /\ pc'[c] = a
          /\ \A t \in Threads : t # c => pc'[t] = pc[t] /\ loc'[t] = loc[t]
          /\ \A s \in Savers : pc'[s] = pc[s] /\ loc'[s] = loc[s]
      BY <2>1, ClientMoves, Zenon
    <3>2. \A d \in Clients : pc'[d] = "sync" => d # c /\ pc[d] = "sync" /\ loc'[d] = loc[d]
      BY <2>1, <3>1, LogTypes, Zenon
    <3>3. CASE pc[c] # "sync" /\ synced' = synced
      <4>1. NoSync' => NoSync
        BY <3>1, <3>3, LogTypes, Zenon DEF NoSync
      <4>2. ASSUME NEW d \in Clients, pc'[d] = "sync" PROVE Unsynced(d)'
        BY <1>1, <2>1, <3>2, <3>3, <4>2, Zenon DEF Unsynced
      <4> QED BY <1>1, <2>1, <3>1, <3>3, <4>1, <4>2, Zenon
    <3>4. CASE pc[c] = "sync" /\ synced' = Len(aof)
      <4>1. \A d \in Clients : d # c => pc[d] # "sync"
        BY <3>4, LogTypes, Zenon DEF GateInv, MuLabels
      <4> QED BY <1>1, <2>1, <3>1, <3>2, <3>4, <4>1, Zenon
    <3> QED BY <2>1, <3>3, <3>4, Zenon
  <2>2. ASSUME NEW k \in Keys, NEW e \in Entry, NEW line \in DataLine, Puts(c, k, e, line) PROVE G
    <3>1. UNCHANGED <<aof, synced>> /\ pc[c] = "idle"
      BY <2>2, Zenon DEF Puts, At, files
    <3>2. \E a \in {"emit", "idle"} : \E l : Moves(c, a, l)
      BY <2>2, Zenon DEF Puts, Emits, Goto, Moves
    <3> QED BY <2>1, <3>1, <3>2, Zenon
  <2>3. ASSUME NEW k \in Keys, Drops(k) PROVE G
    BY <1>3, <2>3, Zenon DEF Drops, files
  <2>4. CASE appendAOF(c)
    <3>1. pc[c] = "emit" /\ mu = Nil /\ synced' = synced /\ synced = Len(aof) /\ NoSync
      BY <1>1, <1>2, <2>4, Zenon DEF appendAOF, At
    <3>2. CASE ~aofOpen
      <4>1. Moves(c, "idle", NoLoc) /\ aof' = aof
        BY <2>4, <3>2, Zenon DEF appendAOF, Return, Goto, Moves
      <4> QED BY <2>1, <3>1, <4>1, Zenon
    <3>3. CASE aofOpen
      <4>1. aof' = Append(aof, loc[c].line) /\ pc' = [pc EXCEPT ![c] = "sync"] /\ loc' = loc
        BY <2>4, <3>3, Zenon DEF appendAOF, Goto
      <4>2. aof \in Seq(DataLine)
        BY Zenon DEF DataInv
      <4>3. Unsynced(c)'
        BY <3>1, <4>1, <4>2, Zenon DEF Unsynced
      <4>4. pc'[c] = "sync" /\ \A t \in Threads : t # c => pc'[t] = pc[t]
        BY <4>1, LogTypes, Zenon
      <4>5. ~NoSync' /\ \A d \in Clients : pc'[d] = "sync" => d = c
        BY <3>1, <4>4, LogTypes, Zenon DEF NoSync
      <4>6. \A s \in Savers : pc'[s] = pc[s]
        BY <4>4, LogTypes, Zenon
      <4> QED BY <1>1, <4>1, <4>3, <4>5, <4>6, Zenon
    <3> QED BY <3>2, <3>3, Zenon
  <2>5. CASE appendSync(c)
    <3>1. pc[c] = "sync" /\ synced' = Len(aof) /\ aof' = aof /\ Moves(c, "idle", NoLoc)
      BY <2>5, Zenon DEF appendSync, At, Return, Goto, Moves
    <3> QED BY <2>1, <3>1, Zenon
  <2> QED BY <1>0, <1>4, <2>2, <2>3, <2>4, <2>5, ClientKinds, Zenon
<1>5. ASSUME NEW s \in Savers, SaveSnapshot(s) \/ SaverStep(s) PROVE G
  <2>0. /\ loc[s] \in LocType /\ ~SaveFails(s) /\ ~SwapFails(s) /\ ~ReopenSyncFails(s)
        /\ pc[s] # "idle" \/ ~saving
        /\ ~installCatchupAsAOF(s) /\ ~WriteSnapshot(s)
    <3>1. loc[s] \in LocType /\ ~SaveFails(s) /\ ~SwapFails(s) /\ ~ReopenSyncFails(s)
      BY <1>0, LogTypes, Zenon
    <3>2. pc[s] # "idle" \/ ~saving
      BY <1>5, Zenon DEF SaveSnapshot, SaveGate, SaverStep, ExportAll, WriteSnapshot, installCatchupAsAOF, rewriteAOF,
                  Rename, Reopen, SaveFails, SwapFails, ReopenSyncFails, Exported, At
    <3>3. ~installCatchupAsAOF(s) /\ ~WriteSnapshot(s)
      BY <1>0, LogTypes, Zenon DEF installCatchupAsAOF, WriteSnapshot, At, GateInv, ModeOK
    <3> QED BY <3>1, <3>2, <3>3, Zenon
  <2>1. ASSUME NEW a, NEW l, Moves(s, a, l), a = "rename" => l.n = Len(l.log),
               UNCHANGED <<aof, synced>> \/ (mu = s /\ synced' = Len(aof'))
        PROVE  G
    <3>1. /\ pc'[s] = a /\ loc'[s] = l
          /\ \A c \in Clients : pc'[c] = pc[c] /\ loc'[c] = loc[c]
          /\ \A u \in Savers : u # s => pc'[u] = "idle"
      <4>1. pc[s] # "idle" \/ ~saving
        BY <2>0, Zenon
      <4> QED BY <2>1, <4>1, SaverMoves
    <3>2. NoSync' <=> NoSync
      BY <3>1, Zenon DEF NoSync
    <3>3. mu = s => NoSync
      BY LogTypes, Zenon DEF NoSync, GateInv, MuLabels
    <3>4. ASSUME NEW c \in Clients, pc'[c] = "sync" PROVE Unsynced(c)'
      BY <1>1, <2>1, <3>1, <3>3, <3>4, Zenon DEF Unsynced, NoSync
    <3>5. \A u \in Savers : pc'[u] = "rename" => loc'[u].n = Len(loc'[u].log)
      BY <2>1, <3>1, Zenon
    <3> QED BY <1>1, <2>1, <3>2, <3>3, <3>4, <3>5, Zenon
  <2>2. CASE SaveSnapshot(s)
    <3>1. UNCHANGED <<aof, synced>> /\ \E l : Moves(s, "export", l)
      BY <2>2, Zenon DEF SaveSnapshot, files, Goto, Moves
    <3> QED BY <2>1, <3>1, Zenon
  <2>3. CASE ExportAll(s)
    <3>1. UNCHANGED <<aof, synced, pc>> /\ pc[s] = "export" /\ \E l : loc' = [loc EXCEPT ![s] = l]
      BY <2>0, <2>3, LogTypes, Zenon DEF ExportAll, files, At, LocType
    <3>2. \E l : Moves(s, "export", l)
      BY <3>1, LogTypes, Zenon DEF Moves
    <3> QED BY <2>1, <3>1, <3>2, Zenon
  <2>4. CASE rewriteAOF(s)
    <3> DEFINE q == Rewritten(s)
               l == [loc[s] EXCEPT !.log = q, !.n = Len(q)]
    <3>1. /\ UNCHANGED <<aof, synced>> /\ pc' = [pc EXCEPT ![s] = "rename"]
          /\ loc' = [loc EXCEPT ![s].log = q, ![s].n = Len(q)]
      BY <2>4, Zenon DEF rewriteAOF, files, Goto
    <3> HIDE DEF q
    <3>2. loc' = [loc EXCEPT ![s] = l] /\ l.n = Len(l.log)
      BY <2>0, <3>1, LogTypes, Zenon DEF LocType
    <3> HIDE DEF l
    <3>3. Moves(s, "rename", l)
      BY <3>1, <3>2, Zenon DEF Moves
    <3> QED BY <2>1, <3>1, <3>2, <3>3, Zenon
  <2>5. CASE Rename(s)
    <3>1. pc[s] = "rename" /\ aof' = loc[s].log /\ synced' = loc[s].n /\ Moves(s, "reopen", loc[s])
      BY <2>5, LogTypes, Zenon DEF Rename, At, Goto, Moves
    <3>2. mu = s /\ loc[s].n = Len(loc[s].log)
      BY <1>1, <3>1, LogTypes, Zenon DEF GateInv, MuLabels
    <3> QED BY <2>1, <3>1, <3>2, Zenon
  <2>6. CASE Reopen(s)
    <3>1. UNCHANGED <<aof, synced>> /\ Moves(s, "idle", NoLoc)
      BY <1>0, <2>6, Zenon DEF Reopen, EndSwap, Finish, Goto, Moves
    <3> QED BY <2>1, <3>1, Zenon
  <2> QED BY <1>5, <2>0, <2>2, <2>3, <2>4, <2>5, <2>6, Zenon DEF SaverStep
<1>6. ASSUME NEW k \in Keys, Reclaim(k) PROVE G
  BY <1>3, <1>6, Zenon DEF Reclaim, files
<1>7. CASE Crash \/ Close \/ LosePower
  <2>1. \A t \in Threads : pc'[t] = "idle"
    BY <1>7, Zenon DEF Crash, Close, LosePower, Stop
  <2>2. synced' = Len(aof')
    <3>1. ~Crash
      BY <1>0, Zenon DEF Crash
    <3>2. CASE Close
      BY <1>1, <1>2, <3>2, Zenon DEF Close
    <3>3. CASE LosePower
      <4>1. PICK n \in synced .. Len(aof) : aof' = SubSeq(aof, 1, n) /\ synced' = n
        BY <3>3, Zenon DEF LosePower
      <4>2. aof \in Seq(DataLine) /\ synced \in Nat /\ Len(aof) \in Nat
        BY DEF DataInv, TypeInv, FilesOK
      <4>3. n \in Nat /\ n <= Len(aof)
        BY <4>2
      <4>4. \A i \in 1 .. n : aof[i] \in DataLine
        BY <4>2, <4>3
      <4>5. Len(SubSeq(aof, 1, n)) = n
        BY <4>2, <4>3
      <4> QED BY <4>1, <4>5, Zenon
    <3> QED BY <1>7, <3>1, <3>2, <3>3, Zenon
  <2> QED BY <2>1, <2>2, LogTypes, Zenon
<1>8. ~fsyncLoop
  BY <1>0, Zenon DEF fsyncLoop
<1>9. CASE Load \/ Advance \/ UNCHANGED vars
  BY <1>3, <1>9, Zenon DEF Load, Advance, vars, files
<1> QED BY <1>4, <1>5, <1>6, <1>7, <1>8, <1>9, Zenon DEF Next, Done

\* It holds at the start.
LEMMA SyncInit == Init => SyncInv
<1> SUFFICES ASSUME Init PROVE SyncInv
  BY Zenon
<1>1. (\A t \in Threads : pc[t] = "idle") /\ aof = <<>> /\ synced = 0
  BY Zenon DEF Init
<1> QED BY <1>1, Zenon DEF SyncInv, Threads
=============================================================================
