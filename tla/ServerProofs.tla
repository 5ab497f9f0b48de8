---------------------------- MODULE ServerProofs ----------------------------
(***************************************************************************)
(* Theorems about Server, for every number of connections, tenants,        *)
(* clients and names, and for every limit: the counters of connections are *)
(* exact, the limits refine Admission, Close leaves at most one connection *)
(* open, the hubs agree with the clients, a message never starts on its    *)
(* way to a connection of another tenant, and NUMSUB counts the sessions   *)
(* that subscribed.                                                        *)
(***************************************************************************)
EXTENDS ServerSteps, FiniteSetTheorems

----------------------------------------------------------------------------
(* The connections *)

\* Counting, from the library.
LEMMA CountingHolds == CountingFact
<1> SUFFICES ASSUME NEW S, IsFiniteSet(S)
             PROVE  /\ Cardinality(S) \in Nat
                    /\ Cardinality(S) = 0 => S = {}
                    /\ \A T \in SUBSET S : IsFiniteSet(T) /\ Cardinality(T) <= Cardinality(S)
                    /\ \A x \in S : IsFiniteSet(S \ {x}) /\ Cardinality(S \ {x}) = Cardinality(S) - 1
                    /\ \A x : x \notin S => /\ IsFiniteSet(S \cup {x})
                                            /\ Cardinality(S \cup {x}) = Cardinality(S) + 1
  BY FS_EmptySet, Zenon DEF CountingFact
<1>1. Cardinality(S) \in Nat /\ (Cardinality(S) = 0 => S = {})
  BY FS_CardinalityType, FS_EmptySet, Zenon
<1>2. \A T \in SUBSET S : IsFiniteSet(T) /\ Cardinality(T) <= Cardinality(S)
  BY FS_Subset, Zenon
<1>3. \A x \in S : IsFiniteSet(S \ {x}) /\ Cardinality(S \ {x}) = Cardinality(S) - 1
  BY FS_RemoveElement, Zenon
<1>4. \A x : x \notin S => IsFiniteSet(S \cup {x}) /\ Cardinality(S \cup {x}) = Cardinality(S) + 1
  BY FS_AddElement, Zenon
<1> QED BY <1>1, <1>2, <1>3, <1>4, Zenon

\* The inductive invariant of Server.
THEOREM Invariant == Spec => []IInv
<1>0. CountingFact
  BY CountingHolds, Zenon
<1>1. Init => IInv
  BY <1>0, InitKeeps, Zenon
<1>2. IInv /\ [Next]_vars => IInv'
  BY <1>0, NextKeeps, Zenon DEF Keeps
<1> QED BY <1>1, <1>2, PTL DEF Spec

\* The variables of the hubs, the sessions and the server keep their types.
THEOREM TypeCorrect == Spec => []TypeOK
<1>1. IInv => TypeOK
  BY TypeParts, Zenon DEF IInv
<1> QED BY <1>1, Invariant, PTL

\* clientCount is the number of connections being served, and MaxClients bounds it.
THEOREM ClientsCounted == Spec => []ClientSlots
<1>1. IInv => ClientSlots
  BY Zenon DEF IInv
<1> QED BY <1>1, Invariant, PTL

\* connCount of every tenant is the number of sessions with one of its slots, and the
\* MaxClients of the tenant bounds it.
THEOREM TenantsCounted == Spec => []TenantSlots
<1>1. IInv => TenantSlots
  BY Zenon DEF IInv
<1> QED BY <1>1, Invariant, PTL

\* When Close returns, the one connection that may be open is the accept loop's.
THEOREM CloseLeavesOne == Spec => OnlyOneInHand
<1>1. ASSUME IInv, [Next]_vars, closer.at # "returned", closer'.at = "returned"
      PROVE  \A c \in Conns \ {acc.conn} : sock[c] # "open" /\ pc[c] \in {"none", "done"}
  <2>1. CloseReturn
    <3>1. closer' # closer
      BY <1>1, Zenon
    <3>2. \A c \in Conns : ~ (Command(c) \/ SessionStep(c))
      <4> SUFFICES ASSUME NEW c \in Conns, Command(c) \/ SessionStep(c) PROVE UNCHANGED netVars
        BY <3>1, Zenon DEF netVars, serverVars
      <4>1. CASE Command(c)
        BY <4>1, ZenonT(30) DEF Command, Refuse, Answer, quit, ProtocolError, Auth, Subscribe, Unsubscribe,
                    Publish, Receive
      <4>2. CASE SessionStep(c)
        BY <4>2, Zenon DEF SessionStep, Hangup, WriteReply, WriteFailed, AcquireConn, SwapConn, Bind,
                    ReleaseTenantConn, CloseMark, CloseChannels, ClosePatterns, SubscribeHub,
                    SubscribeSet, UnsubscribeHub, UnsubscribeSet, Deliver, Push, Published
      <4> QED BY <4>1, <4>2, Zenon
    <3>3. \A c \in Conns : ~ (\/ releaseClient(c) \/ untrack(c) \/ CloseConn(c)
                              \/ PeerConnect(c) \/ PeerRead(c) \/ PeerLeave(c))
      BY <3>1, Zenon DEF releaseClient, untrack, CloseConn, PeerConnect, PeerRead, PeerLeave, netVars,
                  serverVars
    <3>4. ~ (Idle \/ Serve \/ UNCHANGED vars)
      BY <3>1, Zenon DEF Idle, Serve, ServeStart, Accept, ServeReturn, tryAddClient, CompareAndSwap,
                  RefuseConn, track, Spawn, vars, serverVars
    <3>5. ~ (CloseStart \/ CloseListener \/ CloseOne)
      BY <1>1 DEF CloseStart, CloseListener, CloseOne, IInv, ServType
    <3> QED BY <1>1, <3>2, <3>3, <3>4, <3>5, Zenon DEF Next, Close
  <2>2. \A c \in Conns : pc[c] \in {"none", "done"}
    BY <2>1, Zenon DEF CloseReturn, Running
  <2> QED BY <1>1, <2>2, Zenon DEF IInv, AcceptOK
<1> QED BY <1>1, Invariant, PTL DEF Spec, OnlyOneInHand

\* The limits on connections implement the pools of Admission.
THEOREM LimitsArePools == Spec => ImplementsAdmission
<1> DEFINE limit == [p \in Tenants \cup {Nil} |-> IF p = Nil THEN cfg.max ELSE MaxClientsOf[p]]
           holders == [p \in Tenants \cup {Nil} |-> IF p = Nil THEN Admitted ELSE Holders(p)]
<1>1. Init => Pool!Init
  <2> SUFFICES ASSUME Init PROVE Pool!Init
    BY Zenon
  <2>1. cfg.max \in Nat /\ Admitted = {} /\ \A t \in Tenants : Holders(t) = {}
    BY CountingHolds, InitKeeps, CfgOK, Zenon DEF IInv, NetType
  <2>2. limit \in [Tenants \cup {Nil} -> Nat]
    BY <2>1, SessionAssumption, Zenon
  <2>3. holders = [p \in Tenants \cup {Nil} |-> {}]
    BY <2>1, Zenon
  <2> QED BY <2>2, <2>3, Zenon DEF Pool!Init
<1>2. IInv /\ [Next]_vars => [Pool!Next]_<<limit, holders>>
  <2> SUFFICES ASSUME IInv, [Next]_vars PROVE [Pool!Next]_<<limit, holders>>
    BY Zenon
  <2>1. PoolStep /\ cfg' = cfg
    BY CountingHolds, NextKeeps, Zenon DEF Keeps
  <2>2. limit' = limit
    BY <2>1, Zenon
  <2>3. \A p \in Pools : holders[p] = Held(p) /\ holders'[p] = Held(p)' /\ limit[p] = Limit(p)
    BY Zenon DEF Pools, Held, Limit
  <2>4. CASE SlotsSame
    BY <2>2, <2>4, Zenon DEF SlotsSame
  <2>5. /\ holders = [q \in Pools |-> Held(q)] /\ holders' = [q \in Pools |-> Held(q)']
    BY Zenon DEF Pools, Held
  <2>6. ASSUME NEW p \in Pools, NEW c \in Conns, Takes(p, c)
        PROVE  Pool!Next
    <3>1. c \notin holders[p] /\ (limit[p] > 0 => Cardinality(holders[p]) < limit[p])
      BY <2>3, <2>6, Zenon DEF Takes
    <3>2. holders' = [holders EXCEPT ![p] = @ \cup {c}]
      <4> HIDE DEF holders
      <4> QED BY <2>5, <2>6, Zenon DEF Takes
    <3>3. holders' # holders
      <4> HIDE DEF holders
      <4> QED BY <2>3, <2>6, Zenon DEF Takes
    <3>4. Pool!Acquire(p, c)
      <4>1. \A S : Pool!Cardinality(S) = Cardinality(S)
        BY Zenon DEF Pool!Cardinality, Cardinality
      <4> QED BY <3>1, <3>2, <4>1, Zenon DEF Pool!Acquire
    <3> QED BY <2>2, <3>3, <3>4, Zenon DEF Pool!Next, Pools
  <2>7. ASSUME NEW p \in Pools, NEW c \in Conns, Gives(p, c)
        PROVE  Pool!Next
    <3>1. c \in holders[p]
      BY <2>3, <2>7, Zenon DEF Gives
    <3>2. holders' = [holders EXCEPT ![p] = @ \ {c}]
      <4> HIDE DEF holders
      <4> QED BY <2>5, <2>7, Zenon DEF Gives
    <3>3. holders' # holders
      <4> HIDE DEF holders
      <4> QED BY <2>3, <2>7, Zenon DEF Gives
    <3>4. Pool!Release(p, c)
      BY <3>1, <3>2, Zenon DEF Pool!Release
    <3> QED BY <2>2, <3>3, <3>4, Zenon DEF Pool!Next, Pools
  <2> QED BY <2>1, <2>4, <2>6, <2>7, Zenon DEF PoolStep
<1> QED BY <1>1, <1>2, Invariant, PTL DEF Spec, ImplementsAdmission, Pool!Spec

----------------------------------------------------------------------------
(* The hubs *)

\* A quiet step keeps the hubs' invariant.
LEMMA QuietKeeps ==
  ASSUME IInv, HubInv, NEW c \in Conns, Quiet(c)
  PROVE  HubInv'
<1>1. UNCHANGED <<hub, home, subs, shut>> /\ Frame(c)
  BY Zenon DEF Quiet, hubVars
<1>2. \A x \in Clients : Owner[x] \in Conns
  BY HubAssumption, Zenon
<1>3. \A x \in Clients : Expected(x)' = Expected(x)
  <2> SUFFICES ASSUME NEW x \in Clients PROVE Expected(x)' = Expected(x)
    BY Zenon
  <2>1. CASE Owner[x] # c
    BY <1>1, <1>2, <2>1, Zenon DEF Expected, Frame
  <2>2. CASE Owner[x] = c
    BY <1>1, <2>2, Zenon DEF Expected, Quiet, Busy
  <2> QED BY <2>1, <2>2, Zenon
<1>4. HubAgrees'
  BY <1>1, <1>3 DEF HubInv, HubAgrees
<1>5. TodoOK'
  BY <1>1, Zenon DEF HubInv, TodoOK, Quiet, Frame
<1>6. \A d \in Conns : ctx'[d].pub = ctx[d].pub
  BY <1>1, Zenon DEF Quiet, Frame
<1>7. \A d \in Conns : ctx[d].pub # Nil => ctx'[d].tenant = ctx[d].tenant
  BY <1>1, Zenon DEF Quiet, Frame
<1>8. \A d \in Conns : pc'[d] \in {"unsub", "punsub", "bind"} /\ ctx[d].pub # Nil => pc'[d] = pc[d]
  BY <1>1, Zenon DEF Quiet, Frame, Busy
<1>9. PubOK'
  <2>1. ASSUME NEW d \in Conns, ctx'[d].pub # Nil
        PROVE  /\ Owner[ctx'[d].pub] = d /\ home[ctx'[d].pub] = ctx'[d].tenant
               /\ pc'[d] \in {"unsub", "punsub", "bind"} =>
                    shut[ctx'[d].pub] /\ subs[ctx'[d].pub] = {}
    BY <2>1, <1>6, <1>7, <1>8 DEF HubInv, PubOK
  <2>2. \A x \in Clients : /\ home[x] = Nil => subs[x] = {}
                           /\ home[x] # Nil /\ ~ shut[x] => ctx'[Owner[x]].pub = x
    BY <1>2, <1>6, Zenon DEF HubInv, PubOK
  <2> QED BY <1>1, <2>1, <2>2, Zenon DEF PubOK
<1> QED BY <1>4, <1>5, <1>9, Zenon DEF HubInv

\* A step that changes nothing of sessions and hubs.
LEMMA NothingKeeps ==
  ASSUME HubInv, UNCHANGED <<hubVars, pc, loc, ctx>>
  PROVE  HubInv'
<1>1. UNCHANGED <<hub, home, subs, shut>>
  BY Zenon DEF hubVars
<1>2. PubOK' /\ TodoOK'
  BY <1>1 DEF HubInv, PubOK, TodoOK
<1>3. HubAgrees'
  BY <1>1 DEF HubInv, HubAgrees, Expected
<1> QED BY <1>2, <1>3, Zenon DEF HubInv

\* A jump to another label that is not busy.
LEMMA QuietGoto ==
  ASSUME IInv, NEW c \in Conns, pc[c] \notin Busy, NEW a, a \notin Busy \cup {"bind"}, NEW l,
         Goto(c, a, l), UNCHANGED hubVars, AutoBind(c) \/ ctx' = ctx,
         \A r \in l.todo : home[r[1]] # Nil
  PROVE  Quiet(c)
<1>1. /\ pc'[c] = a /\ loc'[c] = l
      /\ \A d \in Conns \ {c} : pc'[d] = pc[d] /\ loc'[d] = loc[d]
  BY Zenon DEF Goto, IInv, SessType
<1>2. /\ ctx'[c].pub = ctx[c].pub /\ (ctx[c].pub # Nil => ctx'[c].tenant = ctx[c].tenant)
      /\ \A d \in Conns \ {c} : ctx'[d] = ctx[d]
  <2>1. CASE ctx' = ctx
    BY <2>1, Zenon
  <2>2. CASE AutoBind(c)
    <3>1. PICK x \in CtxType :
            /\ ctx' = [ctx EXCEPT ![c] = x]
            /\ x.tenant = Tenant(c) /\ x.bound = ctx[c].bound /\ x.pub = ctx[c].pub
            /\ x.bound \/ x.pub # Nil => x.tenant \in Tenants /\ x.tenant = ctx[c].tenant
      BY <2>2, AutoBindOK, Zenon
    <3>2. ctx'[c] = x /\ \A d \in Conns \ {c} : ctx'[d] = ctx[d]
      BY <3>1, Zenon DEF IInv, SessType
    <3> QED BY <3>1, <3>2, Zenon
  <2> QED BY <2>1, <2>2, Zenon
<1> QED BY <1>1, <1>2, Zenon DEF Quiet, Frame

\* An answer is quiet.
LEMMA QuietReply ==
  ASSUME IInv, NEW c \in Conns, pc[c] \notin Busy, UNCHANGED hubVars, Reply(c, 1),
         AutoBind(c) \/ ctx' = ctx
  PROVE  Quiet(c)
<1> DEFINE l == [NoLoc EXCEPT !.replies = 1]
<1>1. Goto(c, "write", l) /\ l.todo = {}
  BY Zenon DEF Reply, NoLoc
<1>2. "write" \notin Busy \cup {"bind"}
  BY Zenon DEF Busy
<1> QED BY <1>1, <1>2, QuietGoto, Zenon

\* So is the end of the loop.
LEMMA QuietLeave ==
  ASSUME IInv, NEW c \in Conns, pc[c] \notin Busy, UNCHANGED hubVars, Leave(c), ctx' = ctx
  PROVE  Quiet(c)
<1> DEFINE a == IF ctx[c].pub # Nil THEN "shut" ELSE "leave"
<1>1. Goto(c, a, NoLoc) /\ NoLoc.todo = {}
  BY Zenon DEF Leave, NoLoc
<1>2. a \notin Busy \cup {"bind"}
  BY Zenon DEF Busy
<1> QED BY <1>1, <1>2, QuietGoto, Zenon

\* Commands that only answer, and AUTH up to AcquireConn.
LEMMA QuietCommand ==
  ASSUME IInv, NEW c \in Conns, Refuse(c) \/ Answer(c) \/ quit(c) \/ ProtocolError(c) \/ Auth(c)
  PROVE  Quiet(c)
<1>1. pc[c] \notin Busy /\ UNCHANGED hubVars /\ "write" \notin Busy \cup {"bind"}
      /\ "acquire" \notin Busy \cup {"bind"}
  BY Zenon DEF Refuse, Answer, quit, ProtocolError, Auth, Receive, Busy
<1>2. CASE Refuse(c) \/ Answer(c)
  BY <1>1, <1>2, QuietReply, Zenon DEF Refuse, Answer
<1>3. CASE quit(c) \/ ProtocolError(c)
  <2> DEFINE l == [NoLoc EXCEPT !.replies = 1, !.quit = TRUE]
  <2>1. Goto(c, "write", l) /\ l.todo = {} /\ (AutoBind(c) \/ ctx' = ctx)
    BY <1>3, Zenon DEF quit, ProtocolError, NoLoc
  <2> QED BY <1>1, <2>1, QuietGoto, Zenon
<1>4. CASE Auth(c)
  <2>1. AutoBind(c) /\ \E t \in Tenants : \/ Reply(c, 1)
                                          \/ Goto(c, "acquire", [NoLoc EXCEPT !.tenant = t])
    BY <1>4, Zenon DEF Auth
  <2>2. PICK t \in Tenants : Reply(c, 1) \/ Goto(c, "acquire", [NoLoc EXCEPT !.tenant = t])
    BY <2>1, Zenon
  <2> DEFINE l == [NoLoc EXCEPT !.tenant = t]
  <2>3. l.todo = {}
    BY Zenon DEF NoLoc
  <2> QED BY <1>1, <2>1, <2>2, <2>3, QuietReply, QuietGoto, Zenon
<1> QED BY <1>2, <1>3, <1>4, Zenon

\* PUBLISH copies the members of hub sets, all of them created on that hub.
LEMMA QuietPublish ==
  ASSUME IInv, HubInv, NEW c \in Conns, Publish(c)
  PROVE  Quiet(c)
<1>1. PICK ch \in Channels :
        /\ Receive(c, "PUBLISH") /\ AutoBind(c) /\ UNCHANGED hubVars
        /\ IF ~ HasTenant(c) THEN Reply(c, 1)
           ELSE Goto(c, "deliver", [NoLoc EXCEPT !.todo = Targets(Tenant(c), ch)])
  BY Zenon DEF Publish
<1>2. pc[c] \notin Busy /\ "deliver" \notin Busy \cup {"bind"}
  BY <1>1, Zenon DEF Receive, Busy
<1>3. CASE ~ HasTenant(c)
  BY <1>1, <1>2, <1>3, QuietReply, Zenon
<1>4. CASE HasTenant(c)
  <2> DEFINE T == Targets(Tenant(c), ch)
             l == [NoLoc EXCEPT !.todo = T]
  <2>1. Tenant(c) \in Tenants
    BY <1>4, SessionAssumption, Zenon DEF HasTenant, Tenant, IInv, SessType, CtxType
  <2>2. \A r \in T : home[r[1]] # Nil
    BY <2>1, HubAssumption DEF Targets, HubInv, HubAgrees
  <2> HIDE DEF T
  <2>3. l.todo = T /\ Goto(c, "deliver", l)
    BY <1>1, <1>4, Zenon DEF NoLoc, T
  <2> QED BY <1>1, <1>2, <2>2, <2>3, QuietGoto, Zenon
<1> QED BY <1>3, <1>4, Zenon

\* UNSUBSCRIBE up to the hub.
LEMMA QuietUnsubscribe ==
  ASSUME IInv, NEW c \in Conns, Unsubscribe(c)
  PROVE  Quiet(c)
<1>1. PICK kind \in Kinds("UNSUBSCRIBE", "PUNSUBSCRIBE") : \E M :
        /\ Receive(c, kind[1]) /\ AutoBind(c) /\ UNCHANGED hubVars
        /\ Reply(c, 1) \/ Goto(c, "un", [NoLoc EXCEPT !.names = M])
  BY Zenon DEF Unsubscribe
<1>2. PICK M :
        /\ Receive(c, kind[1]) /\ AutoBind(c) /\ UNCHANGED hubVars
        /\ Reply(c, 1) \/ Goto(c, "un", [NoLoc EXCEPT !.names = M])
  BY <1>1, Zenon
<1> DEFINE l == [NoLoc EXCEPT !.names = M]
<1>3. l.todo = {} /\ "un" \notin Busy \cup {"bind"} /\ pc[c] \notin Busy
  BY <1>2, Zenon DEF NoLoc, Busy, Receive
<1>4. CASE Reply(c, 1)
  BY <1>2, <1>3, <1>4, QuietReply, Zenon
<1>5. CASE Goto(c, "un", l)
  BY <1>2, <1>3, <1>5, QuietGoto, Zenon
<1> QED BY <1>2, <1>4, <1>5, Zenon

\* Writing and delivering.
LEMMA QuietWrite ==
  ASSUME IInv, HubInv, NEW c \in Conns,
         \/ Hangup(c) \/ WriteReply(c) \/ WriteFailed(c)
         \/ Deliver(c) \/ Push(c) \/ Published(c)
  PROVE  Quiet(c)
<1>1. UNCHANGED <<hubVars, ctx>> /\ pc[c] \notin Busy
  BY Zenon DEF Hangup, WriteReply, WriteFailed, Deliver, Push, Published, Busy
<1>2. loc[c] \in LocType /\ \A r \in loc[c].todo : home[r[1]] # Nil
  BY Zenon DEF IInv, SessType, HubInv, TodoOK
<1>3. CASE Hangup(c) \/ WriteFailed(c)
  BY <1>1, <1>3, QuietLeave, Zenon DEF Hangup, WriteFailed
<1>4. CASE WriteReply(c)
  <2>1. CASE Leave(c)
    BY <1>1, <2>1, QuietLeave, Zenon
  <2>2. CASE Goto(c, "write", [loc[c] EXCEPT !.replies = @ - 1])
    <3> DEFINE l == [loc[c] EXCEPT !.replies = @ - 1]
    <3>1. l.todo = loc[c].todo /\ "write" \notin Busy \cup {"bind"}
      BY <1>2, Zenon DEF Busy, LocType
    <3> QED BY <1>1, <1>2, <2>2, <3>1, QuietGoto, ZenonT(30)
  <2>3. CASE Goto(c, "read", NoLoc)
    <3>1. NoLoc.todo = {} /\ "read" \notin Busy \cup {"bind"}
      BY Zenon DEF Busy, NoLoc
    <3> QED BY <1>1, <2>3, <3>1, QuietGoto, Zenon
  <2> QED BY <1>4, <2>1, <2>2, <2>3, Zenon DEF WriteReply
<1>5. CASE Deliver(c)
  <2>1. PICK r \in loc[c].todo :
          Goto(c, IF shut[r[1]] THEN "deliver" ELSE "push",
               [loc[c] EXCEPT !.todo = @ \ {r}, !.to = IF shut[r[1]] THEN Nil ELSE r[1]])
    BY <1>5, Zenon DEF Deliver
  <2> DEFINE to == IF shut[r[1]] THEN Nil ELSE r[1]
             a == IF shut[r[1]] THEN "deliver" ELSE "push"
             l == [loc[c] EXCEPT !.todo = @ \ {r}, !.to = to]
  <2>2. a \notin Busy \cup {"bind"} /\ Goto(c, a, l)
    BY <2>1, Zenon DEF Busy
  <2> HIDE DEF to, a
  <2>3. l.todo = loc[c].todo \ {r}
    BY <1>2, Zenon DEF LocType
  <2> HIDE DEF l
  <2> QED BY <1>1, <1>2, <2>2, <2>3, QuietGoto, Zenon
<1>6. CASE Push(c)
  <2> DEFINE l == [loc[c] EXCEPT !.to = Nil]
  <2>1. l.todo = loc[c].todo /\ "deliver" \notin Busy \cup {"bind"} /\ Goto(c, "deliver", l)
    BY <1>2, <1>6, Zenon DEF Busy, LocType, Push
  <2> QED BY <1>1, <1>2, <2>1, QuietGoto, Zenon
<1>7. CASE Published(c)
  BY <1>1, <1>7, QuietReply, Zenon DEF Published
<1> QED BY <1>3, <1>4, <1>5, <1>6, <1>7, Zenon

\* The slots of AUTH and of the teardown.
LEMMA QuietSlots ==
  ASSUME IInv, HubInv, NEW c \in Conns, AcquireConn(c) \/ SwapConn(c) \/ ReleaseTenantConn(c)
  PROVE  Quiet(c)
<1>1. UNCHANGED hubVars /\ pc[c] \notin Busy
  BY Zenon DEF AcquireConn, SwapConn, ReleaseTenantConn, Busy
<1>2. /\ loc[c] \in LocType /\ ctx[c] \in CtxType
      /\ \A r \in loc[c].todo : home[r[1]] # Nil
  BY Zenon DEF IInv, SessType, HubInv, TodoOK
<1>3. CASE DropOr(c, loc[c]) /\ ctx' = ctx
  <2> DEFINE a == IF ctx[c].pub # Nil THEN "shut" ELSE "bind"
             l == [loc[c] EXCEPT !.then = "bind"]
  <2>1. l.todo = loc[c].todo /\ a \notin Busy /\ (a = "bind" => ctx[c].pub = Nil)
    BY <1>2, Zenon DEF Busy, LocType
  <2>2. /\ pc'[c] = a /\ loc'[c] = l
        /\ \A d \in Conns \ {c} : pc'[d] = pc[d] /\ loc'[d] = loc[d]
    BY <1>3, Zenon DEF DropOr, Goto, IInv, SessType
  <2> HIDE DEF a, l
  <2> QED BY <1>1, <1>2, <1>3, <2>1, <2>2, Zenon DEF Quiet, Frame
<1>4. CASE AcquireConn(c)
  <2>1. ctx' = ctx /\ "swap" \notin Busy \cup {"bind"}
    BY <1>4, Zenon DEF AcquireConn, Busy
  <2>2. Reply(c, 1) \/ Goto(c, "swap", loc[c]) \/ DropOr(c, loc[c])
    BY <1>4, Zenon DEF AcquireConn
  <2>3. CASE Reply(c, 1)
    BY <1>1, <2>1, <2>3, QuietReply, Zenon
  <2>4. CASE Goto(c, "swap", loc[c])
    BY <1>1, <1>2, <2>1, <2>4, QuietGoto, Zenon
  <2> QED BY <1>3, <2>1, <2>2, <2>3, <2>4, Zenon
<1>5. CASE SwapConn(c)
  BY <1>3, <1>5, Zenon DEF SwapConn
<1>6. CASE ReleaseTenantConn(c)
  <2>1. /\ pc'[c] = "release" /\ loc'[c] = NoLoc
        /\ \A d \in Conns \ {c} : pc'[d] = pc[d] /\ loc'[d] = loc[d]
    BY <1>6, Zenon DEF ReleaseTenantConn, Goto, IInv, SessType
  <2>2. /\ ctx'[c] = [ctx[c] EXCEPT !.bound = FALSE]
        /\ \A d \in Conns \ {c} : ctx'[d] = ctx[d]
    BY <1>6, Zenon DEF ReleaseTenantConn, IInv, SessType
  <2>3. ctx'[c].pub = ctx[c].pub /\ ctx'[c].tenant = ctx[c].tenant
    BY <1>2, <2>2, Zenon DEF CtxType
  <2>4. NoLoc.todo = {} /\ "release" \notin Busy \cup {"bind"}
    BY Zenon DEF NoLoc, Busy
  <2> QED BY <1>1, <2>1, <2>2, <2>3, <2>4, Zenon DEF Quiet, Frame
<1> QED BY <1>4, <1>5, <1>6, Zenon

\* The start and the end of a session's goroutine.
LEMMA QuietEnds ==
  ASSUME IInv, HubInv, NEW c \in Conns,
         releaseClient(c) \/ untrack(c) \/ CloseConn(c) \/ (c = acc.conn /\ Spawn)
  PROVE  Quiet(c)
<1>1. UNCHANGED <<hubVars, loc, ctx>>
  BY Zenon DEF releaseClient, untrack, CloseConn, Spawn
<1>2. \E a \in {"untrack", "close", "done", "read"} : pc' = [pc EXCEPT ![c] = a]
  BY Zenon DEF releaseClient, untrack, CloseConn, Spawn
<1>3. pc'[c] \notin Busy \cup {"bind"} /\ \A d \in Conns \ {c} : pc'[d] = pc[d]
  BY <1>2, Zenon DEF IInv, SessType, Busy
<1>4. pc[c] \notin Busy
  BY Zenon DEF releaseClient, untrack, CloseConn, Spawn, Busy, IInv, AcceptOK, InHand
<1> QED BY <1>1, <1>3, <1>4, Zenon DEF Quiet, Frame, HubInv, TodoOK

\* What the critical sections of the hub do, membership by membership: subscribeChannel, ...
LEMMA RegisterEffect ==
  ASSUME HubTypeOK, NEW x \in Clients, home[x] \in Tenants, NEW n \in Names, Register(x, n)
  PROVE  \A t \in Tenants, m \in Names, y \in Clients :
           y \in hub'[t][m] <=> y \in hub[t][m] \/ (t = home[x] /\ m = n /\ y = x)
<1>1. \A t \in Tenants, m \in Names :
        hub'[t][m] = IF t = home[x] /\ m = n THEN hub[t][m] \cup {x} ELSE hub[t][m]
  BY Zenon DEF Register, HubTypeOK
<1> SUFFICES ASSUME NEW t \in Tenants, NEW m \in Names, NEW y \in Clients
             PROVE  y \in hub'[t][m] <=> y \in hub[t][m] \/ (t = home[x] /\ m = n /\ y = x)
  BY Zenon
<1>2. CASE t = home[x] /\ m = n
  BY <1>1, <1>2, Zenon
<1>3. CASE ~ (t = home[x] /\ m = n)
  BY <1>1, <1>3, Zenon
<1> QED BY <1>2, <1>3, Zenon

\* ... and unsubscribeChannels.
LEMMA UnregisterEffect ==
  ASSUME HubTypeOK, NEW x \in Clients, home[x] \in Tenants, NEW N, Unregister(x, N)
  PROVE  \A t \in Tenants, m \in Names, y \in Clients :
           y \in hub'[t][m] <=> y \in hub[t][m] /\ ~ (t = home[x] /\ m \in N /\ y = x)
<1>1. \A t \in Tenants, m \in Names :
        hub'[t][m] = IF t = home[x] /\ m \in N THEN hub[t][m] \ {x} ELSE hub[t][m]
  BY Zenon DEF Unregister, HubTypeOK
<1> SUFFICES ASSUME NEW t \in Tenants, NEW m \in Names, NEW y \in Clients
             PROVE  y \in hub'[t][m] <=> y \in hub[t][m] /\ ~ (t = home[x] /\ m \in N /\ y = x)
  BY Zenon
<1>2. CASE t = home[x] /\ m \in N
  BY <1>1, <1>2, ZenonT(30)
<1>3. CASE ~ (t = home[x] /\ m \in N)
  BY <1>1, <1>3, Zenon
<1> QED BY <1>2, <1>3, Zenon

\* A client that PUBLISH copied is a client.
LEMMA TodoClient ==
  ASSUME IInv, NEW c \in Conns, NEW r \in loc[c].todo
  PROVE  r[1] \in Clients
<1>1. loc[c] \in LocType
  BY Zenon DEF IInv, SessType
<1>2. loc[c].todo \subseteq Clients \X Names
  BY <1>1, Zenon DEF LocType
<1> QED BY <1>2, Zenon

\* A session's client is the session's own, on the hub of the session's tenant.
LEMMA OwnClient ==
  ASSUME IInv, HubInv, NEW c \in Conns, ctx[c].pub # Nil
  PROVE  /\ ctx[c].pub \in Clients /\ Owner[ctx[c].pub] = c
         /\ home[ctx[c].pub] = ctx[c].tenant /\ ctx[c].tenant \in Tenants
         /\ home[ctx[c].pub] # Nil
         /\ pc[c] \in {"unsub", "punsub", "bind"} =>
              shut[ctx[c].pub] /\ subs[ctx[c].pub] = {}
<1>1. ctx[c] \in CtxType /\ LocalOK(pc[c], loc[c], ctx[c])
  BY Zenon DEF IInv, SessType, SessionsOK
<1>2. ctx[c].pub \in Clients
  BY <1>1, Zenon DEF CtxType
<1>3. ctx[c].tenant \in Tenants
  BY <1>1, Zenon DEF LocalOK
<1>4. PubOK
  BY Zenon DEF HubInv
<1>5. /\ Owner[ctx[c].pub] = c /\ home[ctx[c].pub] = ctx[c].tenant
      /\ pc[c] \in {"unsub", "punsub", "bind"} =>
           shut[ctx[c].pub] /\ subs[ctx[c].pub] = {}
  BY <1>4, Zenon DEF PubOK
<1>6. ctx[c].tenant # Nil
  BY <1>3, HubAssumption, Zenon
<1> QED BY <1>2, <1>3, <1>5, <1>6, Zenon

\* A client is in the sets of its own hub that it is expected in.
LEMMA OwnRegistrations ==
  ASSUME HubInv, NEW x \in Clients, home[x] \in Tenants
  PROVE  \A m \in Names : x \in hub[home[x]][m] <=> m \in Expected(x)
BY Zenon DEF HubInv, HubAgrees

\* Such a step keeps the hubs' invariant.
LEMMA MovedKeeps ==
  ASSUME IInv, HubInv, NEW c \in Conns, NEW x \in Clients, x = ctx[c].pub, Moved(c, x)
  PROVE  HubInv'
<1>1. /\ PubOK /\ TodoOK /\ HubAgrees /\ Frame(c) /\ home' = home
      /\ x # Nil /\ Owner[x] = c /\ ctx'[c] = ctx[c]
      /\ \A y \in Clients \ {x} : subs'[y] = subs[y] /\ shut'[y] = shut[y]
  <2>1. x # Nil
    BY HubAssumption, Zenon
  <2>2. Owner[x] = c
    BY <2>1, OwnClient, Zenon
  <2> QED BY <2>1, <2>2, Zenon DEF HubInv, Moved
<1>2. home[x] \in Tenants
  BY <1>1, OwnClient, Zenon
<1>3. \A y \in Clients : Owner[y] \in Conns
  BY HubAssumption, Zenon
<1>4. \A d \in Conns : ctx'[d] = ctx[d]
  BY <1>1, Zenon DEF Frame
<1>5. \A y \in Clients \ {x} : Expected(y)' = Expected(y)
  <2> SUFFICES ASSUME NEW y \in Clients \ {x} PROVE Expected(y)' = Expected(y)
    BY Zenon
  <2>1. CASE Owner[y] # c
    BY <1>1, <1>3, <2>1, Zenon DEF Expected, Frame
  <2>2. CASE Owner[y] = c
    BY <1>1, <2>2, Zenon DEF Expected
  <2> QED BY <2>1, <2>2, Zenon
<1>6. HubAgrees'
  <2> SUFFICES ASSUME NEW t \in Tenants, NEW n \in Names, NEW y \in Clients
               PROVE  y \in hub'[t][n] <=> home'[y] = t /\ n \in Expected(y)'
    BY Zenon DEF HubAgrees
  <2>0. home'[y] = home[y]
    BY <1>1, Zenon
  <2>1. y \in hub[t][n] <=> home[y] = t /\ n \in Expected(y)
    BY <1>1, Zenon DEF HubAgrees
  <2>2. y # x \/ t # home[x] => (y \in hub'[t][n] <=> y \in hub[t][n])
    BY Zenon DEF Moved
  <2>3. CASE y # x
    BY <1>5, <2>0, <2>1, <2>2, <2>3, Zenon
  <2>4. CASE y = x /\ t # home[x]
    BY <2>0, <2>1, <2>2, <2>4, Zenon
  <2>5. CASE y = x /\ t = home[x]
    BY <2>0, <2>5, Zenon DEF Moved
  <2> QED BY <2>3, <2>4, <2>5, Zenon
<1>7. TodoOK'
  <2> SUFFICES ASSUME NEW d \in Conns, NEW r \in loc'[d].todo PROVE home[r[1]] # Nil
    BY <1>1, Zenon DEF TodoOK
  <2>1. loc'[d].todo \subseteq loc[d].todo
    BY <1>1, Zenon DEF Moved, Frame
  <2>2. r \in loc[d].todo
    BY <2>1, Zenon
  <2> QED BY <1>1, <2>2, Zenon DEF TodoOK
<1>8. PubOK'
  <2>1. ASSUME NEW d \in Conns, ctx[d].pub # Nil
        PROVE  /\ Owner[ctx[d].pub] = d /\ home[ctx[d].pub] = ctx[d].tenant
               /\ pc'[d] \in {"unsub", "punsub", "bind"} =>
                    shut'[ctx[d].pub] /\ subs'[ctx[d].pub] = {}
    <3>1. /\ ctx[d].pub \in Clients /\ Owner[ctx[d].pub] = d /\ home[ctx[d].pub] = ctx[d].tenant
          /\ pc[d] \in {"unsub", "punsub", "bind"} =>
               shut[ctx[d].pub] /\ subs[ctx[d].pub] = {}
      BY <2>1, OwnClient, Zenon
    <3>2. CASE d = c
      BY <3>1, <3>2, Zenon DEF Moved
    <3>3. CASE d # c
      <4>1. pc'[d] = pc[d]
        BY <1>1, <3>3, Zenon DEF Frame
      <4>2. ctx[d].pub # x
        BY <1>1, <3>1, <3>3, Zenon
      <4>3. subs'[ctx[d].pub] = subs[ctx[d].pub] /\ shut'[ctx[d].pub] = shut[ctx[d].pub]
        BY <1>1, <3>1, <4>2, Zenon
      <4> QED BY <3>1, <4>1, <4>3, Zenon
    <3> QED BY <3>2, <3>3, Zenon
  <2>2. ASSUME NEW y \in Clients
        PROVE  /\ home[y] = Nil => subs'[y] = {}
               /\ home[y] # Nil /\ ~ shut'[y] => ctx[Owner[y]].pub = y
    <3>1. CASE y = x
      BY <1>1, <1>2, <3>1, HubAssumption, Zenon
    <3>2. CASE y # x
      BY <1>1, <3>2, Zenon DEF PubOK
    <3> QED BY <3>1, <3>2, Zenon
  <2>3. ASSUME NEW d \in Conns, ctx'[d].pub # Nil
        PROVE  /\ Owner[ctx'[d].pub] = d /\ home'[ctx'[d].pub] = ctx'[d].tenant
               /\ pc'[d] \in {"unsub", "punsub", "bind"} =>
                    shut'[ctx'[d].pub] /\ subs'[ctx'[d].pub] = {}
    BY <1>1, <1>4, <2>1, <2>3, Zenon
  <2>4. ASSUME NEW y \in Clients
        PROVE  /\ home'[y] = Nil => subs'[y] = {}
               /\ home'[y] # Nil /\ ~ shut'[y] => ctx'[Owner[y]].pub = y
    BY <1>1, <1>3, <1>4, <2>2, Zenon
  <2> QED BY <2>3, <2>4, Zenon DEF PubOK
<1> QED BY <1>6, <1>7, <1>8, Zenon DEF HubInv

\* One name, in the hub.
LEMMA NameInHub ==
  ASSUME IInv, HubInv, NEW c \in Conns, SubscribeHub(c) \/ UnsubscribeHub(c)
  PROVE  HubInv'
<1> DEFINE x == ctx[c].pub
<1>1. /\ LocalOK(pc[c], loc[c], ctx[c]) /\ loc[c] \in LocType /\ ctx[c] \in CtxType
      /\ pc[c] \in {"sub", "un"} /\ UNCHANGED <<home, subs, shut, ctx>> /\ HubTypeOK
  BY Zenon DEF IInv, SessType, SessionsOK, SubscribeHub, UnsubscribeHub
<1>2. /\ x \in Clients /\ x # Nil /\ Owner[x] = c /\ home[x] = ctx[c].tenant
      /\ home[x] \in Tenants
  BY <1>1, HubAssumption, Zenon DEF LocalOK, CtxType, HubInv, PubOK
<1>3. PICK n \in loc[c].names, a \in {"sub2", "un2"} :
        /\ Goto(c, a, [loc[c] EXCEPT !.names = @ \ {n}, !.name = n, !.replies = @ + 1])
        /\ a = "sub2" => Register(x, n)
        /\ a = "un2" => Unregister(x, {n})
  BY Zenon DEF SubscribeHub, UnsubscribeHub
<1> DEFINE l == [loc[c] EXCEPT !.names = @ \ {n}, !.name = n, !.replies = @ + 1]
<1>4. l.name = n /\ l.todo = loc[c].todo /\ n \in Names
  BY <1>1, Zenon DEF LocType
<1>5. Goto(c, a, l)
  BY <1>3, Zenon
<1> HIDE DEF l
<1>6. pc'[c] = a /\ loc'[c] = l /\ ctx'[c] = ctx[c] /\ Frame(c)
  BY <1>1, <1>5, Zenon DEF Goto, Frame, IInv, SessType
<1>7. Expected(x) = subs[x]
  BY <1>1, <1>2, Zenon DEF Expected
<1>8. Expected(x)' = IF a = "sub2" THEN subs[x] \cup {n} ELSE subs[x] \ {n}
  BY <1>1, <1>2, <1>4, <1>6, Zenon DEF Expected
<1>9. \A m \in Names : x \in hub[home[x]][m] <=> m \in subs[x]
  BY <1>2, <1>7, OwnRegistrations, Zenon
<1>10. Moved(c, x)
  <2>1. CASE a = "sub2"
    <3>1. \A t \in Tenants, m \in Names, y \in Clients :
            y \in hub'[t][m] <=> y \in hub[t][m] \/ (t = home[x] /\ m = n /\ y = x)
      <4>1. Register(x, n)
        BY <1>3, <2>1, Zenon
      <4>2. HubTypeOK /\ x \in Clients /\ home[x] \in Tenants /\ n \in Names
        BY <1>1, <1>2, <1>4, Zenon
      <4> HIDE DEF x
      <4> QED BY <4>1, <4>2, RegisterEffect, Zenon
    <3>2. \A m \in Names : x \in hub'[home[x]][m] <=> m \in Expected(x)'
      <4> TAKE m \in Names
      <4>1. x \in hub'[home[x]][m] <=> m \in subs[x] \/ m = n
        BY <1>2, <1>9, <3>1, Zenon
      <4> QED BY <1>8, <2>1, <4>1, Zenon
    <3>3. \A t \in Tenants, m \in Names, y \in Clients :
            y # x \/ t # home[x] => (y \in hub'[t][m] <=> y \in hub[t][m])
      BY <3>1, Zenon
    <3> QED BY <1>1, <1>4, <1>6, <2>1, <3>2, <3>3, Zenon DEF Moved
  <2>2. CASE a = "un2"
    <3>1. \A t \in Tenants, m \in Names, y \in Clients :
            y \in hub'[t][m] <=> y \in hub[t][m] /\ ~ (t = home[x] /\ m \in {n} /\ y = x)
      <4>1. Unregister(x, {n})
        BY <1>3, <2>2, Zenon
      <4>2. HubTypeOK /\ x \in Clients /\ home[x] \in Tenants
        BY <1>1, <1>2, Zenon
      <4> HIDE DEF x
      <4> QED BY <4>1, <4>2, UnregisterEffect
    <3>2. \A m \in Names : x \in hub'[home[x]][m] <=> m \in Expected(x)'
      <4> TAKE m \in Names
      <4>1. x \in hub'[home[x]][m] <=> m \in subs[x] /\ m # n
        BY <1>2, <1>9, <3>1, Zenon
      <4>2. Expected(x)' = subs[x] \ {n}
        BY <1>8, <2>2, Zenon
      <4> QED BY <4>1, <4>2, Zenon
    <3>3. \A t \in Tenants, m \in Names, y \in Clients :
            y # x \/ t # home[x] => (y \in hub'[t][m] <=> y \in hub[t][m])
      BY <3>1, Zenon
    <3> QED BY <1>1, <1>4, <1>6, <2>2, <3>2, <3>3, Zenon DEF Moved
  <2> QED BY <2>1, <2>2, Zenon
<1> QED BY <1>2, <1>10, MovedKeeps, Zenon

\* The same name, in the client's set.
LEMMA NameInSet ==
  ASSUME IInv, HubInv, NEW c \in Conns, SubscribeSet(c) \/ UnsubscribeSet(c)
  PROVE  HubInv'
<1> DEFINE x == ctx[c].pub
           l == [loc[c] EXCEPT !.name = Nil]
<1>1. /\ LocalOK(pc[c], loc[c], ctx[c]) /\ loc[c] \in LocType /\ ctx[c] \in CtxType
      /\ pc[c] \in {"sub2", "un2"} /\ UNCHANGED <<hub, home, shut, ctx>> /\ HubTypeOK
  BY Zenon DEF IInv, SessType, SessionsOK, SubscribeSet, UnsubscribeSet
<1>2. /\ x \in Clients /\ x # Nil /\ Owner[x] = c /\ home[x] = ctx[c].tenant
      /\ home[x] \in Tenants
  BY <1>1, HubAssumption, Zenon DEF LocalOK, CtxType, HubInv, PubOK
<1>3. PICK a \in {"sub", "un", "write"} : Goto(c, a, l)
  BY Zenon DEF SubscribeSet, UnsubscribeSet, NextName
<1>4. l.todo = loc[c].todo
  BY <1>1, Zenon DEF LocType
<1> HIDE DEF l
<1>5. pc'[c] = a /\ loc'[c] = l /\ ctx'[c] = ctx[c] /\ Frame(c)
  BY <1>1, <1>3, Zenon DEF Goto, Frame, IInv, SessType
<1>6. /\ subs'[x] = Expected(x)
      /\ \A y \in Clients \ {x} : subs'[y] = subs[y]
  BY <1>1, <1>2, ZenonT(30) DEF Expected, SubscribeSet, UnsubscribeSet, HubTypeOK
<1>7. Expected(x)' = subs'[x]
  BY <1>1, <1>2, <1>5, Zenon DEF Expected
<1>8. \A m \in Names : x \in hub[home[x]][m] <=> m \in Expected(x)
  BY <1>2, OwnRegistrations, Zenon
<1>9. Moved(c, x)
  BY <1>1, <1>4, <1>5, <1>6, <1>7, <1>8, Zenon DEF Moved
<1> QED BY <1>2, <1>9, MovedKeeps, Zenon

\* Client.Close: the client's set first, then the hub's channels, then its patterns.
LEMMA CloseKeeps ==
  ASSUME IInv, HubInv, NEW c \in Conns, CloseMark(c) \/ CloseChannels(c) \/ ClosePatterns(c)
  PROVE  HubInv'
<1> DEFINE x == ctx[c].pub
<1>1. /\ LocalOK(pc[c], loc[c], ctx[c]) /\ loc[c] \in LocType /\ ctx[c] \in CtxType
      /\ pc[c] \in Dropping /\ UNCHANGED <<home, ctx>> /\ HubTypeOK
  BY Zenon DEF IInv, SessType, SessionsOK, CloseMark, CloseChannels, ClosePatterns, Dropping
<1>2. /\ x \in Clients /\ x # Nil /\ Owner[x] = c /\ home[x] = ctx[c].tenant
      /\ home[x] \in Tenants
      /\ pc[c] \in {"unsub", "punsub"} => shut[x] /\ subs[x] = {}
  BY <1>1, HubAssumption, Zenon DEF LocalOK, CtxType, HubInv, PubOK
<1>3. \A m \in Names : x \in hub[home[x]][m] <=> m \in Expected(x)
  BY <1>2, OwnRegistrations, Zenon
<1>4. ASSUME NEW a, NEW N, Goto(c, a, [loc[c] EXCEPT !.names = N])
      PROVE  /\ pc'[c] = a /\ loc'[c].names = N /\ loc'[c].todo = loc[c].todo
             /\ ctx'[c] = ctx[c] /\ Frame(c)
  <2> DEFINE l == [loc[c] EXCEPT !.names = N]
  <2>1. l.names = N /\ l.todo = loc[c].todo
    BY <1>1, Zenon DEF LocType
  <2>2. Goto(c, a, l)
    BY <1>4, Zenon
  <2> HIDE DEF l
  <2>3. pc'[c] = a /\ loc'[c] = l /\ ctx'[c] = ctx[c] /\ Frame(c)
    BY <1>1, <2>2, Zenon DEF Goto, Frame, IInv, SessType
  <2> QED BY <2>1, <2>3, Zenon
<1>5. CASE CloseMark(c)
  <2>1. /\ pc'[c] = "unsub" /\ loc'[c].names = subs[x] /\ loc'[c].todo = loc[c].todo
        /\ ctx'[c] = ctx[c] /\ Frame(c)
    BY <1>4, <1>5, Zenon DEF CloseMark
  <2>2. /\ shut'[x] /\ subs'[x] = {} /\ hub' = hub
        /\ \A y \in Clients \ {x} : subs'[y] = subs[y] /\ shut'[y] = shut[y]
    BY <1>1, <1>2, <1>5, ZenonT(30) DEF CloseMark, HubTypeOK
  <2>3. Expected(x) = subs[x] /\ Expected(x)' = subs[x]
    BY <1>1, <1>2, <1>5, <2>1, Zenon DEF Expected, CloseMark
  <2>4. \A m \in Names : x \in hub'[home[x]][m] <=> m \in Expected(x)'
    <3> TAKE m \in Names
    <3>1. hub'[home[x]][m] = hub[home[x]][m] /\ Expected(x)' = Expected(x)
      BY <2>2, <2>3, Zenon
    <3> QED BY <1>3, <3>1, Zenon
  <2>5. Moved(c, x)
    BY <1>1, <2>1, <2>2, <2>4, Zenon DEF Moved
  <2> QED BY <1>2, <2>5, MovedKeeps, Zenon
<1>6. CASE CloseChannels(c)
  <2>1. /\ pc'[c] = "punsub" /\ loc'[c].names = loc[c].names \ Channels
        /\ loc'[c].todo = loc[c].todo /\ ctx'[c] = ctx[c] /\ Frame(c)
    BY <1>4, <1>6, ZenonT(30) DEF CloseChannels
  <2>2. subs' = subs /\ shut' = shut /\ pc[c] = "unsub"
    BY <1>6, Zenon DEF CloseChannels
  <2>3. \A t \in Tenants, m \in Names, y \in Clients :
          y \in hub'[t][m] <=> /\ y \in hub[t][m]
                               /\ ~ (t = home[x] /\ m \in loc[c].names \cap Channels /\ y = x)
    BY <1>1, <1>2, <1>6, UnregisterEffect DEF CloseChannels
  <2>4. Expected(x) = loc[c].names /\ Expected(x)' = loc[c].names \ Channels
    BY <1>1, <1>2, <2>1, <2>2, Zenon DEF Expected
  <2>5. \A m \in Names : x \in hub'[home[x]][m] <=> m \in Expected(x)'
    <3> TAKE m \in Names
    <3>1. x \in hub'[home[x]][m] <=> x \in hub[home[x]][m] /\ m \notin loc[c].names \cap Channels
      BY <1>2, <2>3, Zenon
    <3>2. x \in hub[home[x]][m] <=> m \in loc[c].names
      BY <1>3, <2>4, Zenon
    <3> QED BY <2>4, <3>1, <3>2, Zenon
  <2>6. Moved(c, x)
    BY <1>1, <1>2, <2>1, <2>2, <2>3, <2>5, Zenon DEF Moved
  <2> QED BY <1>2, <2>6, MovedKeeps, Zenon
<1>7. CASE ClosePatterns(c)
  <2>1. /\ pc'[c] = loc[c].then /\ loc'[c].names = {}
        /\ loc'[c].todo = loc[c].todo /\ ctx'[c] = ctx[c] /\ Frame(c)
    BY <1>4, <1>7, ZenonT(30) DEF ClosePatterns
  <2>2. subs' = subs /\ shut' = shut /\ pc[c] = "punsub" /\ pc'[c] \in {"leave", "bind"}
    BY <1>1, <1>7, <2>1, Zenon DEF ClosePatterns, LocType
  <2>3. \A t \in Tenants, m \in Names, y \in Clients :
          y \in hub'[t][m] <=> y \in hub[t][m] /\ ~ (t = home[x] /\ m \in loc[c].names /\ y = x)
    BY <1>1, <1>2, <1>7, UnregisterEffect DEF ClosePatterns
  <2>4. Expected(x) = loc[c].names /\ Expected(x)' = {}
    BY <1>1, <1>2, <2>1, <2>2, Zenon DEF Expected
  <2>5. \A m \in Names : x \in hub'[home[x]][m] <=> m \in Expected(x)'
    <3> TAKE m \in Names
    <3>1. x \in hub'[home[x]][m] <=> x \in hub[home[x]][m] /\ m \notin loc[c].names
      BY <1>2, <2>3, Zenon
    <3>2. x \in hub[home[x]][m] <=> m \in loc[c].names
      BY <1>3, <2>4, Zenon
    <3> QED BY <2>4, <3>1, <3>2, Zenon
  <2>6. Moved(c, x)
    BY <1>1, <1>2, <2>1, <2>2, <2>3, <2>5, Zenon DEF Moved
  <2> QED BY <1>2, <2>6, MovedKeeps, Zenon
<1> QED BY <1>5, <1>6, <1>7, Zenon

\* The session gets another client, or none: what keeps the hubs' invariant.
LEMMA ChangedKeeps ==
  ASSUME IInv, HubInv, NEW c \in Conns, Frame(c), UNCHANGED <<hub, subs, shut>>,
         pc[c] \notin Busy, pc'[c] \notin Busy \cup {"bind"}, loc'[c].todo = {},
         ctx[c].pub # Nil => shut[ctx[c].pub] /\ subs[ctx[c].pub] = {},
         \/ ctx'[c].pub = Nil /\ home' = home
         \/ /\ ctx'[c].pub \in Clients /\ Owner[ctx'[c].pub] = c /\ home[ctx'[c].pub] = Nil
            /\ ctx'[c].tenant \in Tenants
            /\ home' = [home EXCEPT ![ctx'[c].pub] = ctx'[c].tenant]
  PROVE  HubInv'
<1> DEFINE z == ctx'[c].pub
<1>1. PubOK /\ TodoOK /\ HubAgrees /\ HubTypeOK
  BY Zenon DEF HubInv, IInv
<1>2. \A y \in Clients : Owner[y] \in Conns
  BY HubAssumption, Zenon
<1>3. /\ \A y \in Clients : y # z => home'[y] = home[y]
      /\ z # Nil => /\ z \in Clients /\ Owner[z] = c /\ home[z] = Nil
                    /\ home'[z] = ctx'[c].tenant /\ home'[z] \in Tenants
  <2>1. CASE z = Nil /\ home' = home
    BY <2>1, Zenon
  <2>2. CASE /\ z \in Clients /\ Owner[z] = c /\ home[z] = Nil /\ ctx'[c].tenant \in Tenants
             /\ home' = [home EXCEPT ![z] = ctx'[c].tenant]
    <3>1. DOMAIN home = Clients
      BY <1>1, Zenon DEF HubTypeOK
    <3> HIDE DEF z
    <3>2. home'[z] = ctx'[c].tenant /\ \A y \in Clients : y # z => home'[y] = home[y]
      BY <2>2, <3>1, Zenon
    <3> QED BY <2>2, <3>2, Zenon
  <2> QED BY <2>1, <2>2, Zenon
<1>4. \A d \in Conns : ctx[d].pub # Nil => ctx[d].pub \in Clients /\ home[ctx[d].pub] # Nil
  BY OwnClient, Zenon
<1>5. \A y \in Clients : Expected(y)' = Expected(y)
  <2> SUFFICES ASSUME NEW y \in Clients PROVE Expected(y)' = Expected(y)
    BY Zenon
  <2>1. CASE Owner[y] # c
    BY <1>2, <2>1, ZenonT(30) DEF Expected, Frame
  <2>2. CASE Owner[y] = c
    <3>1. ctx[c].pub = y => subs[y] = {}
      BY HubAssumption, Zenon
    <3>2. z = y => subs[y] = {}
      <4>1. y # Nil /\ (home[y] = Nil => subs[y] = {})
        BY <1>1, HubAssumption, Zenon DEF PubOK
      <4> QED BY <1>3, <4>1, Zenon
    <3>3. Expected(y) = {}
      BY <2>2, <3>1, Zenon DEF Expected, Busy
    <3>4. Expected(y)' = {}
      BY <2>2, <3>2, Zenon DEF Expected, Busy
    <3> QED BY <3>3, <3>4, Zenon
  <2> QED BY <2>1, <2>2, Zenon
<1>6. HubAgrees'
  <2> SUFFICES ASSUME NEW t \in Tenants, NEW n \in Names, NEW y \in Clients
               PROVE  y \in hub'[t][n] <=> home'[y] = t /\ n \in Expected(y)'
    BY Zenon DEF HubAgrees
  <2>0. /\ hub' = hub /\ Expected(y)' = Expected(y)
        /\ y \in hub[t][n] <=> home[y] = t /\ n \in Expected(y)
    BY <1>1, <1>5, Zenon DEF HubAgrees
  <2>1. CASE y # z
    <3>1. home'[y] = home[y]
      BY <1>3, <2>1, Zenon
    <3> QED BY <2>0, <3>1, Zenon
  <2>2. CASE y = z
    <3>1. home[y] = Nil /\ Owner[y] = c /\ subs[y] = {}
      BY <1>1, <1>3, <2>2, HubAssumption, Zenon DEF PubOK
    <3>2. Expected(y) = {}
      BY <3>1, Zenon DEF Expected, Busy
    <3> QED BY <2>0, <3>2, Zenon
  <2> QED BY <2>1, <2>2, Zenon
<1>7. \A y \in Clients : home[y] # Nil => home'[y] = home[y]
  BY <1>3, HubAssumption, Zenon
<1>8. TodoOK'
  <2> SUFFICES ASSUME NEW d \in Conns, NEW r \in loc'[d].todo PROVE home'[r[1]] # Nil
    BY Zenon DEF TodoOK
  <2>1. d # c /\ loc'[d] = loc[d]
    BY Zenon DEF Frame
  <2>2. r[1] \in Clients
    BY <2>1, TodoClient, Zenon
  <2> QED BY <1>1, <1>7, <2>1, <2>2, Zenon DEF TodoOK
<1>9. PubOK'
  <2>1. ASSUME NEW d \in Conns, ctx'[d].pub # Nil
        PROVE  /\ Owner[ctx'[d].pub] = d /\ home'[ctx'[d].pub] = ctx'[d].tenant
               /\ pc'[d] \in {"unsub", "punsub", "bind"} =>
                    shut[ctx'[d].pub] /\ subs[ctx'[d].pub] = {}
    <3>1. CASE d = c
      BY <1>3, <2>1, <3>1, Zenon DEF Busy
    <3>2. CASE d # c
      <4>1. ctx'[d] = ctx[d] /\ pc'[d] = pc[d]
        BY <3>2, Zenon DEF Frame
      <4>2. /\ ctx[d].pub \in Clients /\ Owner[ctx[d].pub] = d
            /\ home[ctx[d].pub] = ctx[d].tenant /\ home[ctx[d].pub] # Nil
            /\ pc[d] \in {"unsub", "punsub", "bind"} =>
                 shut[ctx[d].pub] /\ subs[ctx[d].pub] = {}
        <5>1. ctx[d].pub # Nil
          BY <2>1, <4>1, Zenon
        <5> QED BY <5>1, OwnClient, Zenon
      <4> QED BY <1>7, <4>1, <4>2, Zenon
    <3> QED BY <3>1, <3>2, Zenon
  <2>2. ASSUME NEW y \in Clients
        PROVE  /\ home'[y] = Nil => subs[y] = {}
               /\ home'[y] # Nil /\ ~ shut[y] => ctx'[Owner[y]].pub = y
    <3>1. CASE y = z
      BY <1>3, <3>1, HubAssumption, Zenon
    <3>2. CASE y # z
      <4>1. home'[y] = home[y]
        BY <1>3, <3>2, Zenon
      <4>0. /\ home[y] = Nil => subs[y] = {}
            /\ home[y] # Nil /\ ~ shut[y] => ctx[Owner[y]].pub = y
        BY <1>1, Zenon DEF PubOK
      <4>2. CASE Owner[y] # c
        <5>1. ctx'[Owner[y]] = ctx[Owner[y]]
          BY <1>2, <4>2, Zenon DEF Frame
        <5> QED BY <4>0, <4>1, <5>1, Zenon
      <4>3. CASE Owner[y] = c
        <5>1. y # Nil
          BY HubAssumption, Zenon
        <5>2. ~ (home[y] # Nil /\ ~ shut[y])
          BY <4>0, <4>3, <5>1, Zenon
        <5> QED BY <4>0, <4>1, <5>2, Zenon
      <4> QED BY <4>2, <4>3, Zenon
    <3> QED BY <3>1, <3>2, Zenon
  <2> QED BY <2>1, <2>2, Zenon DEF PubOK
<1> QED BY <1>6, <1>8, <1>9, Zenon DEF HubInv

\* The end of AUTH: the session has no client any more.
LEMMA BindKeeps ==
  ASSUME IInv, HubInv, NEW c \in Conns, Bind(c)
  PROVE  HubInv'
<1> DEFINE l == [NoLoc EXCEPT !.replies = 1]
<1>1. pc'[c] = "write" /\ loc'[c] = l /\ ctx'[c].pub = Nil /\ Frame(c)
  BY Zenon DEF Bind, Reply, Goto, Frame, IInv, SessType
<1>2. l.todo = {} /\ UNCHANGED <<hub, home, subs, shut>> /\ pc[c] = "bind"
  BY Zenon DEF Bind, NoLoc, hubVars
<1>3. ctx[c].pub # Nil => shut[ctx[c].pub] /\ subs[ctx[c].pub] = {}
  BY <1>2, Zenon DEF HubInv, PubOK
<1>4. pc[c] \notin Busy /\ pc'[c] \notin Busy \cup {"bind"}
  BY <1>1, <1>2, Zenon DEF Busy
<1> QED BY <1>1, <1>2, <1>3, <1>4, ChangedKeeps, Zenon

\* SUBSCRIBE, with the first client of the session or with the one it has.
LEMMA SubscribeKeeps ==
  ASSUME IInv, HubInv, NEW c \in Conns, Subscribe(c)
  PROVE  HubInv'
<1>1. PICK kind \in Kinds("SUBSCRIBE", "PSUBSCRIBE") : \E N \in SUBSET kind[2] \ {{}} :
        /\ Receive(c, kind[1]) /\ UNCHANGED <<hub, subs, shut>>
        /\ IF ~ HasTenant(c)
           THEN AutoBind(c) /\ Reply(c, 1) /\ UNCHANGED home
           ELSE /\ Goto(c, "sub", [NoLoc EXCEPT !.names = N])
                /\ IF ctx[c].pub # Nil
                   THEN AutoBind(c) /\ UNCHANGED home
                   ELSE /\ Fresh(c) # {}
                        /\ home' = [home EXCEPT ![NewClient(c)] = Tenant(c)]
                        /\ ctx' = [ctx EXCEPT ![c].tenant = Tenant(c), ![c].pub = NewClient(c)]
  BY Zenon DEF Subscribe
<1>2. PICK N \in SUBSET kind[2] \ {{}} :
        /\ Receive(c, kind[1]) /\ UNCHANGED <<hub, subs, shut>>
        /\ IF ~ HasTenant(c)
           THEN AutoBind(c) /\ Reply(c, 1) /\ UNCHANGED home
           ELSE /\ Goto(c, "sub", [NoLoc EXCEPT !.names = N])
                /\ IF ctx[c].pub # Nil
                   THEN AutoBind(c) /\ UNCHANGED home
                   ELSE /\ Fresh(c) # {}
                        /\ home' = [home EXCEPT ![NewClient(c)] = Tenant(c)]
                        /\ ctx' = [ctx EXCEPT ![c].tenant = Tenant(c), ![c].pub = NewClient(c)]
  BY <1>1, Zenon
<1> DEFINE l == [NoLoc EXCEPT !.names = N]
<1>3. l.todo = {} /\ pc[c] \notin Busy /\ "sub" \notin Busy \cup {"bind"}
  BY <1>2, Zenon DEF NoLoc, Receive, Busy
<1>4. CASE AutoBind(c) /\ Reply(c, 1) /\ UNCHANGED home
  BY <1>2, <1>3, <1>4, QuietReply, QuietKeeps, Zenon DEF hubVars
<1>5. CASE Goto(c, "sub", l) /\ AutoBind(c) /\ UNCHANGED home
  BY <1>2, <1>3, <1>5, QuietGoto, QuietKeeps, Zenon DEF hubVars
<1>6. CASE /\ HasTenant(c) /\ ctx[c].pub = Nil /\ Goto(c, "sub", l) /\ Fresh(c) # {}
           /\ home' = [home EXCEPT ![NewClient(c)] = Tenant(c)]
           /\ ctx' = [ctx EXCEPT ![c].tenant = Tenant(c), ![c].pub = NewClient(c)]
  <2> DEFINE x == [ctx[c] EXCEPT !.tenant = Tenant(c), !.pub = NewClient(c)]
  <2>1. ctx[c] \in CtxType
    BY Zenon DEF IInv, SessType
  <2>2. Tenant(c) \in Tenants
    BY <1>6, <2>1, SessionAssumption, Zenon DEF HasTenant, Tenant, CtxType
  <2>3. /\ NewClient(c) \in Clients /\ Owner[NewClient(c)] = c
        /\ home[NewClient(c)] = Nil
    BY <1>6, NewClientOK, Zenon
  <2>4. x.tenant = Tenant(c) /\ x.pub = NewClient(c)
    BY <2>1, Zenon DEF CtxType
  <2>5. ctx' = [ctx EXCEPT ![c] = x]
    BY <1>6, Zenon DEF IInv, SessType
  <2> HIDE DEF x
  <2>6. pc'[c] = "sub" /\ loc'[c] = l /\ ctx'[c] = x /\ Frame(c)
    BY <1>6, <2>5, Zenon DEF Goto, Frame, IInv, SessType
  <2> QED BY <1>2, <1>3, <1>6, <2>2, <2>3, <2>4, <2>6, ChangedKeeps, Zenon
<1> QED BY <1>2, <1>4, <1>5, <1>6, Zenon

\* Every step keeps the hubs' invariant.
LEMMA NextHub ==
  ASSUME IInv, HubInv, [Next]_vars
  PROVE  HubInv'
<1>1. CASE \E c \in Conns : Command(c)
  BY <1>1, QuietCommand, QuietUnsubscribe, QuietPublish, QuietKeeps, SubscribeKeeps, Zenon DEF Command
<1>2. CASE \E c \in Conns : SessionStep(c)
  BY <1>2, QuietWrite, QuietSlots, QuietKeeps, BindKeeps, CloseKeeps, NameInHub, NameInSet, Zenon
     DEF SessionStep
<1>3. CASE \E c \in Conns : releaseClient(c) \/ untrack(c) \/ CloseConn(c)
  BY <1>3, QuietEnds, QuietKeeps, Zenon
<1>4. CASE Spawn
  <2>1. acc.conn \in Conns
    BY <1>4, Zenon DEF Spawn, IInv, AcceptOK, InHand
  <2> QED BY <1>4, <2>1, QuietEnds, QuietKeeps, Zenon
<1>5. CASE Serve /\ ~ Spawn
  <2>1. UNCHANGED <<hubVars, pc, loc, ctx>>
    BY <1>5, ZenonT(30) DEF Serve, ServeStart, Accept, ServeReturn, tryAddClient, CompareAndSwap, RefuseConn,
                track, sessionVars
  <2> QED BY <2>1, NothingKeeps, Zenon
<1>6. CASE Idle \/ CloseStart \/ Close \/ UNCHANGED vars
  <2>1. UNCHANGED <<hubVars, pc, loc, ctx>>
    BY <1>6, Zenon DEF Idle, CloseStart, Close, CloseListener, CloseOne, CloseReturn, vars, sessionVars
  <2> QED BY <2>1, NothingKeeps, Zenon
<1>7. CASE \E c \in Conns : PeerConnect(c) \/ PeerRead(c) \/ PeerLeave(c)
  <2>1. UNCHANGED <<hubVars, pc, loc, ctx>>
    BY <1>7, Zenon DEF PeerConnect, PeerRead, PeerLeave
  <2> QED BY <2>1, NothingKeeps, Zenon
<1> QED BY <1>1, <1>2, <1>3, <1>4, <1>5, <1>6, <1>7, Zenon DEF Next

\* The invariant of the hubs.
THEOREM HubInvariant == Spec => []HubInv
<1>1. Init => HubInv
  <2> SUFFICES ASSUME Init PROVE HubInv
    BY Zenon
  <2>1. /\ hub = [t \in Tenants |-> [n \in Names |-> {}]] /\ home = [x \in Clients |-> Nil]
        /\ subs = [x \in Clients |-> {}] /\ ctx = [c \in Conns |-> NoCtx]
        /\ loc = [c \in Conns |-> NoLoc]
    BY Zenon DEF Init, SessionInit, HubInit
  <2>2. PubOK
    BY <2>1, Zenon DEF PubOK, NoCtx
  <2>3. TodoOK
    BY <2>1, Zenon DEF TodoOK, NoLoc
  <2>4. HubAgrees
    BY <2>1, HubAssumption, Zenon DEF HubAgrees
  <2> QED BY <2>2, <2>3, <2>4, Zenon DEF HubInv
<1>2. IInv /\ HubInv /\ [Next]_vars => HubInv'
  BY NextHub, Zenon
<1> QED BY <1>1, <1>2, Invariant, PTL DEF Spec

\* The hubs and the clients agree, whatever the sessions are in the middle of.
THEOREM HubsAgree == Spec => []HubAgrees
<1>1. HubInv => HubAgrees
  BY Zenon DEF HubInv
<1> QED BY <1>1, HubInvariant, PTL

\* From "deliver" to "push" there is only deliver itself.
LEMMA OnlyDeliver ==
  ASSUME IInv, [Next]_vars, NEW c \in Conns, pc[c] = "deliver", pc'[c] = "push"
  PROVE  Deliver(c)
<1>1. \A d \in Conns : ~ Command(d)
  <2> SUFFICES ASSUME NEW d \in Conns, Command(d) PROVE FALSE
    BY Zenon
  <2>1. pc[d] = "read" /\ \E a : pc' = [pc EXCEPT ![d] = a]
    BY Zenon DEF Command, Refuse, Answer, quit, ProtocolError, Auth, Subscribe, Unsubscribe, Publish,
           Receive, Reply, Goto
  <2> QED BY <2>1, Zenon DEF IInv, SessType
<1>2. \A d \in Conns : SessionStep(d) => d = c
  <2> SUFFICES ASSUME NEW d \in Conns, SessionStep(d) PROVE d = c
    BY Zenon
  <2>1. \E a : pc' = [pc EXCEPT ![d] = a]
    BY ZenonT(30) DEF SessionStep, Hangup, WriteReply, WriteFailed, AcquireConn, SwapConn, Bind,
           ReleaseTenantConn, CloseMark, CloseChannels, ClosePatterns, SubscribeHub,
           SubscribeSet, UnsubscribeHub, UnsubscribeSet, Deliver, Push, Published, Leave, DropOr,
           NextName, Reply, Goto
  <2> QED BY <2>1, Zenon DEF IInv, SessType
<1>3. SessionStep(c) => Deliver(c) \/ Published(c)
  BY Zenon DEF SessionStep, Hangup, WriteReply, WriteFailed, AcquireConn, SwapConn, Bind,
         ReleaseTenantConn, CloseMark, CloseChannels, ClosePatterns, SubscribeHub,
         SubscribeSet, UnsubscribeHub, UnsubscribeSet, Push
<1>4. ~ Published(c)
  BY Zenon DEF Published, Reply, Goto, IInv, SessType
<1>5. \A d \in Conns : ~ (releaseClient(d) \/ untrack(d) \/ CloseConn(d))
  BY Zenon DEF releaseClient, untrack, CloseConn, IInv, SessType
<1>6. ~ (Serve \/ Idle \/ CloseStart \/ Close \/ UNCHANGED vars)
  BY Zenon DEF Serve, ServeStart, Accept, ServeReturn, tryAddClient, CompareAndSwap, RefuseConn, track,
         Spawn, Idle, CloseStart, Close, CloseListener, CloseOne, CloseReturn, vars, sessionVars,
         IInv, SessType
<1>7. \A d \in Conns : ~ (PeerConnect(d) \/ PeerRead(d) \/ PeerLeave(d))
  BY Zenon DEF PeerConnect, PeerRead, PeerLeave
<1> QED BY <1>1, <1>2, <1>3, <1>4, <1>5, <1>6, <1>7, Zenon DEF Next

\* deliver never starts on a connection that has gone over to another tenant.
THEOREM MessagesStayInTenant == Spec => DeliveryInScope
<1>1. ASSUME IInv, HubInv, [Next]_vars, NEW c \in Conns, pc[c] = "deliver", pc'[c] = "push"
      PROVE  ctx[Owner[loc'[c].to]].tenant = home[loc'[c].to]
  <2>1. Deliver(c)
    BY <1>1, OnlyDeliver, Zenon
  <2>2. PICK r \in loc[c].todo :
          Goto(c, IF shut[r[1]] THEN "deliver" ELSE "push",
               [loc[c] EXCEPT !.todo = @ \ {r}, !.to = IF shut[r[1]] THEN Nil ELSE r[1]])
    BY <2>1, Zenon DEF Deliver
  <2> DEFINE to == IF shut[r[1]] THEN Nil ELSE r[1]
             l == [loc[c] EXCEPT !.todo = @ \ {r}, !.to = to]
  <2>3. loc[c] \in LocType /\ r[1] \in Clients /\ home[r[1]] # Nil
    BY <1>1 DEF IInv, SessType, LocType, HubInv, TodoOK
  <2>4. ~ shut[r[1]]
    BY <1>1, <2>2, Zenon DEF Goto, IInv, SessType
  <2>5. l.to = r[1]
    BY <2>3, <2>4, Zenon DEF LocType
  <2>6. loc'[c] = l
    BY <1>1, <2>2, Zenon DEF Goto, IInv, SessType
  <2>7. ctx[Owner[r[1]]].pub = r[1] /\ r[1] # Nil /\ Owner[r[1]] \in Conns
    BY <1>1, <2>3, <2>4, HubAssumption, Zenon DEF HubInv, PubOK
  <2>8. home[r[1]] = ctx[Owner[r[1]]].tenant
    <3>1. \A d \in Conns : ctx[d].pub # Nil => home[ctx[d].pub] = ctx[d].tenant
      BY <1>1, Zenon DEF HubInv, PubOK
    <3> QED BY <2>7, <3>1, Zenon
  <2>9. loc'[c].to = r[1]
    BY <2>5, <2>6, Zenon
  <2> QED BY <2>8, <2>9, Zenon
<1>2. IInv /\ HubInv /\ [Next]_vars =>
        [\A c \in Conns : pc[c] = "deliver" /\ pc'[c] = "push" =>
           LET x == loc'[c].to IN ctx[Owner[x]].tenant = home[x]]_vars
  BY <1>1, Zenon
<1> QED BY <1>2, Invariant, HubInvariant, PTL DEF Spec, DeliveryInScope

----------------------------------------------------------------------------
(* The sessions that have ended, and NUMSUB *)

\* It leaves the connections without a session alone, and c as it must be.
LEMMA PartsKeep ==
  ASSUME IInv, HubInv, GoneOK, NEW c \in Conns, Parts(c)
  PROVE  GoneOK'
<1> SUFFICES ASSUME NEW d \in Conns, pc'[d] \in Gone
             PROVE  ctx'[d].pub = Nil \/ subs'[ctx'[d].pub] = {}
  BY Zenon DEF GoneOK, Gone
<1>1. CASE d = c
  BY <1>1, Zenon DEF Parts
<1>2. CASE d # c
  <2>1. pc'[d] = pc[d] /\ ctx'[d] = ctx[d]
    BY <1>2, Zenon DEF Parts, Frame
  <2>2. CASE ctx[d].pub = Nil
    BY <2>1, <2>2, Zenon
  <2>3. CASE ctx[d].pub # Nil
    <3>1. ctx[d].pub \in Clients /\ Owner[ctx[d].pub] = d
      BY <2>3, OwnClient, Zenon
    <3>2. subs'[ctx[d].pub] = subs[ctx[d].pub]
      BY <1>2, <3>1, Zenon DEF Parts
    <3>3. subs[ctx[d].pub] = {}
      BY <2>1, <2>3, Zenon DEF GoneOK
    <3> QED BY <2>1, <3>2, <3>3, Zenon
  <2> QED BY <2>2, <2>3, Zenon
<1> QED BY <1>1, <1>2, Zenon

\* The end of the loop: without a client the teardown is past the subscriptions.
LEMMA LeavesAlone ==
  ASSUME IInv, NEW c \in Conns, Leave(c), ctx' = ctx, pc'[c] \in Gone
  PROVE  ctx'[c].pub = Nil
<1>1. pc'[c] = IF ctx[c].pub # Nil THEN "shut" ELSE "leave"
  BY Zenon DEF Leave, Goto, IInv, SessType
<1> QED BY <1>1, Zenon DEF Gone

\* A quiet step, seen from the subscriptions.
LEMMA QuietParts ==
  ASSUME NEW c \in Conns, Quiet(c),
         pc'[c] \in Gone => ctx'[c].pub = Nil \/ subs[ctx'[c].pub] = {}
  PROVE  Parts(c)
<1>1. subs' = subs /\ Frame(c)
  BY Zenon DEF Quiet, hubVars
<1> QED BY <1>1, Zenon DEF Parts

\* A command never ends the session by itself.
LEMMA CommandGoesOn ==
  ASSUME IInv, HubInv, NEW c \in Conns, Command(c)
  PROVE  Parts(c)
<1>1. \A a \in {"write", "acquire", "sub", "un", "deliver"} : a \notin Gone
  BY Zenon DEF Gone
<1>2. CASE Refuse(c) \/ Answer(c) \/ quit(c) \/ ProtocolError(c) \/ Auth(c)
  <2>1. \E a \in {"write", "acquire"} : pc' = [pc EXCEPT ![c] = a]
    BY <1>2, Zenon DEF Refuse, Answer, quit, ProtocolError, Auth, Reply, Goto
  <2>2. pc'[c] \notin Gone
    BY <1>1, <2>1, Zenon DEF IInv, SessType
  <2> QED BY <1>2, <2>2, QuietCommand, QuietParts, Zenon
<1>3. CASE Unsubscribe(c)
  <2>1. \E a \in {"write", "un"} : pc' = [pc EXCEPT ![c] = a]
    BY <1>3, Zenon DEF Unsubscribe, Reply, Goto
  <2>2. pc'[c] \notin Gone
    BY <1>1, <2>1, Zenon DEF IInv, SessType
  <2> QED BY <1>3, <2>2, QuietUnsubscribe, QuietParts, Zenon
<1>4. CASE Publish(c)
  <2>1. \E a \in {"write", "deliver"} : pc' = [pc EXCEPT ![c] = a]
    BY <1>4, Zenon DEF Publish, Reply, Goto
  <2>2. pc'[c] \notin Gone
    BY <1>1, <2>1, Zenon DEF IInv, SessType
  <2> QED BY <1>4, <2>2, QuietPublish, QuietParts, Zenon
<1>5. CASE Subscribe(c)
  <2>1. \E a \in {"write", "sub"} : pc' = [pc EXCEPT ![c] = a]
    BY <1>5, Zenon DEF Subscribe, Reply, Goto
  <2>2. subs' = subs /\ \E l : loc' = [loc EXCEPT ![c] = l]
    BY <1>5, Zenon DEF Subscribe, Reply, Goto
  <2>3. \/ ctx' = [ctx EXCEPT ![c].tenant = Tenant(c)]
        \/ ctx' = [ctx EXCEPT ![c].tenant = Tenant(c), ![c].pub = NewClient(c)]
    BY <1>5, Zenon DEF Subscribe, AutoBind
  <2>4. pc'[c] \notin Gone
    BY <1>1, <2>1, Zenon DEF IInv, SessType
  <2>5. \A d \in Conns \ {c} : pc'[d] = pc[d] /\ loc'[d] = loc[d]
    BY <2>1, <2>2, Zenon DEF IInv, SessType
  <2>6. \A d \in Conns \ {c} : ctx'[d] = ctx[d]
    BY <2>3, Zenon DEF IInv, SessType
  <2> QED BY <2>2, <2>4, <2>5, <2>6, Zenon DEF Parts, Frame
<1> QED BY <1>2, <1>3, <1>4, <1>5, Zenon DEF Command

\* Neither do writing, delivering and the slots, except past the subscriptions.
LEMMA QuietGoesOn ==
  ASSUME IInv, HubInv, GoneOK, NEW c \in Conns,
         \/ Hangup(c) \/ WriteReply(c) \/ WriteFailed(c)
         \/ Deliver(c) \/ Push(c) \/ Published(c)
         \/ AcquireConn(c) \/ SwapConn(c) \/ ReleaseTenantConn(c)
  PROVE  Parts(c)
<1>1. Quiet(c)
  BY QuietWrite, QuietSlots, Zenon
<1>2. CASE Leave(c) /\ ctx' = ctx
  BY <1>1, <1>2, LeavesAlone, QuietParts, Zenon
<1>3. ASSUME NEW a \in {"write", "read", "deliver", "push", "swap", "shut", "bind"},
             pc' = [pc EXCEPT ![c] = a]
      PROVE  Parts(c)
  <2>1. pc'[c] \notin Gone
    BY <1>3, Zenon DEF Gone, IInv, SessType
  <2> QED BY <1>1, <2>1, QuietParts, Zenon
<1>4. CASE Hangup(c) \/ WriteReply(c) \/ WriteFailed(c)
  <2>1. ctx' = ctx
    BY <1>4, Zenon DEF Hangup, WriteReply, WriteFailed
  <2>2. Leave(c) \/ \E a \in {"write", "read"} : pc' = [pc EXCEPT ![c] = a]
    BY <1>4, Zenon DEF Hangup, WriteReply, WriteFailed, Goto
  <2> QED BY <1>2, <1>3, <2>1, <2>2, Zenon
<1>5. CASE Deliver(c) \/ Push(c) \/ Published(c)
  <2>1. \E a \in {"write", "deliver", "push"} : pc' = [pc EXCEPT ![c] = a]
    BY <1>5, Zenon DEF Deliver, Push, Published, Goto, Reply
  <2> QED BY <1>3, <2>1, Zenon
<1>6. CASE AcquireConn(c) \/ SwapConn(c)
  <2>1. \E a \in {"write", "swap", "shut", "bind"} : pc' = [pc EXCEPT ![c] = a]
    BY <1>6, Zenon DEF AcquireConn, SwapConn, DropOr, Goto, Reply
  <2> QED BY <1>3, <2>1, Zenon
<1>7. CASE ReleaseTenantConn(c)
  <2>1. pc[c] \in Gone
    BY <1>7, Zenon DEF ReleaseTenantConn, Gone
  <2>2. ctx'[c].pub = ctx[c].pub
    BY <1>1, Zenon DEF Quiet
  <2> QED BY <1>1, <2>1, <2>2, QuietParts, Zenon DEF GoneOK
<1> QED BY <1>4, <1>5, <1>6, <1>7, Zenon

\* Client.Close has emptied the client's own set by the time it returns, and a subscription
\* changes the set of the session's client only.
LEMMA ChangeGoesOn ==
  ASSUME IInv, HubInv, NEW c \in Conns,
         \/ Bind(c) \/ CloseMark(c) \/ CloseChannels(c) \/ ClosePatterns(c)
         \/ SubscribeHub(c) \/ SubscribeSet(c) \/ UnsubscribeHub(c) \/ UnsubscribeSet(c)
  PROVE  Parts(c)
<1>1. \E a, l : Goto(c, a, l)
  BY Zenon DEF Bind, CloseMark, CloseChannels, ClosePatterns, SubscribeHub, SubscribeSet,
               UnsubscribeHub, UnsubscribeSet, Reply, NextName
<1>2. \A d \in Conns \ {c} : pc'[d] = pc[d] /\ loc'[d] = loc[d]
  BY <1>1, Zenon DEF Goto, IInv, SessType
<1>3. \A d \in Conns \ {c} : ctx'[d] = ctx[d]
  <2>1. ctx' = ctx \/ \E x : ctx' = [ctx EXCEPT ![c] = x]
    BY Zenon DEF Bind, CloseMark, CloseChannels, ClosePatterns, SubscribeHub, SubscribeSet,
                 UnsubscribeHub, UnsubscribeSet
  <2> QED BY <2>1, Zenon DEF IInv, SessType
<1>4. \A y \in Clients : Owner[y] # c => subs'[y] = subs[y]
  <2>1. CASE subs' = subs
    BY <2>1, Zenon
  <2>2. CASE CloseMark(c) \/ SubscribeSet(c) \/ UnsubscribeSet(c)
    <3>1. LocalOK(pc[c], loc[c], ctx[c])
      BY Zenon DEF IInv, SessionsOK
    <3>2. ctx[c].pub # Nil
      BY <2>2, <3>1, Zenon DEF CloseMark, SubscribeSet, UnsubscribeSet, LocalOK, Dropping
    <3>3. ctx[c].pub \in Clients /\ Owner[ctx[c].pub] = c
      BY <3>2, OwnClient, Zenon
    <3>4. \E N : subs' = [subs EXCEPT ![ctx[c].pub] = N]
      BY <2>2, Zenon DEF CloseMark, SubscribeSet, UnsubscribeSet
    <3> QED BY <3>3, <3>4, Zenon DEF IInv, HubTypeOK
  <2> QED BY <2>1, <2>2, Zenon
          DEF Bind, CloseChannels, ClosePatterns, SubscribeHub, UnsubscribeHub, hubVars
<1>5. CASE ClosePatterns(c)
  <2>1. pc[c] = "punsub" /\ ctx' = ctx /\ subs' = subs
    BY <1>5, Zenon DEF ClosePatterns
  <2>2. ctx[c].pub # Nil => subs[ctx[c].pub] = {}
    BY <2>1, OwnClient, Zenon
  <2> QED BY <1>2, <1>3, <1>4, <2>1, <2>2, Zenon DEF Parts, Frame
<1>6. CASE ~ ClosePatterns(c)
  <2>1. \E a \in {"write", "unsub", "punsub", "sub", "sub2", "un", "un2"} :
          pc' = [pc EXCEPT ![c] = a]
    BY <1>6, Zenon DEF Bind, CloseMark, CloseChannels, SubscribeHub, SubscribeSet,
                       UnsubscribeHub, UnsubscribeSet, Reply, NextName, Goto
  <2>2. pc'[c] \notin Gone
    BY <2>1, Zenon DEF Gone, IInv, SessType
  <2> QED BY <1>2, <1>3, <1>4, <2>2, Zenon DEF Parts, Frame
<1> QED BY <1>5, <1>6, Zenon

\* The start and the end of the goroutine.
LEMMA EndsGoOn ==
  ASSUME IInv, HubInv, GoneOK, NEW c \in Conns,
         releaseClient(c) \/ untrack(c) \/ CloseConn(c) \/ (c = acc.conn /\ Spawn)
  PROVE  Parts(c)
<1>1. Quiet(c)
  BY QuietEnds, Zenon
<1>2. ctx' = ctx
  BY Zenon DEF releaseClient, untrack, CloseConn, Spawn
<1>3. CASE releaseClient(c) \/ untrack(c) \/ CloseConn(c)
  <2>1. pc[c] \in Gone
    BY <1>3, Zenon DEF releaseClient, untrack, CloseConn, Gone
  <2> QED BY <1>1, <1>2, <2>1, QuietParts, Zenon DEF GoneOK
<1>4. CASE c = acc.conn /\ Spawn
  <2>1. pc'[c] \notin Gone
    BY <1>4, Zenon DEF Spawn, Gone, IInv, SessType
  <2> QED BY <1>1, <2>1, QuietParts, Zenon
<1> QED BY <1>3, <1>4, Zenon

\* Every step keeps the connections without a session unsubscribed.
LEMMA NextGone ==
  ASSUME IInv, HubInv, GoneOK, [Next]_vars
  PROVE  GoneOK'
<1>1. CASE \E c \in Conns : Command(c)
  BY <1>1, CommandGoesOn, PartsKeep, Zenon
<1>2. CASE \E c \in Conns : SessionStep(c)
  BY <1>2, QuietGoesOn, ChangeGoesOn, PartsKeep, Zenon DEF SessionStep
<1>3. CASE \E c \in Conns : releaseClient(c) \/ untrack(c) \/ CloseConn(c)
  BY <1>3, EndsGoOn, PartsKeep, Zenon
<1>4. CASE Spawn
  <2>1. acc.conn \in Conns
    BY <1>4, Zenon DEF Spawn, IInv, AcceptOK, InHand
  <2> QED BY <1>4, <2>1, EndsGoOn, PartsKeep, Zenon
<1>5. CASE UNCHANGED <<hubVars, pc, ctx>>
  BY <1>5, Zenon DEF GoneOK, hubVars
<1>6. CASE Serve /\ ~ Spawn
  BY <1>5, <1>6, ZenonT(30) DEF Serve, ServeStart, Accept, ServeReturn, tryAddClient,
              CompareAndSwap, RefuseConn, track, sessionVars
<1>7. CASE Idle \/ CloseStart \/ Close \/ UNCHANGED vars
  BY <1>5, <1>7, Zenon DEF Idle, CloseStart, Close, CloseListener, CloseOne, CloseReturn, vars,
              sessionVars
<1>8. CASE \E c \in Conns : PeerConnect(c) \/ PeerRead(c) \/ PeerLeave(c)
  BY <1>5, <1>8, Zenon DEF PeerConnect, PeerRead, PeerLeave
<1> QED BY <1>1, <1>2, <1>3, <1>4, <1>6, <1>7, <1>8, Zenon DEF Next

\* Between two commands the members of a channel's set are the clients of the sessions that
\* count themselves as subscribed, one for each.
LEMMA SubscribersCounted ==
  ASSUME IInv, HubInv, GoneOK, Changing = {}, NEW t \in Tenants, NEW ch \in Channels
  PROVE  NumSub(t, ch) = Cardinality(Subscribers(t, ch))
<1> DEFINE S == Subscribers(t, ch)
           T == hub[t][ch]
           f == [c \in S |-> ctx[c].pub]
<1>1. ch \in Names /\ T \subseteq Clients
  BY DEF Names, IInv, HubTypeOK
<1>2. \A x \in Clients : Owner[x] \in Conns /\ x # Nil
  BY HubAssumption, Zenon
<1>3. \A x \in Clients : x \in T <=> home[x] = t /\ ctx[Owner[x]].pub = x /\ ch \in subs[x]
  <2> TAKE x \in Clients
  <2>1. x \in T <=> home[x] = t /\ ch \in Expected(x)
    BY <1>1, Zenon DEF HubInv, HubAgrees
  <2>2. pc[Owner[x]] \notin {"sub2", "un2", "unsub", "punsub"}
    BY <1>2, Zenon DEF Changing
  <2>3. Expected(x) = IF ctx[Owner[x]].pub # x THEN {} ELSE subs[x]
    BY <2>2, Zenon DEF Expected
  <2> QED BY <2>1, <2>3, Zenon
<1>4. \A c \in S : /\ c \in Conns /\ ctx[c].pub \in Clients /\ ctx[c].pub \in T
                   /\ Owner[ctx[c].pub] = c
  <2> SUFFICES ASSUME NEW c \in S
               PROVE  /\ c \in Conns /\ ctx[c].pub \in Clients /\ ctx[c].pub \in T
                      /\ Owner[ctx[c].pub] = c
    BY Zenon
  <2>1. c \in Conns /\ ctx[c].tenant = t /\ ctx[c].pub # Nil /\ ch \in subs[ctx[c].pub]
    BY Zenon DEF Subscribers, Running
  <2>2. ctx[c].pub \in Clients /\ Owner[ctx[c].pub] = c /\ home[ctx[c].pub] = ctx[c].tenant
    BY <2>1, OwnClient, Zenon
  <2> QED BY <1>3, <2>1, <2>2, Zenon
<1>5. \A x \in T : Owner[x] \in S /\ ctx[Owner[x]].pub = x
  <2> SUFFICES ASSUME NEW x \in T PROVE Owner[x] \in S /\ ctx[Owner[x]].pub = x
    BY Zenon
  <2>1. x \in Clients /\ home[x] = t /\ ctx[Owner[x]].pub = x /\ ch \in subs[x]
    BY <1>1, <1>3, Zenon
  <2>2. Owner[x] \in Conns /\ ctx[Owner[x]].pub # Nil
    BY <1>2, <2>1, Zenon
  <2>3. ctx[Owner[x]].tenant = t
    BY <2>1, <2>2, OwnClient, Zenon
  <2>4. pc[Owner[x]] \notin {"none", "done"}
    BY <2>1, <2>2, Zenon DEF GoneOK, Gone
  <2> QED BY <2>1, <2>2, <2>3, <2>4, Zenon DEF Subscribers, Running
<1>6. IsFiniteSet(S)
  <2>1. S \subseteq Conns
    BY <1>4, Zenon
  <2> QED BY <2>1, ServerAssumption, FS_Subset, Zenon
<1> HIDE DEF S, T
<1>7. f \in Bijection(S, T)
  <2>1. f \in [S -> T] /\ \A a, b \in S : f[a] = f[b] => a = b
    BY <1>4, Zenon
  <2>2. \A x \in T : \E c \in S : f[c] = x
    BY <1>5, Zenon
  <2> QED BY <2>1, <2>2, Zenon DEF Bijection, Injection, Surjection, IsInjective
<1>8. Cardinality(T) = Cardinality(S)
  BY <1>6, <1>7, FS_Bijection, Zenon DEF ExistsBijection
<1> QED BY <1>8, Zenon DEF NumSub, S, T

\* PUBSUB NUMSUB is the number of sessions that hold the subscription, whenever no session
\* is between the two halves of a change.
THEOREM NumSubCounts == Spec => []NumSubHonest
<1>1. Init => GoneOK
  <2> SUFFICES ASSUME Init PROVE GoneOK
    BY Zenon
  <2>1. ctx = [c \in Conns |-> NoCtx]
    BY Zenon DEF Init, SessionInit
  <2> QED BY <2>1, Zenon DEF GoneOK, NoCtx
<1>2. IInv /\ HubInv /\ GoneOK /\ [Next]_vars => GoneOK'
  BY NextGone, Zenon
<1>3. IInv /\ HubInv /\ GoneOK => NumSubHonest
  BY SubscribersCounted, Zenon DEF NumSubHonest
<1> QED BY <1>1, <1>2, <1>3, Invariant, HubInvariant, PTL DEF Spec
=============================================================================
