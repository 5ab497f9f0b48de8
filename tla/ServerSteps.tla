---------------------------- MODULE ServerSteps -----------------------------
(***************************************************************************)
(* Every step of Server keeps the invariant of the sessions and the slots. *)
(* A session only changes its own part of pc, loc and ctx, so most steps   *)
(* are jumps: they leave every connection slot where it is.                *)
(***************************************************************************)
EXTENDS ServerInvariant, TLAPS

----------------------------------------------------------------------------
(* Moves of a session *)

\* The type invariant is part of it.
LEMMA TypeParts == TypeOK <=> HubTypeOK /\ SessType /\ NetType /\ ServType
BY Zenon DEF TypeOK, SessType, NetType, ServType

\* The settings of a run.
LEMMA CfgOK ==
  ASSUME cfg \in Configs
  PROVE  cfg.max \in Nat /\ cfg.calls \in [Conns -> Nat]
BY SessionAssumption, Zenon

\* The slots of a session are a function of its own state.
LEMMA SlotsLocal == \A c \in Conns : Slots(c) = SlotsOf(pc[c], loc[c], ctx[c])
BY Zenon DEF Slots, SlotsOf

\* A move of one session, its types and its local condition.
LEMMA MoveOK ==
  ASSUME SessType, SessionsOK, NEW c \in Conns, NEW a \in Labels, NEW l \in LocType,
         NEW x \in CtxType, LocalOK(a, l, x), Moves(c, a, l, x)
  PROVE  /\ SessType' /\ SessionsOK'
         /\ pc'[c] = a /\ loc'[c] = l /\ ctx'[c] = x
         /\ Slots(c)' = SlotsOf(a, l, x)
         /\ \A d \in Conns \ {c} : /\ pc'[d] = pc[d] /\ loc'[d] = loc[d] /\ ctx'[d] = ctx[d]
                                   /\ Slots(d)' = Slots(d)
<1>1. SessType'
  BY Zenon DEF SessType, Moves
<1>2. pc'[c] = a /\ loc'[c] = l /\ ctx'[c] = x
  BY Zenon DEF SessType, Moves
<1>3. \A d \in Conns \ {c} : pc'[d] = pc[d] /\ loc'[d] = loc[d] /\ ctx'[d] = ctx[d]
  BY Zenon DEF SessType, Moves
<1>4. SessionsOK'
  <2> SUFFICES ASSUME NEW d \in Conns PROVE LocalOK(pc'[d], loc'[d], ctx'[d])
    BY Zenon DEF SessionsOK
  <2>1. CASE d = c
    BY <2>1, <1>2, Zenon
  <2>2. CASE d # c
    BY <2>2, <1>3, Zenon DEF SessionsOK
  <2> QED BY <2>1, <2>2, Zenon
<1>5. Slots(c)' = SlotsOf(a, l, x)
  BY <1>2, Zenon DEF Slots, SlotsOf
<1>6. \A d \in Conns \ {c} : Slots(d)' = Slots(d)
  BY <1>3, Zenon DEF Slots
<1> QED BY <1>1, <1>2, <1>3, <1>4, <1>5, <1>6, Zenon

\* Counting, from the library: one member more.
LEMMA OneMore ==
  ASSUME CountingFact, NEW S, IsFiniteSet(S), NEW x, x \notin S
  PROVE  IsFiniteSet(S \cup {x}) /\ Cardinality(S \cup {x}) = Cardinality(S) + 1
BY Zenon DEF CountingFact

\* One member less.
LEMMA OneLess ==
  ASSUME CountingFact, NEW S, IsFiniteSet(S), NEW x \in S
  PROVE  Cardinality(S \ {x}) = Cardinality(S) - 1 /\ Cardinality(S) \in Nat \ {0}
<1>1. Cardinality(S \ {x}) = Cardinality(S) - 1
  BY Zenon DEF CountingFact
<1>2. Cardinality(S) \in Nat /\ Cardinality(S) # 0
  BY Zenon DEF CountingFact
<1> QED BY <1>1, <1>2, Zenon

\* The sets of holders are finite sets of connections.
LEMMA HoldersFinite ==
  ASSUME CountingFact, AcceptOK
  PROVE  /\ Admitted \subseteq Conns /\ IsFiniteSet(Admitted)
         /\ \A t : Holders(t) \subseteq Conns /\ IsFiniteSet(Holders(t))
<1>1. Admitted \subseteq Conns
  BY Zenon DEF Admitted, AcceptOK, InHand
<1>2. \A t : Holders(t) \subseteq Conns
  BY Zenon DEF Holders
<1> QED BY <1>1, <1>2, ServerAssumption, Zenon DEF CountingFact

\* A session that goes on counts as before, and holds what its new state says.
LEMMA MoveKeeps ==
  ASSUME IInv, NEW c \in Conns, pc[c] \notin Outside, NEW a \in Labels \ Outside,
         NEW l \in LocType, NEW x \in CtxType, LocalOK(a, l, x), Moves(c, a, l, x),
         UNCHANGED netVars
  PROVE  /\ SessType' /\ SessionsOK' /\ AcceptOK' /\ ClientSlots' /\ ServType'
         /\ Admitted' = Admitted
         /\ Slots(c)' = SlotsOf(a, l, x) /\ \A d \in Conns \ {c} : Slots(d)' = Slots(d)
<1>1. /\ SessType' /\ SessionsOK' /\ pc'[c] = a /\ Slots(c)' = SlotsOf(a, l, x)
      /\ \A d \in Conns \ {c} : pc'[d] = pc[d] /\ Slots(d)' = Slots(d)
  BY MoveOK, Zenon DEF IInv
<1>2. UNCHANGED <<cfg, sock, peer, ln, lnSet, conns, clientCount, acc, closer>>
  BY Zenon DEF netVars, serverVars
<1>3. Admitted' = Admitted
  BY <1>1, <1>2, Zenon DEF Admitted, Outside
<1>4. AcceptOK'
  BY <1>1, <1>2, Zenon DEF IInv, AcceptOK, Outside, InHand
<1>5. ServType'
  BY <1>2, Zenon DEF IInv, ServType
<1>6. ClientSlots'
  BY <1>2, <1>3, Zenon DEF IInv, ClientSlots
<1> QED BY <1>1, <1>3, <1>4, <1>5, <1>6, Zenon

\* A jump that touches neither the counters nor the server keeps all but the types of
\* what it writes.
LEMMA JumpKeeps ==
  ASSUME IInv, NEW c \in Conns, Jump(c), UNCHANGED <<netVars, connCount>>
  PROVE  /\ SessType' /\ SessionsOK' /\ AcceptOK' /\ ClientSlots' /\ TenantSlots'
         /\ ServType' /\ SlotsSame
<1>1. PICK a \in Labels \ Outside, l \in LocType, x \in CtxType :
        /\ LocalOK(a, l, x)
        /\ SlotsOf(a, l, x) = SlotsOf(pc[c], loc[c], ctx[c])
        /\ Moves(c, a, l, x)
  BY Zenon DEF Jump
<1>2. /\ SessType' /\ SessionsOK' /\ AcceptOK' /\ ClientSlots' /\ ServType'
      /\ Admitted' = Admitted
      /\ Slots(c)' = SlotsOf(a, l, x) /\ \A d \in Conns \ {c} : Slots(d)' = Slots(d)
  BY <1>1, MoveKeeps, Zenon DEF Jump
<1>3. \A d \in Conns : Slots(d)' = Slots(d)
  BY <1>1, <1>2, SlotsLocal, Zenon
<1>4. \A t \in Tenants : Holders(t)' = Holders(t)
  BY <1>3, Zenon DEF Holders
<1>5. TenantSlots'
  BY <1>4, Zenon DEF IInv, TenantSlots
<1> QED BY <1>2, <1>4, <1>5, Zenon DEF SlotsSame

\* A move between such labels is a jump.
LEMMA PlainJump ==
  ASSUME IInv, NEW c \in Conns, pc[c] \in Plain, NEW a \in Plain, NEW l \in LocType,
         NEW x \in CtxType, LocalOK(a, l, x), Moves(c, a, l, x),
         x.bound = ctx[c].bound, x.bound => x.tenant = ctx[c].tenant
  PROVE  Jump(c)
<1>1. SlotsOf(a, l, x) = SlotsOf(pc[c], loc[c], ctx[c])
  BY Zenon DEF SlotsOf, Plain
<1>2. a \in Labels \ Outside /\ pc[c] \notin Outside
  BY Zenon DEF Plain, Labels, Outside
<1> QED BY <1>1, <1>2, Zenon DEF Jump

----------------------------------------------------------------------------
(* The jumps of the session's actions *)

\* Locals at the start of a command.
LEMMA NoLocType == NoLoc \in LocType
BY HubAssumption, Zenon DEF NoLoc, LocType

\* Binding the default tenant leaves a bound session, and one with a pubsub client, alone.
LEMMA AutoBindOK ==
  ASSUME IInv, NEW c \in Conns, AutoBind(c)
  PROVE  \E x \in CtxType :
           /\ ctx' = [ctx EXCEPT ![c] = x]
           /\ x.tenant = Tenant(c) /\ x.bound = ctx[c].bound /\ x.pub = ctx[c].pub
           /\ x.bound \/ x.pub # Nil => x.tenant \in Tenants /\ x.tenant = ctx[c].tenant
<1> DEFINE x == [ctx[c] EXCEPT !.tenant = Tenant(c)]
<1>1. ctx[c] \in CtxType /\ LocalOK(pc[c], loc[c], ctx[c])
  BY Zenon DEF IInv, SessType, SessionsOK
<1>2. Tenant(c) \in Tenants \cup {Nil}
  BY <1>1, SessionAssumption, Zenon DEF Tenant, CtxType
<1>3. x \in CtxType /\ x.tenant = Tenant(c) /\ x.bound = ctx[c].bound /\ x.pub = ctx[c].pub
  BY <1>1, <1>2, Zenon DEF CtxType
<1>4. ctx' = [ctx EXCEPT ![c] = x]
  BY Zenon DEF AutoBind, IInv, SessType
<1>5. ASSUME ctx[c].bound \/ ctx[c].pub # Nil
      PROVE  Tenant(c) = ctx[c].tenant /\ ctx[c].tenant \in Tenants
  BY <1>1, <1>5, HubAssumption, Zenon DEF LocalOK, Tenant
<1> QED BY <1>3, <1>4, <1>5, Zenon

\* A plain label with its locals, the context kept or bound to the default tenant.
LEMMA GotoJump ==
  ASSUME IInv, NEW c \in Conns, pc[c] \in Plain, NEW a \in Plain, NEW l \in LocType,
         Goto(c, a, l), AutoBind(c) \/ ctx' = ctx,
         a \in {"sub", "sub2", "un", "un2"} => ctx[c].pub # Nil,
         a \in {"sub2", "un2"} => l.name \in Names,
         a = "push" => l.to \in Clients,
         a = "acquire" => l.tenant \in Tenants /\ (ctx[c].bound => l.tenant # ctx[c].tenant)
  PROVE  Jump(c)
<1>1. PICK x \in CtxType :
        /\ ctx' = [ctx EXCEPT ![c] = x]
        /\ x.bound = ctx[c].bound /\ x.pub = ctx[c].pub
        /\ x.bound \/ x.pub # Nil => x.tenant \in Tenants /\ x.tenant = ctx[c].tenant
  <2>1. CASE AutoBind(c)
    BY <2>1, AutoBindOK, Zenon
  <2>2. CASE ctx' = ctx
    <3>1. ctx[c] \in CtxType /\ LocalOK(pc[c], loc[c], ctx[c]) /\ ctx' = [ctx EXCEPT ![c] = ctx[c]]
      BY <2>2, Zenon DEF IInv, SessType, SessionsOK
    <3> QED BY <3>1, Zenon DEF LocalOK
  <2> QED BY <2>1, <2>2, Zenon
<1>2. LocalOK(a, l, x)
  BY <1>1, Zenon DEF LocalOK, Plain, Dropping, Outside
<1>3. Moves(c, a, l, x)
  BY <1>1, Zenon DEF Moves, Goto
<1> QED BY <1>1, <1>2, <1>3, PlainJump, Zenon

\* An answer of n values.
LEMMA ReplyJump ==
  ASSUME IInv, NEW c \in Conns, pc[c] \in Plain, NEW n \in Nat, Reply(c, n),
         AutoBind(c) \/ ctx' = ctx
  PROVE  Jump(c)
<1> DEFINE l == [NoLoc EXCEPT !.replies = n]
<1>1. l \in LocType
  BY NoLocType, Zenon DEF LocType
<1>2. Goto(c, "write", l)
  BY Zenon DEF Reply
<1>3. "write" \in Plain
  BY Zenon DEF Plain
<1> QED BY <1>1, <1>2, <1>3, GotoJump, Zenon

\* The end of handleConn's loop.
LEMMA LeaveJump ==
  ASSUME IInv, NEW c \in Conns, pc[c] \in Plain, Leave(c), ctx' = ctx
  PROVE  Jump(c)
<1> DEFINE a == IF ctx[c].pub # Nil THEN "shut" ELSE "leave"
<1>1. /\ ctx[c] \in CtxType /\ LocalOK(pc[c], loc[c], ctx[c])
      /\ ctx' = [ctx EXCEPT ![c] = ctx[c]]
  BY Zenon DEF IInv, SessType, SessionsOK
<1>2. LocalOK(a, NoLoc, ctx[c])
  BY <1>1, Zenon DEF LocalOK, NoLoc, Dropping, Outside
<1>3. SlotsOf(a, NoLoc, ctx[c]) = SlotsOf(pc[c], loc[c], ctx[c])
  BY Zenon DEF SlotsOf, NoLoc, Plain
<1>4. Moves(c, a, NoLoc, ctx[c])
  BY <1>1, Zenon DEF Moves, Leave, Goto
<1>5. a \in Labels \ Outside /\ pc[c] \notin Outside
  BY Zenon DEF Labels, Outside, Plain
<1> QED BY <1>1, <1>2, <1>3, <1>4, <1>5, NoLocType, Zenon DEF Jump

\* It keeps the invariant, and every slot.
LEMMA StillKeeps ==
  ASSUME IInv, NEW c \in Conns, Still(c)
  PROVE  IInv' /\ SlotsSame
<1>1. /\ SessType' /\ SessionsOK' /\ AcceptOK' /\ ClientSlots' /\ TenantSlots'
      /\ ServType' /\ SlotsSame
  BY JumpKeeps, Zenon DEF Still
<1>2. NetType'
  BY Zenon DEF Still, IInv, NetType, netVars
<1> QED BY <1>1, <1>2, Zenon DEF IInv, Still

\* What every command starts with.
LEMMA ReceiveOK ==
  ASSUME IInv, NEW c \in Conns, NEW name, Receive(c, name)
  PROVE  /\ pc[c] = "read" /\ pc[c] \in Plain /\ UNCHANGED <<netVars, connCount>>
         /\ left' \in [Conns -> Nat] /\ unread' \in [Conns -> 0 .. SockBuf]
BY DEF Receive, Plain, IInv, NetType, netVars

\* A step that leaves the hubs alone keeps their type.
LEMMA SameHub == IInv /\ UNCHANGED hubVars => HubTypeOK'
BY Zenon DEF IInv, HubTypeOK, hubVars

\* Answers without effect: Dispatch's own, PING, GET, QUIT, a protocol error.
LEMMA AnswerStill ==
  ASSUME IInv, NEW c \in Conns, Refuse(c) \/ Answer(c) \/ quit(c) \/ ProtocolError(c)
  PROVE  Still(c)
<1> DEFINE l == [NoLoc EXCEPT !.replies = 1, !.quit = TRUE]
<1>1. l \in LocType /\ "write" \in Plain
  BY NoLocType, Zenon DEF LocType, Plain
<1>2. CASE Refuse(c)
  <2>1. PICK name \in cfg.cmds : Receive(c, name) /\ Reply(c, 1) /\ UNCHANGED <<hubVars, ctx>>
    BY <1>2, Zenon DEF Refuse
  <2>2. Jump(c)
    BY <2>1, ReceiveOK, ReplyJump, Zenon
  <2> QED BY <2>1, <2>2, ReceiveOK, SameHub, Zenon DEF Still
<1>3. CASE Answer(c)
  <2>1. PICK name \in {"PING", "GET"} :
          Receive(c, name) /\ AutoBind(c) /\ Reply(c, 1) /\ UNCHANGED hubVars
    BY <1>3, Zenon DEF Answer
  <2>2. Jump(c)
    BY <2>1, ReceiveOK, ReplyJump, Zenon
  <2> QED BY <2>1, <2>2, ReceiveOK, SameHub, Zenon DEF Still
<1>4. CASE quit(c)
  <2>1. Receive(c, "QUIT") /\ AutoBind(c) /\ Goto(c, "write", l) /\ UNCHANGED hubVars
    BY <1>4, Zenon DEF quit
  <2>2. Jump(c)
    BY <1>1, <2>1, ReceiveOK, GotoJump, Zenon
  <2> QED BY <2>1, <2>2, ReceiveOK, SameHub, Zenon DEF Still
<1>5. CASE ProtocolError(c)
  <2>1. /\ pc[c] \in Plain /\ Goto(c, "write", l) /\ ctx' = ctx
        /\ UNCHANGED <<hubVars, netVars, connCount, unread>>
        /\ left' \in [Conns -> Nat]
    BY <1>5 DEF ProtocolError, Plain, IInv, NetType
  <2>2. Jump(c)
    BY <1>1, <2>1, GotoJump, Zenon
  <2> QED BY <2>1, <2>2, SameHub, Zenon DEF Still, IInv, NetType
<1> QED BY <1>2, <1>3, <1>4, <1>5, Zenon

\* AUTH up to AcquireConn.
LEMMA AuthStill ==
  ASSUME IInv, NEW c \in Conns, Auth(c)
  PROVE  Still(c)
<1>1. Receive(c, "AUTH") /\ AutoBind(c) /\ UNCHANGED hubVars
  BY Zenon DEF Auth
<1>2. PICK t \in Tenants, good \in BOOLEAN :
        IF ~ (t \notin Disabled /\ good) \/ (Tenant(c) = t /\ ctx[c].bound)
        THEN Reply(c, 1)
        ELSE Goto(c, "acquire", [NoLoc EXCEPT !.tenant = t])
  BY Zenon DEF Auth, Authenticate
<1>3. CASE Reply(c, 1)
  <2>1. Jump(c)
    BY <1>1, <1>3, ReceiveOK, ReplyJump, Zenon
  <2> QED BY <1>1, <2>1, ReceiveOK, SameHub, Zenon DEF Still
<1>4. CASE /\ ~ (Tenant(c) = t /\ ctx[c].bound)
           /\ Goto(c, "acquire", [NoLoc EXCEPT !.tenant = t])
  <2> DEFINE l == [NoLoc EXCEPT !.tenant = t]
  <2>1. l \in LocType /\ l.tenant = t /\ "acquire" \in Plain
    BY NoLocType, Zenon DEF LocType, Plain
  <2>2. ctx[c].bound => t # ctx[c].tenant
    <3>1. ctx[c].bound => Tenant(c) = ctx[c].tenant
      BY <1>1, AutoBindOK, Zenon
    <3> QED BY <1>4, <3>1, Zenon
  <2>3. Jump(c)
    BY <1>1, <1>4, <2>1, <2>2, ReceiveOK, GotoJump, Zenon
  <2> QED BY <1>1, <2>3, ReceiveOK, SameHub, Zenon DEF Still
<1> QED BY <1>2, <1>3, <1>4, Zenon

\* UNSUBSCRIBE up to its first critical section.
LEMMA UnsubscribeStill ==
  ASSUME IInv, NEW c \in Conns, Unsubscribe(c)
  PROVE  Still(c)
<1> DEFINE own(K) == IF ctx[c].pub = Nil THEN {} ELSE subs[ctx[c].pub] \cap K
           names(K, N) == IF ctx[c].pub # Nil /\ N # {} THEN N ELSE own(K)
<1>1. PICK kind \in Kinds("UNSUBSCRIBE", "PUNSUBSCRIBE") : \E N \in SUBSET kind[2] :
        /\ Receive(c, kind[1]) /\ AutoBind(c) /\ UNCHANGED hubVars
        /\ IF ~ HasTenant(c) \/ names(kind[2], N) = {} THEN Reply(c, 1)
           ELSE Goto(c, "un", [NoLoc EXCEPT !.names = names(kind[2], N)])
  BY Zenon DEF Unsubscribe
<1>2. PICK N \in SUBSET kind[2] :
        /\ Receive(c, kind[1]) /\ AutoBind(c) /\ UNCHANGED hubVars
        /\ IF ~ HasTenant(c) \/ names(kind[2], N) = {} THEN Reply(c, 1)
           ELSE Goto(c, "un", [NoLoc EXCEPT !.names = names(kind[2], N)])
  BY <1>1, Zenon
<1> DEFINE M == names(kind[2], N)
<1>3. M \subseteq Names
  <2>1. kind[2] \subseteq Names
    BY DEF Kinds, Names
  <2> QED BY <2>1, Zenon
<1> HIDE DEF names
<1>4. CASE Reply(c, 1)
  <2>1. Jump(c)
    BY <1>2, <1>4, ReceiveOK, ReplyJump, Zenon
  <2> QED BY <1>2, <2>1, ReceiveOK, SameHub, Zenon DEF Still
<1>5. CASE M # {} /\ Goto(c, "un", [NoLoc EXCEPT !.names = M])
  <2> DEFINE l == [NoLoc EXCEPT !.names = M]
  <2>1. l \in LocType /\ "un" \in Plain
    BY <1>3, NoLocType, Zenon DEF LocType, Plain
  <2>2. ctx[c].pub # Nil
    BY <1>5, Zenon DEF names
  <2>3. Jump(c)
    BY <1>2, <1>5, <2>1, <2>2, ReceiveOK, GotoJump, Zenon
  <2> QED BY <1>2, <2>3, ReceiveOK, SameHub, Zenon DEF Still
<1> QED BY <1>2, <1>4, <1>5, Zenon

\* PUBLISH up to the copy of its recipients.
LEMMA PublishStill ==
  ASSUME IInv, NEW c \in Conns, Publish(c)
  PROVE  Still(c)
<1>1. PICK ch \in Channels :
        /\ Receive(c, "PUBLISH") /\ AutoBind(c) /\ UNCHANGED hubVars
        /\ IF ~ HasTenant(c) THEN Reply(c, 1)
           ELSE Goto(c, "deliver", [NoLoc EXCEPT !.todo = Targets(Tenant(c), ch)])
  BY Zenon DEF Publish
<1>2. CASE Reply(c, 1)
  <2>1. Jump(c)
    BY <1>1, <1>2, ReceiveOK, ReplyJump, Zenon
  <2> QED BY <1>1, <2>1, ReceiveOK, SameHub, Zenon DEF Still
<1>3. CASE Goto(c, "deliver", [NoLoc EXCEPT !.todo = Targets(Tenant(c), ch)])
  <2> DEFINE l == [NoLoc EXCEPT !.todo = Targets(Tenant(c), ch)]
  <2>1. l \in LocType /\ "deliver" \in Plain
    <3>1. Targets(Tenant(c), ch) \subseteq Clients \X Names
      BY Zenon DEF Targets
    <3> HIDE DEF Targets
    <3> QED BY <3>1, NoLocType, Zenon DEF LocType, Plain
  <2>2. Jump(c)
    BY <1>1, <1>3, <2>1, ReceiveOK, GotoJump, Zenon
  <2> QED BY <1>1, <2>2, ReceiveOK, SameHub, Zenon DEF Still
<1> QED BY <1>1, <1>2, <1>3, Zenon

\* NewClient returns an object of the connection that was not in use.
LEMMA NewClientOK ==
  ASSUME NEW c \in Conns, Fresh(c) # {}
  PROVE  NewClient(c) \in Clients /\ Owner[NewClient(c)] = c /\ home[NewClient(c)] = Nil
BY Zenon DEF NewClient, Fresh

\* SUBSCRIBE up to its first critical section.
LEMMA SubscribeStill ==
  ASSUME IInv, NEW c \in Conns, Subscribe(c)
  PROVE  Still(c)
<1>1. PICK kind \in Kinds("SUBSCRIBE", "PSUBSCRIBE") : \E N \in SUBSET kind[2] \ {{}} :
        /\ Receive(c, kind[1]) /\ UNCHANGED <<hub, subs, shut>>
        /\ IF ~ HasTenant(c)
           THEN AutoBind(c) /\ Reply(c, 1) /\ UNCHANGED home
           ELSE /\ Goto(c, "sub", [NoLoc EXCEPT !.names = N])
                /\ IF ctx[c].pub # Nil
                   THEN AutoBind(c) /\ UNCHANGED home
                   ELSE /\ Fresh(c) # {}
                        /\ home' = [home EXCEPT ![NewClient(c)] = Tenant(c)]
                        /\ ctx' = [ctx EXCEPT ![c].tenant = Tenant(c), ![c].pub = NewClient(c)]
  BY Zenon DEF Subscribe
<1>2. PICK N \in SUBSET kind[2] \ {{}} :
        /\ Receive(c, kind[1]) /\ UNCHANGED <<hub, subs, shut>>
        /\ IF ~ HasTenant(c)
           THEN AutoBind(c) /\ Reply(c, 1) /\ UNCHANGED home
           ELSE /\ Goto(c, "sub", [NoLoc EXCEPT !.names = N])
                /\ IF ctx[c].pub # Nil
                   THEN AutoBind(c) /\ UNCHANGED home
                   ELSE /\ Fresh(c) # {}
                        /\ home' = [home EXCEPT ![NewClient(c)] = Tenant(c)]
                        /\ ctx' = [ctx EXCEPT ![c].tenant = Tenant(c), ![c].pub = NewClient(c)]
  BY <1>1, Zenon
<1> DEFINE l == [NoLoc EXCEPT !.names = N]
<1>3. l \in LocType /\ "sub" \in Plain
  <2>1. N \subseteq Names
    BY DEF Kinds, Names
  <2> QED BY <2>1, NoLocType, Zenon DEF LocType, Plain
<1>4. CASE AutoBind(c) /\ Reply(c, 1) /\ UNCHANGED home
  <2>1. Jump(c)
    BY <1>2, <1>4, ReceiveOK, ReplyJump, Zenon
  <2> QED BY <1>2, <1>4, <2>1, ReceiveOK, SameHub, Zenon DEF Still, hubVars
<1>5. CASE ctx[c].pub # Nil /\ Goto(c, "sub", l) /\ AutoBind(c) /\ UNCHANGED home
  <2>1. Jump(c)
    BY <1>2, <1>3, <1>5, ReceiveOK, GotoJump, Zenon
  <2> QED BY <1>2, <1>5, <2>1, ReceiveOK, SameHub, Zenon DEF Still, hubVars
<1>6. CASE /\ HasTenant(c) /\ ctx[c].pub = Nil /\ Goto(c, "sub", l) /\ Fresh(c) # {}
           /\ home' = [home EXCEPT ![NewClient(c)] = Tenant(c)]
           /\ ctx' = [ctx EXCEPT ![c].tenant = Tenant(c), ![c].pub = NewClient(c)]
  <2> DEFINE x == [ctx[c] EXCEPT !.tenant = Tenant(c), !.pub = NewClient(c)]
  <2>1. ctx[c] \in CtxType /\ LocalOK(pc[c], loc[c], ctx[c])
    BY Zenon DEF IInv, SessType, SessionsOK
  <2>2. Tenant(c) \in Tenants
    BY <1>6, <2>1, SessionAssumption, Zenon DEF HasTenant, Tenant, CtxType
  <2>3. NewClient(c) \in Clients /\ NewClient(c) # Nil
    BY <1>6, NewClientOK, HubAssumption, Zenon
  <2>4. /\ x \in CtxType /\ x.tenant = Tenant(c) /\ x.bound = ctx[c].bound
        /\ x.pub = NewClient(c)
    BY <2>1, <2>2, <2>3, Zenon DEF CtxType
  <2>5. ctx[c].bound => Tenant(c) = ctx[c].tenant
    BY <2>1, HubAssumption, Zenon DEF LocalOK, Tenant
  <2>6. LocalOK("sub", l, x)
    BY <2>2, <2>3, <2>4, Zenon DEF LocalOK, Dropping, Outside
  <2>7. Moves(c, "sub", l, x)
    <3>1. ctx' = [ctx EXCEPT ![c] = x]
      BY <1>6, Zenon DEF IInv, SessType
    <3> QED BY <1>6, <3>1, Zenon DEF Moves, Goto
  <2>8. Jump(c)
    BY <1>2, <1>3, <2>4, <2>5, <2>6, <2>7, ReceiveOK, PlainJump, Zenon
  <2>9. HubTypeOK'
    BY <1>2, <1>6, <2>2, <2>3, Zenon DEF HubTypeOK, IInv
  <2> QED BY <1>2, <2>8, <2>9, ReceiveOK, Zenon DEF Still
<1> QED BY <1>2, <1>4, <1>5, <1>6, Zenon

\* Replies: written, or failed; and the end of the loop.
LEMMA WriteStill ==
  ASSUME IInv, NEW c \in Conns, Hangup(c) \/ WriteReply(c) \/ WriteFailed(c)
  PROVE  Still(c)
<1>1. pc[c] \in Plain /\ ctx' = ctx /\ UNCHANGED <<hubVars, connCount, left, netVars>>
  BY Zenon DEF Hangup, WriteReply, WriteFailed, Plain
<1>2. left' \in [Conns -> Nat] /\ HubTypeOK'
  BY <1>1, SameHub, Zenon DEF IInv, NetType
<1>3. unread' \in [Conns -> 0 .. SockBuf]
  BY SessionAssumption DEF Hangup, WriteReply, WriteFailed, CanWrite, Written, IInv, NetType
<1>4. CASE Leave(c)
  <2>1. Jump(c)
    BY <1>1, <1>4, LeaveJump, Zenon
  <2> QED BY <1>1, <1>2, <1>3, <2>1, Zenon DEF Still
<1>5. CASE loc[c].replies > 1 /\ Goto(c, "write", [loc[c] EXCEPT !.replies = @ - 1])
  <2> DEFINE l == [loc[c] EXCEPT !.replies = @ - 1]
  <2>1. l \in LocType /\ "write" \in Plain
    BY <1>5 DEF IInv, SessType, LocType, Plain
  <2>2. Jump(c)
    BY <1>1, <1>5, <2>1, GotoJump, Zenon
  <2> QED BY <1>1, <1>2, <1>3, <2>2, Zenon DEF Still
<1>6. CASE Goto(c, "read", NoLoc)
  <2>1. "read" \in Plain
    BY Zenon DEF Plain
  <2>2. Jump(c)
    BY <1>1, <1>6, <2>1, NoLocType, GotoJump, Zenon
  <2> QED BY <1>1, <1>2, <1>3, <2>2, Zenon DEF Still
<1> QED BY <1>4, <1>5, <1>6, Zenon DEF Hangup, WriteReply, WriteFailed

\* The hub keeps its type.
LEMMA RegisterType ==
  ASSUME HubTypeOK, NEW x \in Clients, NEW n \in Names, NEW N,
         Register(x, n) \/ Unregister(x, N)
  PROVE  hub' \in [Tenants -> [Names -> SUBSET Clients]]
<1>1. CASE Register(x, n)
  BY <1>1, ZenonT(30) DEF Register, HubTypeOK
<1>2. CASE Unregister(x, N)
  BY <1>2, ZenonT(30) DEF Unregister, HubTypeOK
<1> QED BY <1>1, <1>2, Zenon

\* One name of SUBSCRIBE or UNSUBSCRIBE: in the hub, then in the client.
LEMMA NameStill ==
  ASSUME IInv, NEW c \in Conns,
         SubscribeHub(c) \/ SubscribeSet(c) \/ UnsubscribeHub(c) \/ UnsubscribeSet(c)
  PROVE  Still(c)
<1>1. /\ pc[c] \in Plain /\ ctx' = ctx /\ UNCHANGED <<connCount, unread, left, netVars>>
      /\ home' = home /\ shut' = shut
  BY Zenon DEF SubscribeHub, SubscribeSet, UnsubscribeHub, UnsubscribeSet, Plain
<1>2. left' \in [Conns -> Nat] /\ unread' \in [Conns -> 0 .. SockBuf]
  BY <1>1, Zenon DEF IInv, NetType
<1>3. /\ ctx[c].pub \in Clients /\ loc[c] \in LocType
      /\ pc[c] \in {"sub2", "un2"} => loc[c].name \in Names
  <2>1. LocalOK(pc[c], loc[c], ctx[c]) /\ ctx[c] \in CtxType /\ loc[c] \in LocType
    BY Zenon DEF IInv, SessType, SessionsOK
  <2>2. pc[c] \in {"sub", "sub2", "un", "un2"}
    BY Zenon DEF SubscribeHub, SubscribeSet, UnsubscribeHub, UnsubscribeSet
  <2> QED BY <2>1, <2>2, Zenon DEF LocalOK, CtxType
<1>4. ctx[c].pub # Nil
  BY <1>3, HubAssumption, Zenon
<1>5. ASSUME NEW n \in loc[c].names, NEW a \in {"sub2", "un2"},
             Goto(c, a, [loc[c] EXCEPT !.names = @ \ {n}, !.name = n, !.replies = @ + 1])
      PROVE  Jump(c)
  <2> DEFINE l == [loc[c] EXCEPT !.names = @ \ {n}, !.name = n, !.replies = @ + 1]
  <2>0. /\ loc[c].names \ {n} \in SUBSET Names /\ n \in Names /\ loc[c].replies + 1 \in Nat
        /\ a \in Plain
    BY <1>3 DEF LocType, Plain
  <2>1. l \in LocType /\ l.name = n
    BY <1>3, <2>0, ZenonT(30) DEF LocType
  <2>2. Goto(c, a, l) /\ a \notin {"push", "acquire"}
    BY <1>5, Zenon
  <2> HIDE DEF l
  <2> QED BY <1>1, <1>4, <2>0, <2>1, <2>2, GotoJump, Zenon
<1>6. ASSUME NEW a \in {"sub", "un"}, NextName(c, a)
      PROVE  Jump(c)
  <2> DEFINE l == [loc[c] EXCEPT !.name = Nil]
             b == IF loc[c].names = {} THEN "write" ELSE a
  <2>1. l \in LocType /\ b \in Plain /\ b \notin {"sub2", "un2", "push", "acquire"}
    BY <1>3, Zenon DEF LocType, Plain
  <2>2. Goto(c, b, l)
    BY <1>6, Zenon DEF NextName
  <2> HIDE DEF l, b
  <2> QED BY <1>1, <1>4, <2>1, <2>2, GotoJump, Zenon
<1>7. CASE SubscribeHub(c) \/ UnsubscribeHub(c)
  <2>1. PICK n \in loc[c].names, a \in {"sub2", "un2"} :
          /\ Goto(c, a, [loc[c] EXCEPT !.names = @ \ {n}, !.name = n, !.replies = @ + 1])
          /\ Register(ctx[c].pub, n) \/ Unregister(ctx[c].pub, {n})
    BY <1>7, Zenon DEF SubscribeHub, UnsubscribeHub
  <2>2. n \in Names
    BY <1>3, Zenon DEF LocType
  <2>3. hub' \in [Tenants -> [Names -> SUBSET Clients]]
    BY <1>3, <2>1, <2>2, RegisterType, Zenon DEF IInv
  <2>4. subs' = subs
    BY <1>7, Zenon DEF SubscribeHub, UnsubscribeHub
  <2>5. HubTypeOK'
    BY <1>1, <2>3, <2>4, Zenon DEF IInv, HubTypeOK
  <2> QED BY <1>1, <1>2, <1>5, <2>1, <2>5, Zenon DEF Still
<1>8. CASE SubscribeSet(c) \/ UnsubscribeSet(c)
  <2>1. NextName(c, "sub") \/ NextName(c, "un")
    BY <1>8, Zenon DEF SubscribeSet, UnsubscribeSet
  <2>2. HubTypeOK'
    <3>1. hub' = hub /\ subs' \in [Clients -> SUBSET Names]
      <4>1. PICK N \in SUBSET Names : subs' = [subs EXCEPT ![ctx[c].pub] = N]
        <5>1. subs[ctx[c].pub] \in SUBSET Names /\ loc[c].name \in Names \cup {Nil}
          BY <1>3, Zenon DEF IInv, HubTypeOK, LocType
        <5>2. CASE SubscribeSet(c)
          BY <1>3, <5>1, <5>2, Zenon DEF SubscribeSet
        <5>3. CASE UnsubscribeSet(c)
          BY <5>1, <5>3, Zenon DEF UnsubscribeSet
        <5> QED BY <1>8, <5>2, <5>3, Zenon
      <4>2. hub' = hub /\ subs \in [Clients -> SUBSET Names]
        BY <1>8, Zenon DEF SubscribeSet, UnsubscribeSet, IInv, HubTypeOK
      <4> QED BY <4>1, <4>2, Zenon
    <3> QED BY <1>1, <3>1, Zenon DEF IInv, HubTypeOK
  <2> QED BY <1>1, <1>2, <1>6, <2>1, <2>2, Zenon DEF Still
<1> QED BY <1>7, <1>8, Zenon

\* Publish: each recipient in turn.
LEMMA DeliverStill ==
  ASSUME IInv, NEW c \in Conns, Deliver(c) \/ Push(c) \/ Published(c)
  PROVE  Still(c)
<1>1. /\ pc[c] \in Plain /\ ctx' = ctx /\ UNCHANGED <<hubVars, connCount, left, netVars>>
  BY Zenon DEF Deliver, Push, Published, Plain
<1>2. left' \in [Conns -> Nat] /\ HubTypeOK'
  BY <1>1, SameHub, Zenon DEF IInv, NetType
<1>3. loc[c] \in LocType
  BY Zenon DEF IInv, SessType
<1>4. CASE Deliver(c)
  <2>1. PICK r \in loc[c].todo :
          Goto(c, IF shut[r[1]] THEN "deliver" ELSE "push",
               [loc[c] EXCEPT !.todo = @ \ {r}, !.to = IF shut[r[1]] THEN Nil ELSE r[1]])
    BY <1>4, Zenon DEF Deliver
  <2> DEFINE to == IF shut[r[1]] THEN Nil ELSE r[1]
             a == IF shut[r[1]] THEN "deliver" ELSE "push"
             l == [loc[c] EXCEPT !.todo = @ \ {r}, !.to = to]
  <2>2. r[1] \in Clients
    BY <1>3, Zenon DEF LocType
  <2>3. to \in Clients \cup {Nil} /\ (a = "push" => to \in Clients) /\ a \in {"deliver", "push"}
    BY <2>2, Zenon
  <2>4. Goto(c, a, l)
    BY <2>1, Zenon
  <2> HIDE DEF to, a
  <2>5. l \in LocType /\ l.to = to
    BY <1>3, <2>3, Zenon DEF LocType
  <2> HIDE DEF l
  <2>6. a \in Plain
    BY <2>3, Zenon DEF Plain
  <2>7. Jump(c)
    BY <1>1, <2>3, <2>4, <2>5, <2>6, GotoJump, Zenon
  <2>8. unread' \in [Conns -> 0 .. SockBuf]
    BY <1>4, Zenon DEF Deliver, IInv, NetType
  <2> QED BY <1>1, <1>2, <2>7, <2>8, Zenon DEF Still
<1>5. CASE Push(c)
  <2> DEFINE l == [loc[c] EXCEPT !.to = Nil]
  <2>1. l \in LocType /\ "deliver" \in Plain /\ Goto(c, "deliver", l)
    BY <1>3, <1>5, Zenon DEF LocType, Plain, Push
  <2>2. Jump(c)
    BY <1>1, <2>1, GotoJump, Zenon
  <2>3. unread' \in [Conns -> 0 .. SockBuf]
    <3>1. unread \in [Conns -> 0 .. SockBuf] /\ SockBuf \in Nat
      BY SessionAssumption, Zenon DEF IInv, NetType
    <3>2. CASE unread' = unread
      BY <3>1, <3>2, Zenon
    <3>3. ASSUME NEW d, CanWrite(d), Written(d) PROVE unread' \in [Conns -> 0 .. SockBuf]
      <4> DEFINE v == IF peer[d] = "live" THEN unread[d] + 1 ELSE unread[d]
      <4>1. unread' = [unread EXCEPT ![d] = v]
        BY <3>3, Zenon DEF Written
      <4>2. d \in Conns => unread[d] \in 0 .. SockBuf
        BY <3>1, Zenon
      <4>3. peer[d] = "live" => unread[d] < SockBuf
        BY <3>3, Zenon DEF CanWrite
      <4>4. d \in Conns => v \in 0 .. SockBuf
        BY <3>1, <4>2, <4>3
      <4> HIDE DEF v
      <4> QED BY <3>1, <4>1, <4>4, Zenon
    <3> QED BY <1>5, <3>2, <3>3, Zenon DEF Push
  <2> QED BY <1>1, <1>2, <2>2, <2>3, Zenon DEF Still
<1>6. CASE Published(c)
  <2>1. Jump(c) /\ unread' = unread
    BY <1>1, <1>6, ReplyJump, Zenon DEF Published
  <2> QED BY <1>1, <1>2, <2>1, Zenon DEF Still, IInv, NetType
<1> QED BY <1>4, <1>5, <1>6, Zenon

\* Client.Close, for AUTH and for the teardown, and the end of AUTH.
LEMMA DropStill ==
  ASSUME IInv, NEW c \in Conns, CloseMark(c) \/ CloseChannels(c) \/ ClosePatterns(c) \/ Bind(c)
  PROVE  Still(c)
<1>1. /\ UNCHANGED <<home, connCount, unread, left, netVars>>
      /\ pc[c] \in Dropping \cup {"bind"}
  BY Zenon DEF CloseMark, CloseChannels, ClosePatterns, Bind, hubVars, Dropping
<1>2. left' \in [Conns -> Nat] /\ unread' \in [Conns -> 0 .. SockBuf]
  BY <1>1, Zenon DEF IInv, NetType
<1>3. LocalOK(pc[c], loc[c], ctx[c]) /\ ctx[c] \in CtxType /\ loc[c] \in LocType
  BY Zenon DEF IInv, SessType, SessionsOK
<1>4. pc[c] \in Dropping => ctx[c].pub \in Clients
  BY <1>3, Zenon DEF LocalOK, CtxType
<1>5. ASSUME NEW N \in SUBSET Names, NEW a, pc[c] \in Dropping, ctx' = ctx,
             a \in Dropping \/ a = loc[c].then, a = "punsub" => N \subseteq Patterns,
             Goto(c, a, [loc[c] EXCEPT !.names = N])
      PROVE  Jump(c)
  <2> DEFINE l == [loc[c] EXCEPT !.names = N]
  <2>1. l \in LocType /\ l.tenant = loc[c].tenant /\ l.then = loc[c].then /\ l.names = N
    BY <1>3, Zenon DEF LocType
  <2>2. Goto(c, a, l)
    BY <1>5, Zenon
  <2> HIDE DEF l
  <2>3. loc[c].then \in {"leave", "bind"}
    BY <1>3, Zenon DEF LocType
  <2>4. LocalOK(a, l, ctx[c])
    BY <1>3, <1>5, <2>1, <2>3, Zenon DEF LocalOK, Dropping, Outside
  <2>5. SlotsOf(a, l, ctx[c]) = SlotsOf(pc[c], loc[c], ctx[c])
    BY <1>5, <2>1, <2>3, Zenon DEF SlotsOf, Dropping
  <2>6. Moves(c, a, l, ctx[c])
    <3>1. ctx' = [ctx EXCEPT ![c] = ctx[c]]
      BY <1>5, Zenon DEF IInv, SessType
    <3> QED BY <2>2, <3>1, Zenon DEF Moves, Goto
  <2>7. a \in Labels \ Outside /\ pc[c] \notin Outside
    BY <1>5, <2>3, Zenon DEF Labels, Outside, Dropping
  <2> QED BY <1>3, <2>1, <2>4, <2>5, <2>6, <2>7, Zenon DEF Jump
<1>6. CASE CloseMark(c)
  <2>1. pc[c] \in Dropping /\ subs[ctx[c].pub] \in SUBSET Names
    BY <1>4, <1>6, Zenon DEF CloseMark, Dropping, IInv, HubTypeOK
  <2>2. Jump(c)
    BY <1>5, <1>6, <2>1, Zenon DEF CloseMark, Dropping
  <2>3. HubTypeOK'
    BY <1>4, <1>6, <2>1, Zenon DEF CloseMark, IInv, HubTypeOK
  <2> QED BY <1>1, <1>2, <2>2, <2>3, Zenon DEF Still
<1>7. CASE CloseChannels(c)
  <2>1. /\ pc[c] \in Dropping /\ loc[c].names \ Channels \in SUBSET Names
        /\ loc[c].names \ Channels \subseteq Patterns
    BY <1>3, <1>7, Zenon DEF CloseChannels, Dropping, LocType, Names
  <2>2. Jump(c)
    BY <1>5, <1>7, <2>1, Zenon DEF CloseChannels, Dropping
  <2>3. hub' \in [Tenants -> [Names -> SUBSET Clients]]
    BY <1>4, <1>7, <2>1, ZenonT(30) DEF CloseChannels, Unregister, IInv, HubTypeOK
  <2>4. HubTypeOK'
    BY <1>7, <2>3, Zenon DEF CloseChannels, IInv, HubTypeOK
  <2> QED BY <1>1, <1>2, <2>2, <2>4, Zenon DEF Still
<1>8. CASE ClosePatterns(c)
  <2>1. pc[c] \in Dropping
    BY <1>8, Zenon DEF ClosePatterns, Dropping
  <2>2. loc[c].then # "punsub"
    BY <1>3, Zenon DEF LocType
  <2>3. Jump(c)
    BY <1>5, <1>8, <2>1, <2>2, Zenon DEF ClosePatterns
  <2>4. hub' \in [Tenants -> [Names -> SUBSET Clients]]
    BY <1>4, <1>8, <2>1, ZenonT(30) DEF ClosePatterns, Unregister, IInv, HubTypeOK
  <2>5. HubTypeOK'
    BY <1>8, <2>4, Zenon DEF ClosePatterns, IInv, HubTypeOK
  <2> QED BY <1>1, <1>2, <2>3, <2>5, Zenon DEF Still
<1>9. CASE Bind(c)
  <2> DEFINE x == [tenant |-> loc[c].tenant, bound |-> TRUE, pub |-> Nil]
             l == [NoLoc EXCEPT !.replies = 1]
  <2>1. loc[c].tenant \in Tenants /\ loc[c].then = "bind" /\ pc[c] = "bind"
    BY <1>3, <1>9, Zenon DEF Bind, LocalOK
  <2>2. x \in CtxType /\ l \in LocType
    BY <2>1, NoLocType, Zenon DEF CtxType, LocType
  <2>3. LocalOK("write", l, x)
    BY <2>1, Zenon DEF LocalOK, Dropping, Outside
  <2>4. SlotsOf("write", l, x) = SlotsOf(pc[c], loc[c], ctx[c])
    BY <2>1, Zenon DEF SlotsOf
  <2>5. Moves(c, "write", l, x)
    BY <1>9, Zenon DEF Bind, Moves, Reply, Goto
  <2>6. "write" \in Labels \ Outside /\ pc[c] \notin Outside
    BY <2>1, Zenon DEF Labels, Outside
  <2>7. Jump(c)
    BY <2>2, <2>3, <2>4, <2>5, <2>6, Zenon DEF Jump
  <2> QED BY <1>1, <1>2, <1>9, <2>7, SameHub, Zenon DEF Still, Bind
<1> QED BY <1>6, <1>7, <1>8, <1>9, Zenon

----------------------------------------------------------------------------
(* The steps that take and give back slots, and the server *)

\* A session that takes one slot of t, counted by AcquireConn.
LEMMA TakesTenant ==
  ASSUME CountingFact, IInv, NEW c \in Conns, NEW t \in Tenants, Admitted' = Admitted,
         \A d \in Conns \ {c} : Slots(d)' = Slots(d),
         Slots(c)' = Slots(c) \cup {t}, t \notin Slots(c),
         MaxClientsOf[t] > 0 => connCount[t] < MaxClientsOf[t],
         connCount' = [connCount EXCEPT ![t] = @ + 1]
  PROVE  TenantSlots' /\ Takes(t, c)
<1>1. Holders(t)' = Holders(t) \cup {c} /\ c \notin Holders(t)
  BY Zenon DEF Holders
<1>2. \A u \in Tenants \ {t} : Holders(u)' = Holders(u)
  BY Zenon DEF Holders
<1>3. IsFiniteSet(Holders(t))
  BY HoldersFinite, Zenon DEF IInv
<1>4. Cardinality(Holders(t)') = Cardinality(Holders(t)) + 1
  BY <1>1, <1>3, OneMore, Zenon
<1>5. connCount[t] = Cardinality(Holders(t)) /\ connCount \in [Tenants -> Nat]
  BY Zenon DEF IInv, TenantSlots, NetType
<1>6. MaxClientsOf[t] \in Nat /\ t # Nil
  BY SessionAssumption, HubAssumption, Zenon
<1>7. TenantSlots'
  <2> SUFFICES ASSUME NEW u \in Tenants
               PROVE  /\ connCount'[u] = Cardinality(Holders(u)')
                      /\ MaxClientsOf[u] > 0 => connCount'[u] <= MaxClientsOf[u]
    BY Zenon DEF TenantSlots
  <2>1. CASE u = t
    BY <1>4, <1>5, <1>6, <2>1
  <2>2. CASE u # t
    BY <1>2, <1>5, <2>2, Zenon DEF IInv, TenantSlots
  <2> QED BY <2>1, <2>2, Zenon
<1>8. Takes(t, c)
  BY <1>1, <1>2, <1>5, <1>6, HubAssumption, Zenon DEF Takes, Held, Limit, Pools
<1> QED BY <1>7, <1>8, Zenon

\* A session that gives one back, by ReleaseConn.
LEMMA GivesTenant ==
  ASSUME CountingFact, IInv, NEW c \in Conns, NEW t \in Tenants, Admitted' = Admitted,
         \A d \in Conns \ {c} : Slots(d)' = Slots(d),
         Slots(c)' = Slots(c) \ {t}, t \in Slots(c),
         ReleaseConn(t)
  PROVE  TenantSlots' /\ Gives(t, c) /\ connCount' \in [Tenants -> Nat]
<1>1. Holders(t)' = Holders(t) \ {c} /\ c \in Holders(t)
  BY Zenon DEF Holders
<1>2. \A u \in Tenants \ {t} : Holders(u)' = Holders(u)
  BY Zenon DEF Holders
<1>3. IsFiniteSet(Holders(t))
  BY HoldersFinite, Zenon DEF IInv
<1>4. /\ Cardinality(Holders(t)') = Cardinality(Holders(t)) - 1
      /\ Cardinality(Holders(t)) \in Nat \ {0}
  BY <1>1, <1>3, OneLess, Zenon
<1>5. connCount[t] = Cardinality(Holders(t)) /\ connCount \in [Tenants -> Nat]
  BY Zenon DEF IInv, TenantSlots, NetType
<1>6. connCount' = [connCount EXCEPT ![t] = @ - 1] /\ connCount' \in [Tenants -> Nat]
  <2>1. connCount[t] > 0 /\ connCount[t] - 1 \in Nat
    BY <1>4, <1>5
  <2>2. connCount' = [connCount EXCEPT ![t] = connCount[t] - 1]
    BY <2>1, Zenon DEF ReleaseConn
  <2> QED BY <1>5, <2>1, <2>2, Zenon
<1>7. MaxClientsOf \in [Tenants -> Nat] /\ t # Nil
  BY SessionAssumption, HubAssumption, Zenon
<1>8. TenantSlots'
  <2> SUFFICES ASSUME NEW u \in Tenants
               PROVE  /\ connCount'[u] = Cardinality(Holders(u)')
                      /\ MaxClientsOf[u] > 0 => connCount'[u] <= MaxClientsOf[u]
    BY Zenon DEF TenantSlots
  <2>0. MaxClientsOf[u] > 0 => connCount[u] <= MaxClientsOf[u]
    BY Zenon DEF IInv, TenantSlots
  <2>1. CASE u = t
    <3>1. connCount'[t] = connCount[t] - 1 /\ connCount[t] \in Nat /\ MaxClientsOf[t] \in Nat
      BY <1>5, <1>6, <1>7, Zenon
    <3> QED BY <1>4, <1>5, <2>0, <2>1, <3>1
  <2>2. CASE u # t
    BY <1>2, <1>5, <1>6, <2>0, <2>2, Zenon DEF IInv, TenantSlots
  <2> QED BY <2>1, <2>2, Zenon
<1>9. Gives(t, c)
  BY <1>1, <1>2, <1>7, HubAssumption, Zenon DEF Gives, Held, Pools
<1> QED BY <1>6, <1>8, <1>9, Zenon

\* A session that goes on and changes what it holds, on connCount's side.
LEMMA SlotStep ==
  ASSUME CountingFact, IInv, NEW c \in Conns, pc[c] \notin Outside, NEW a \in Labels \ Outside,
         NEW l \in LocType, NEW x \in CtxType, LocalOK(a, l, x), Moves(c, a, l, x),
         UNCHANGED <<hubVars, unread, left, netVars>>, NEW t \in Tenants,
         \/ /\ SlotsOf(a, l, x) = SlotsOf(pc[c], loc[c], ctx[c]) \cup {t}
            /\ t \notin SlotsOf(pc[c], loc[c], ctx[c])
            /\ MaxClientsOf[t] > 0 => connCount[t] < MaxClientsOf[t]
            /\ connCount' = [connCount EXCEPT ![t] = @ + 1]
         \/ /\ SlotsOf(a, l, x) = SlotsOf(pc[c], loc[c], ctx[c]) \ {t}
            /\ t \in SlotsOf(pc[c], loc[c], ctx[c])
            /\ ReleaseConn(t)
  PROVE  Keeps
<1>1. /\ SessType' /\ SessionsOK' /\ AcceptOK' /\ ClientSlots' /\ ServType'
      /\ Admitted' = Admitted
      /\ Slots(c)' = SlotsOf(a, l, x) /\ \A d \in Conns \ {c} : Slots(d)' = Slots(d)
  BY MoveKeeps, Zenon
<1>2. Slots(c) = SlotsOf(pc[c], loc[c], ctx[c])
  BY SlotsLocal, Zenon
<1>3. connCount' \in [Tenants -> Nat] /\ TenantSlots' /\ (Takes(t, c) \/ Gives(t, c))
  <2>1. CASE connCount' = [connCount EXCEPT ![t] = @ + 1] /\ Slots(c)' = Slots(c) \cup {t}
             /\ t \notin Slots(c) /\ (MaxClientsOf[t] > 0 => connCount[t] < MaxClientsOf[t])
    <3>1. connCount' \in [Tenants -> Nat]
      BY <2>1 DEF IInv, NetType
    <3> QED BY <1>1, <2>1, <3>1, TakesTenant, Zenon
  <2>2. CASE ReleaseConn(t) /\ Slots(c)' = Slots(c) \ {t} /\ t \in Slots(c)
    BY <1>1, <2>2, GivesTenant, Zenon
  <2> QED BY <1>1, <1>2, <2>1, <2>2, Zenon
<1>4. NetType' /\ HubTypeOK' /\ cfg' = cfg
  BY <1>3, SameHub, Zenon DEF IInv, NetType, netVars
<1>5. PoolStep
  BY <1>3, Zenon DEF PoolStep, Pools
<1> QED BY <1>1, <1>3, <1>4, <1>5, Zenon DEF Keeps, IInv

\* A session's step without effect on the slots.
LEMMA StillStep ==
  ASSUME IInv, NEW c \in Conns, Still(c)
  PROVE  Keeps
BY StillKeeps, Zenon DEF Keeps, PoolStep, Still, netVars

\* DropOr, after AUTH got its slot.
LEMMA DropOrOK ==
  ASSUME IInv, NEW c \in Conns, DropOr(c, loc[c]), ctx' = ctx, loc[c].tenant \in Tenants
  PROVE  \E a \in Labels \ Outside, l \in LocType :
           /\ LocalOK(a, l, ctx[c]) /\ Moves(c, a, l, ctx[c])
           /\ SlotsOf(a, l, ctx[c]) = {loc[c].tenant}
<1> DEFINE a == IF ctx[c].pub # Nil THEN "shut" ELSE "bind"
           l == [loc[c] EXCEPT !.then = "bind"]
<1>1. LocalOK(pc[c], loc[c], ctx[c]) /\ loc[c] \in LocType
  BY Zenon DEF IInv, SessType, SessionsOK
<1>2. l \in LocType /\ l.then = "bind" /\ l.tenant = loc[c].tenant
  BY <1>1, Zenon DEF LocType
<1>3. Moves(c, a, l, ctx[c])
  <2>1. ctx' = [ctx EXCEPT ![c] = ctx[c]]
    BY Zenon DEF IInv, SessType
  <2> QED BY <2>1, Zenon DEF Moves, DropOr, Goto
<1> HIDE DEF l
<1>4. LocalOK(a, l, ctx[c])
  BY <1>1, <1>2, Zenon DEF LocalOK, Dropping, Outside
<1>5. SlotsOf(a, l, ctx[c]) = {loc[c].tenant} /\ a \in Labels \ Outside
  BY <1>2, Zenon DEF SlotsOf, Labels, Outside
<1> QED BY <1>2, <1>3, <1>4, <1>5, Zenon

\* AUTH takes the slot of the new tenant, or answers that there is none.
LEMMA AcquireStep ==
  ASSUME CountingFact, IInv, NEW c \in Conns, AcquireConn(c)
  PROVE  Keeps
<1> DEFINE t == loc[c].tenant
<1>1. /\ LocalOK(pc[c], loc[c], ctx[c]) /\ loc[c] \in LocType /\ ctx[c] \in CtxType
      /\ pc[c] = "acquire"
  BY Zenon DEF IInv, SessType, SessionsOK, AcquireConn
<1>2. /\ t \in Tenants /\ (ctx[c].bound => ctx[c].tenant # t)
      /\ pc[c] \notin Outside /\ pc[c] \in Plain
  BY <1>1, Zenon DEF LocalOK, Outside, Plain
<1>3. UNCHANGED <<hubVars, ctx, unread, left, netVars>>
  BY Zenon DEF AcquireConn
<1>4. SlotsOf(pc[c], loc[c], ctx[c]) = IF ctx[c].bound THEN {ctx[c].tenant} ELSE {}
  BY <1>1, Zenon DEF SlotsOf
<1>5. CASE MaxClientsOf[t] > 0 /\ connCount[t] >= MaxClientsOf[t]
  <2>1. Jump(c) /\ connCount' = connCount
    BY <1>2, <1>3, <1>5, ReplyJump, Zenon DEF AcquireConn
  <2> QED BY <1>3, <2>1, SameHub, StillStep, Zenon DEF Still, IInv, NetType
<1>6. CASE ~ (MaxClientsOf[t] > 0 /\ connCount[t] >= MaxClientsOf[t])
  <2>1. /\ connCount' = [connCount EXCEPT ![t] = @ + 1]
        /\ IF ctx[c].bound THEN Goto(c, "swap", loc[c]) ELSE DropOr(c, loc[c])
    BY <1>6, Zenon DEF AcquireConn
  <2>2. MaxClientsOf[t] > 0 => connCount[t] < MaxClientsOf[t]
    BY <1>2, <1>6, SessionAssumption DEF IInv, NetType
  <2>3. \E a \in Labels \ Outside, l \in LocType :
           /\ LocalOK(a, l, ctx[c]) /\ Moves(c, a, l, ctx[c])
           /\ SlotsOf(a, l, ctx[c]) = SlotsOf(pc[c], loc[c], ctx[c]) \cup {t}
    <3>1. CASE ctx[c].bound
      <4>1. Moves(c, "swap", loc[c], ctx[c])
        <5>1. ctx' = [ctx EXCEPT ![c] = ctx[c]]
          BY <1>3, Zenon DEF IInv, SessType
        <5> QED BY <2>1, <3>1, <5>1, Zenon DEF Moves, Goto
      <4>2. LocalOK("swap", loc[c], ctx[c])
        BY <1>1, <1>2, <3>1, Zenon DEF LocalOK, Dropping, Outside
      <4>3. SlotsOf("swap", loc[c], ctx[c]) = {ctx[c].tenant} \cup {t}
        BY Zenon DEF SlotsOf
      <4>4. "swap" \in Labels \ Outside
        BY Zenon DEF Labels, Outside
      <4> QED BY <1>1, <1>4, <3>1, <4>1, <4>2, <4>3, <4>4, Zenon
    <3>2. CASE ~ ctx[c].bound
      BY <1>2, <1>3, <1>4, <2>1, <3>2, DropOrOK, Zenon
    <3> QED BY <3>1, <3>2, Zenon
  <2>4. t \notin SlotsOf(pc[c], loc[c], ctx[c])
    BY <1>2, <1>4, Zenon
  <2> QED BY <1>1, <1>2, <1>3, <2>1, <2>2, <2>3, <2>4, SlotStep, Zenon
<1> QED BY <1>5, <1>6, Zenon

\* AUTH gives the slot of the previous tenant back.
LEMMA SwapStep ==
  ASSUME CountingFact, IInv, NEW c \in Conns, SwapConn(c)
  PROVE  Keeps
<1> DEFINE t == ctx[c].tenant
<1>1. /\ LocalOK(pc[c], loc[c], ctx[c]) /\ ctx[c] \in CtxType /\ pc[c] = "swap"
      /\ UNCHANGED <<hubVars, ctx, unread, left, netVars>> /\ ReleaseConn(t)
      /\ DropOr(c, loc[c])
  BY Zenon DEF IInv, SessType, SessionsOK, SwapConn
<1>2. t \in Tenants /\ loc[c].tenant \in Tenants /\ t # loc[c].tenant /\ pc[c] \notin Outside
  BY <1>1, Zenon DEF LocalOK, Outside
<1>3. SlotsOf(pc[c], loc[c], ctx[c]) = {t, loc[c].tenant}
  BY <1>1, Zenon DEF SlotsOf
<1>4. {loc[c].tenant} = {t, loc[c].tenant} \ {t}
  BY <1>2, Zenon
<1>5. PICK a \in Labels \ Outside, l \in LocType :
           /\ LocalOK(a, l, ctx[c]) /\ Moves(c, a, l, ctx[c])
           /\ SlotsOf(a, l, ctx[c]) = {loc[c].tenant}
  BY <1>1, <1>2, DropOrOK, Zenon
<1>6. /\ SlotsOf(a, l, ctx[c]) = SlotsOf(pc[c], loc[c], ctx[c]) \ {t}
      /\ t \in SlotsOf(pc[c], loc[c], ctx[c])
  BY <1>3, <1>4, <1>5, Zenon
<1> QED BY <1>1, <1>2, <1>5, <1>6, SlotStep, Zenon

\* The teardown gives back the one slot the session has, if it has one.
LEMMA ReleaseStep ==
  ASSUME CountingFact, IInv, NEW c \in Conns, ReleaseTenantConn(c)
  PROVE  Keeps
<1> DEFINE x == [ctx[c] EXCEPT !.bound = FALSE]
           t == ctx[c].tenant
<1>1. /\ LocalOK(pc[c], loc[c], ctx[c]) /\ ctx[c] \in CtxType /\ pc[c] = "leave"
      /\ UNCHANGED <<hubVars, unread, left, netVars>>
      /\ IF ctx[c].bound THEN ReleaseConn(t) ELSE UNCHANGED connCount
      /\ ctx' = [ctx EXCEPT ![c].bound = FALSE] /\ Goto(c, "release", NoLoc)
  BY Zenon DEF IInv, SessType, SessionsOK, ReleaseTenantConn
<1>2. x \in CtxType /\ x.bound = FALSE /\ x.tenant = t /\ x.pub = ctx[c].pub
  BY <1>1, ZenonT(30) DEF CtxType
<1>3. Moves(c, "release", NoLoc, x)
  <2>1. ctx' = [ctx EXCEPT ![c] = x]
    BY <1>1, Zenon DEF IInv, SessType
  <2> QED BY <1>1, <2>1, Zenon DEF Moves, Goto
<1> HIDE DEF x
<1>4. LocalOK("release", NoLoc, x)
  BY <1>1, <1>2, Zenon DEF LocalOK, Dropping, Outside
<1>5. /\ SlotsOf("release", NoLoc, x) = {}
      /\ SlotsOf(pc[c], loc[c], ctx[c]) = IF ctx[c].bound THEN {t} ELSE {}
  BY <1>1, <1>2, Zenon DEF SlotsOf
<1>6. "release" \in Labels \ Outside /\ pc[c] \notin Outside
  BY <1>1, Zenon DEF Labels, Outside
<1>7. CASE ctx[c].bound
  <2>1. t \in Tenants
    BY <1>1, <1>7, Zenon DEF LocalOK
  <2>2. SlotsOf("release", NoLoc, x) = SlotsOf(pc[c], loc[c], ctx[c]) \ {t}
    BY <1>5, <1>7, Zenon
  <2>3. t \in SlotsOf(pc[c], loc[c], ctx[c]) /\ ReleaseConn(t)
    BY <1>1, <1>5, <1>7, Zenon
  <2> QED BY <1>1, <1>2, <1>3, <1>4, <1>6, <2>1, <2>2, <2>3, NoLocType, SlotStep
<1>8. CASE ~ ctx[c].bound
  <2>1. SlotsOf("release", NoLoc, x) = SlotsOf(pc[c], loc[c], ctx[c]) /\ UNCHANGED connCount
    BY <1>1, <1>5, <1>8, Zenon
  <2>2. Jump(c)
    BY <1>2, <1>3, <1>4, <1>6, <2>1, NoLocType, Zenon DEF Jump
  <2> QED BY <1>1, <2>1, <2>2, SameHub, StillStep, Zenon DEF Still, IInv, NetType
<1> QED BY <1>7, <1>8, Zenon

\* Steps that touch no session keep the sessions and the slots of the tenants.
LEMMA SessionsStay ==
  ASSUME IInv, UNCHANGED <<hubVars, pc, loc, ctx, connCount>>
  PROVE  /\ HubTypeOK' /\ SessType' /\ SessionsOK' /\ TenantSlots'
         /\ \A t \in Tenants : Holders(t)' = Holders(t)
<1>1. HubTypeOK' /\ SessType' /\ SessionsOK'
  BY SameHub, Zenon DEF IInv, SessType, SessionsOK
<1>2. \A c \in Conns : Slots(c)' = Slots(c)
  BY Zenon DEF Slots
<1>3. \A t \in Tenants : Holders(t)' = Holders(t)
  BY <1>2, Zenon DEF Holders
<1>4. TenantSlots'
  BY <1>3, Zenon DEF IInv, TenantSlots
<1> QED BY <1>1, <1>3, <1>4, Zenon

\* ... and those of the server, when the accept loop does not pass the limit.
LEMMA CountStays ==
  ASSUME IInv, UNCHANGED <<hubVars, pc, loc, ctx, connCount, cfg, clientCount>>,
         NetType', ServType', AcceptOK',
         acc'.at \in {"track", "spawn"} <=> acc.at \in {"track", "spawn"},
         acc.at \in {"track", "spawn"} => acc'.conn = acc.conn
  PROVE  Keeps
<1>1. Admitted' = Admitted
  BY Zenon DEF Admitted
<1>2. ClientSlots'
  BY <1>1, Zenon DEF IInv, ClientSlots
<1> QED BY <1>1, <1>2, SessionsStay, Zenon DEF Keeps, IInv, PoolStep, SlotsSame

\* The accept loop outside tryAddClient, up to the goroutine.
LEMMA LoopStep ==
  ASSUME IInv, NEW c,
         ServeStart \/ (c \in Conns /\ Accept(c)) \/ ServeReturn \/ RefuseConn \/ track
  PROVE  Keeps
<1>1. HubTypeOK /\ NetType /\ ServType /\ AcceptOK
  BY Zenon DEF IInv
<1>2. CASE ServeStart \/ ServeReturn
  <2>1. UNCHANGED <<hubVars, sessionVars, conns, clientCount, closer, ln>>
    BY <1>2, Zenon DEF ServeStart, ServeReturn
  <2>2. NetType' /\ ServType'
    BY <1>1, <1>2, <2>1, Zenon DEF ServeStart, ServeReturn, sessionVars, NetType, ServType
  <2>3. AcceptOK'
    BY <1>1, <1>2, <2>1, Zenon DEF ServeStart, ServeReturn, sessionVars, AcceptOK, InHand, ServType
  <2>4. acc.at \notin {"track", "spawn"} /\ acc'.at \notin {"track", "spawn"}
    BY <1>1, <1>2, Zenon DEF ServeStart, ServeReturn, ServType
  <2> QED BY <2>1, <2>2, <2>3, <2>4, CountStays, Zenon DEF sessionVars
<1>3. CASE c \in Conns /\ Accept(c)
  <2>1. UNCHANGED <<hubVars, cfg, pc, loc, ctx, connCount, clientCount>>
    BY <1>3, Zenon DEF Accept
  <2>2. NetType' /\ ServType'
    BY <1>1, <1>3, Zenon DEF Accept, NetType, ServType
  <2>3. AcceptOK'
    <3>1. acc.conn = Nil /\ pc[c] = "none" /\ acc'.at = "admit" /\ acc'.conn = c
      BY <1>1, <1>3, Zenon DEF Accept, AcceptOK, InHand, ServType
    <3>2. sock'[c] = "open" /\ \A d \in Conns \ {c} : sock'[d] = sock[d]
      BY <1>1, <1>3, Zenon DEF Accept, NetType
    <3>3. \A d \in Conns : pc[d] = "none" => sock[d] # "open"
      BY <1>1, <3>1, HubAssumption, Zenon DEF AcceptOK
    <3> QED BY <1>1, <1>3, <2>1, <3>1, <3>2, <3>3, Zenon DEF AcceptOK, InHand
  <2>4. acc.at \notin {"track", "spawn"} /\ acc'.at \notin {"track", "spawn"}
    BY <1>1, <1>3, Zenon DEF Accept, ServType
  <2> QED BY <2>1, <2>2, <2>3, <2>4, CountStays, Zenon
<1>4. CASE RefuseConn
  <2>1. UNCHANGED <<hubVars, cfg, pc, loc, ctx, connCount, clientCount>>
    BY <1>4, Zenon DEF RefuseConn
  <2>2. acc.conn \in Conns /\ acc' = [at |-> "accept", conn |-> Nil, n |-> 0]
    BY <1>1, <1>4, Zenon DEF RefuseConn, AcceptOK, InHand
  <2>3. NetType' /\ ServType'
    BY <1>1, <1>4, <2>2 DEF RefuseConn, NetType, ServType
  <2>4. AcceptOK'
    <3>1. /\ sock'[acc.conn] = "closed"
          /\ \A d \in Conns \ {acc.conn} : sock'[d] = sock[d]
      BY <1>1, <1>4, <2>2, Zenon DEF RefuseConn, NetType
    <3> QED BY <1>1, <2>1, <2>2, <3>1, Zenon DEF AcceptOK, InHand
  <2>5. acc.at \notin {"track", "spawn"} /\ acc'.at \notin {"track", "spawn"}
    BY <1>4, <2>2 DEF RefuseConn
  <2> QED BY <2>1, <2>3, <2>4, <2>5, CountStays, Zenon
<1>5. CASE track
  <2>1. UNCHANGED <<hubVars, sessionVars, clientCount, closer, ln, lnSet>>
    BY <1>5, Zenon DEF track
  <2>2. acc.conn \in Conns /\ acc.at = "track" /\ acc'.at = "spawn" /\ acc'.conn = acc.conn
    BY <1>1, <1>5, Zenon DEF track, AcceptOK, InHand, ServType
  <2>3. NetType' /\ ServType'
    BY <1>1, <1>5, <2>1, <2>2, Zenon DEF track, sessionVars, NetType, ServType
  <2>4. AcceptOK'
    BY <1>1, <2>1, <2>2, Zenon DEF sessionVars, AcceptOK, InHand
  <2> QED BY <2>1, <2>2, <2>3, <2>4, CountStays, Zenon DEF sessionVars
<1> QED BY <1>2, <1>3, <1>4, <1>5, Zenon

\* tryAddClient: the count goes up by one for the connection in hand, and only under
\* the limit.
LEMMA AdmitStep ==
  ASSUME CountingFact, IInv, tryAddClient \/ CompareAndSwap
  PROVE  Keeps
<1>1. /\ NetType /\ ServType /\ AcceptOK /\ ClientSlots /\ cfg.max \in Nat
      /\ acc.at \in {"admit", "cas"}
      /\ UNCHANGED <<hubVars, sessionVars, ln, lnSet, conns, closer>>
  BY CfgOK, Zenon DEF IInv, NetType, tryAddClient, CompareAndSwap
<1>2. /\ acc.conn \in Conns /\ pc[acc.conn] = "none" /\ acc'.conn = acc.conn
      /\ acc'.at \in InHand
  BY <1>1, ZenonT(30) DEF AcceptOK, InHand, ServType, tryAddClient, CompareAndSwap
<1>3. clientCount \in Nat /\ acc.n \in Nat
  BY <1>1, Zenon DEF ServType
<1>4. /\ acc' \in [at : {"admit", "refuse", "cas", "track"}, conn : Conns \cup {Nil}, n : Nat]
      /\ acc'.at = "cas" => acc'.n < cfg.max
      /\ acc'.at # "track" => clientCount' = clientCount
      /\ acc'.at = "track" => /\ clientCount' = clientCount + 1
                              /\ cfg.max > 0 => clientCount < cfg.max
  <2>1. acc \in [at : {"admit", "refuse", "cas", "track"}, conn : Conns \cup {Nil}, n : Nat]
    BY <1>1, Zenon DEF ServType
  <2>2. CASE tryAddClient
    <3>1. CASE cfg.max = 0
      <4>1. clientCount' = clientCount + 1 /\ acc' = [acc EXCEPT !.at = "track"]
        BY <2>2, <3>1, Zenon DEF tryAddClient
      <4> QED BY <1>3, <2>1, <3>1, <4>1
    <3>2. CASE cfg.max # 0
      <4> DEFINE at == IF clientCount >= cfg.max THEN "refuse" ELSE "cas"
      <4>1. clientCount' = clientCount /\ acc' = [acc EXCEPT !.at = at, !.n = clientCount]
        BY <2>2, <3>2, Zenon DEF tryAddClient
      <4>2. at \in {"refuse", "cas"} /\ (at = "cas" => clientCount < cfg.max)
        BY <1>1, <1>3
      <4> HIDE DEF at
      <4>3. acc'.at = at /\ acc'.n = clientCount
        BY <2>1, <4>1, Zenon
      <4>4. acc' \in [at : {"admit", "refuse", "cas", "track"}, conn : Conns \cup {Nil}, n : Nat]
        BY <1>3, <2>1, <4>1, <4>2, Zenon
      <4> QED BY <1>3, <4>1, <4>2, <4>3, <4>4, Zenon
    <3> QED BY <3>1, <3>2, Zenon
  <2>3. CASE CompareAndSwap
    <3>1. acc.n < cfg.max
      BY <1>1, <2>3, Zenon DEF CompareAndSwap, AcceptOK
    <3>2. CASE clientCount = acc.n
      <4>1. clientCount' = clientCount + 1 /\ acc' = [acc EXCEPT !.at = "track", !.n = 0]
        BY <2>3, <3>2, Zenon DEF CompareAndSwap
      <4> QED BY <2>1, <3>1, <3>2, <4>1, Zenon
    <3>3. CASE clientCount # acc.n
      <4>1. clientCount' = clientCount /\ acc' = [acc EXCEPT !.at = "admit", !.n = 0]
        BY <2>3, <3>3, Zenon DEF CompareAndSwap
      <4> QED BY <2>1, <4>1, Zenon
    <3> QED BY <3>2, <3>3, Zenon
  <2> QED BY <2>2, <2>3, Zenon
<1>5. NetType' /\ ServType'
  <2>1. NetType'
    BY <1>1, Zenon DEF NetType, sessionVars
  <2>2. acc' \in [at : {"start", "accept", "admit", "cas", "refuse", "track", "spawn", "returned"},
                  conn : Conns \cup {Nil}, n : Nat]
    BY <1>2, <1>4, Zenon
  <2>3. clientCount' \in Nat
    BY <1>3, <1>4
  <2>4. ServType'
    BY <1>1, <2>2, <2>3, Zenon DEF ServType
  <2> QED BY <2>1, <2>4, Zenon
<1>6. AcceptOK'
  BY <1>1, <1>2, <1>4, Zenon DEF AcceptOK, InHand, sessionVars
<1>7. CASE acc'.at # "track"
  BY <1>1, <1>4, <1>5, <1>6, <1>7, CountStays, Zenon DEF sessionVars
<1>8. CASE acc'.at = "track"
  <2>1. clientCount' = clientCount + 1 /\ (cfg.max > 0 => clientCount < cfg.max)
    BY <1>4, <1>8, Zenon
  <2>2. acc.conn \notin Admitted /\ Admitted' = Admitted \cup {acc.conn}
    BY <1>1, <1>2, <1>8, Zenon DEF Admitted, sessionVars
  <2>3. IsFiniteSet(Admitted) /\ clientCount = Cardinality(Admitted)
    BY <1>1, HoldersFinite, Zenon DEF ClientSlots
  <2>4. ClientSlots'
    <3>1. Cardinality(Admitted') = clientCount + 1
      BY <2>2, <2>3, OneMore, Zenon
    <3>2. cfg.max > 0 => clientCount' <= cfg.max
      BY <1>1, <1>3, <2>1
    <3> QED BY <1>1, <2>1, <3>1, <3>2, Zenon DEF ClientSlots, sessionVars
  <2>5. \A t \in Tenants : Holders(t)' = Holders(t)
    BY <1>1, SessionsStay, Zenon DEF sessionVars
  <2>6. Takes(Nil, acc.conn)
    BY <2>1, <2>2, <2>3, <2>5, Zenon DEF Takes, Held, Limit, Pools
  <2>7. PoolStep
    BY <1>2, <2>6, Zenon DEF PoolStep, Pools
  <2> QED BY <1>1, <1>5, <1>6, <2>4, <2>7, SessionsStay, Zenon DEF Keeps, IInv, sessionVars
<1> QED BY <1>7, <1>8, Zenon

\* A session moves between labels with no AUTH under way: its slots are those of ctx.
LEMMA LabelMove ==
  ASSUME IInv, NEW c \in Conns, NEW a \in {"read", "untrack", "close", "done"},
         pc[c] \in {"none", "release", "untrack", "close"},
         pc' = [pc EXCEPT ![c] = a], UNCHANGED <<hubVars, loc, ctx, connCount>>
  PROVE  /\ HubTypeOK' /\ SessType' /\ SessionsOK' /\ TenantSlots'
         /\ pc'[c] = a /\ \A d \in Conns \ {c} : pc'[d] = pc[d]
         /\ \A t \in Tenants : Holders(t)' = Holders(t)
<1>1. /\ ctx[c] \in CtxType /\ LocalOK(pc[c], loc[c], ctx[c]) /\ loc[c] \in LocType
      /\ HubTypeOK' /\ SessType /\ SessionsOK
  BY SameHub, Zenon DEF IInv, SessType, SessionsOK
<1>2. LocalOK(a, loc[c], ctx[c])
  BY <1>1, Zenon DEF LocalOK, Dropping, Outside
<1>3. Moves(c, a, loc[c], ctx[c]) /\ a \in Labels
  BY <1>1, Zenon DEF Moves, SessType, Labels
<1>4. /\ SessType' /\ SessionsOK' /\ pc'[c] = a /\ Slots(c)' = SlotsOf(a, loc[c], ctx[c])
      /\ \A d \in Conns \ {c} : pc'[d] = pc[d] /\ Slots(d)' = Slots(d)
  <2>1. /\ SessType' /\ SessionsOK'
        /\ pc'[c] = a /\ loc'[c] = loc[c] /\ ctx'[c] = ctx[c]
        /\ Slots(c)' = SlotsOf(a, loc[c], ctx[c])
        /\ \A d \in Conns \ {c} : /\ pc'[d] = pc[d] /\ loc'[d] = loc[d] /\ ctx'[d] = ctx[d]
                                  /\ Slots(d)' = Slots(d)
    BY <1>1, <1>2, <1>3, MoveOK, Zenon
  <2> QED BY <2>1, Zenon
<1>5. Slots(c) = SlotsOf(a, loc[c], ctx[c])
  BY Zenon DEF Slots, SlotsOf
<1>6. \A t \in Tenants : Holders(t)' = Holders(t)
  BY <1>4, <1>5, Zenon DEF Holders
<1>7. TenantSlots'
  BY <1>6, Zenon DEF IInv, TenantSlots
<1> QED BY <1>1, <1>4, <1>6, <1>7, Zenon

\* The goroutine of a session starts; the connection was counted when it was admitted.
LEMMA SpawnStep ==
  ASSUME IInv, Spawn
  PROVE  Keeps
<1>1. /\ acc.at = "spawn" /\ acc' = [at |-> "accept", conn |-> Nil, n |-> 0]
      /\ pc' = [pc EXCEPT ![acc.conn] = "read"]
      /\ UNCHANGED <<hubVars, cfg, loc, ctx, connCount, sock, peer, unread, left,
                     ln, lnSet, conns, clientCount, closer>>
      /\ NetType /\ ServType /\ AcceptOK /\ ClientSlots
  BY Zenon DEF Spawn, IInv
<1>2. /\ acc.conn \in Conns /\ pc[acc.conn] = "none"
      /\ sock[acc.conn] \in {"open", "closed"}
  BY <1>1, Zenon DEF AcceptOK, InHand
<1>3. /\ HubTypeOK' /\ SessType' /\ SessionsOK' /\ TenantSlots'
      /\ pc'[acc.conn] = "read" /\ \A d \in Conns \ {acc.conn} : pc'[d] = pc[d]
      /\ \A t \in Tenants : Holders(t)' = Holders(t)
  BY <1>1, <1>2, LabelMove, Zenon
<1>4. NetType' /\ ServType'
  BY <1>1, Zenon DEF NetType, ServType
<1>5. AcceptOK'
  BY <1>1, <1>2, <1>3, Zenon DEF AcceptOK, InHand
<1>6. Admitted' = Admitted
  BY <1>1, <1>2, <1>3, Zenon DEF Admitted
<1>7. ClientSlots'
  BY <1>1, <1>6, Zenon DEF ClientSlots
<1> QED BY <1>1, <1>3, <1>4, <1>5, <1>6, <1>7, Zenon DEF Keeps, IInv, PoolStep, SlotsSame

\* The deferred calls after handleConn: the first gives the server's slot back.
LEMMA EndStep ==
  ASSUME CountingFact, IInv, NEW c \in Conns, releaseClient(c) \/ untrack(c) \/ CloseConn(c)
  PROVE  Keeps
<1>1. /\ pc[c] \in {"release", "untrack", "close"} /\ pc[c] # "none"
      /\ UNCHANGED <<hubVars, cfg, loc, ctx, connCount, peer, unread, left, ln, lnSet, acc, closer>>
      /\ NetType /\ ServType /\ AcceptOK /\ ClientSlots /\ cfg.max \in Nat
  BY CfgOK, Zenon DEF releaseClient, untrack, CloseConn, serverVars, IInv, NetType
<1>2. acc.at \in {"track", "spawn"} => acc.conn # c
  BY <1>1, Zenon DEF AcceptOK, InHand
<1>3. ASSUME NEW a \in {"untrack", "close", "done"}, pc' = [pc EXCEPT ![c] = a]
      PROVE  /\ HubTypeOK' /\ SessType' /\ SessionsOK' /\ TenantSlots'
             /\ pc'[c] = a /\ \A d \in Conns \ {c} : pc'[d] = pc[d]
             /\ \A t \in Tenants : Holders(t)' = Holders(t)
  BY <1>1, <1>3, LabelMove, Zenon
<1>4. CASE releaseClient(c)
  <2>1. /\ pc[c] = "release" /\ pc' = [pc EXCEPT ![c] = "untrack"]
        /\ clientCount' = clientCount - 1 /\ UNCHANGED <<sock, conns>>
    BY <1>4, Zenon DEF releaseClient
  <2>2. c \in Admitted /\ Admitted' = Admitted \ {c}
    BY <1>1, <1>2, <1>3, <2>1, Zenon DEF Admitted
  <2>3. IsFiniteSet(Admitted) /\ clientCount = Cardinality(Admitted)
    BY <1>1, HoldersFinite, Zenon DEF ClientSlots
  <2>4. Cardinality(Admitted') = clientCount - 1 /\ clientCount \in Nat \ {0}
    BY <2>2, <2>3, OneLess, Zenon
  <2>5. ClientSlots'
    BY <1>1, <2>1, <2>4 DEF ClientSlots
  <2>6. NetType' /\ ServType'
    BY <1>1, <2>1, <2>4 DEF NetType, ServType
  <2>7. AcceptOK'
    BY <1>1, <1>3, <2>1, Zenon DEF AcceptOK, InHand
  <2>8. Gives(Nil, c)
    BY <1>3, <2>1, <2>2, Zenon DEF Gives, Held, Pools
  <2>9. PoolStep
    BY <2>8, Zenon DEF PoolStep, Pools
  <2> QED BY <1>1, <1>3, <2>1, <2>5, <2>6, <2>7, <2>9, Zenon DEF Keeps, IInv
<1>5. CASE untrack(c)
  <2>1. /\ pc[c] = "untrack" /\ pc' = [pc EXCEPT ![c] = "close"]
        /\ conns' = conns \ {c} /\ UNCHANGED <<sock, clientCount>>
    BY <1>5, Zenon DEF untrack
  <2>2. Admitted' = Admitted
    BY <1>1, <1>3, <2>1, Zenon DEF Admitted
  <2>3. NetType' /\ ServType'
    BY <1>1, <2>1, Zenon DEF NetType, ServType
  <2>4. AcceptOK'
    BY <1>1, <1>3, <2>1, Zenon DEF AcceptOK, InHand
  <2>5. ClientSlots'
    BY <1>1, <2>1, <2>2, Zenon DEF ClientSlots
  <2> QED BY <1>1, <1>3, <2>1, <2>2, <2>3, <2>4, <2>5, Zenon DEF Keeps, IInv, PoolStep, SlotsSame
<1>6. CASE CloseConn(c)
  <2>1. /\ pc[c] = "close" /\ pc' = [pc EXCEPT ![c] = "done"]
        /\ sock' = [sock EXCEPT ![c] = "closed"] /\ UNCHANGED <<conns, clientCount>>
    BY <1>6, Zenon DEF CloseConn, serverVars
  <2>2. Admitted' = Admitted
    BY <1>1, <1>3, <2>1, Zenon DEF Admitted
  <2>3. NetType' /\ ServType'
    BY <1>1, <2>1, Zenon DEF NetType, ServType
  <2>4. AcceptOK'
    <3>1. sock'[c] = "closed" /\ \A d \in Conns \ {c} : sock'[d] = sock[d]
      BY <1>1, <2>1, Zenon DEF NetType
    <3>2. pc'[c] = "done" /\ \A d \in Conns \ {c} : pc'[d] = pc[d]
      BY <1>1, <1>3, <2>1, Zenon
    <3>3. acc' = acc /\ cfg' = cfg
      BY <1>1, <1>3, <2>1, Zenon
    <3>4. \A d \in Conns : \/ d = c /\ pc'[d] = "done" /\ sock'[d] = "closed"
                           \/ d # c /\ pc'[d] = pc[d] /\ sock'[d] = sock[d]
      BY <3>1, <3>2, Zenon
    <3>5. \A d \in Conns : /\ pc'[d] # "none" => sock'[d] \in {"open", "closed"}
                           /\ pc'[d] = "none" /\ sock'[d] = "open" => acc.conn = d
                           /\ pc'[d] = "done" => sock'[d] = "closed"
      BY <1>1, <3>4, Zenon DEF AcceptOK
    <3>6. acc.at \in InHand => /\ acc.conn \in Conns /\ pc'[acc.conn] = "none"
                               /\ sock'[acc.conn] \in {"open", "closed"}
      BY <1>1, <2>1, <3>4, Zenon DEF AcceptOK
    <3>7. acc.at \notin InHand => acc.conn = Nil
      BY <1>1, Zenon DEF AcceptOK
    <3>8. acc.at = "cas" => acc.n < cfg.max
      BY <1>1, Zenon DEF AcceptOK
    <3> QED BY <3>3, <3>5, <3>6, <3>7, <3>8, Zenon DEF AcceptOK
  <2>5. ClientSlots'
    BY <1>1, <2>1, <2>2, Zenon DEF ClientSlots
  <2> QED BY <1>1, <1>3, <2>1, <2>2, <2>3, <2>4, <2>5, Zenon DEF Keeps, IInv, PoolStep, SlotsSame
<1> QED BY <1>4, <1>5, <1>6, Zenon

\* Close, the peers and waiting hold no slot and take none.
LEMMA OutsideStep ==
  ASSUME IInv, NEW c,
         \/ Idle \/ CloseStart \/ Close
         \/ c \in Conns /\ (PeerConnect(c) \/ PeerRead(c) \/ PeerLeave(c))
  PROVE  Keeps
<1>1. /\ NetType /\ ServType /\ AcceptOK
      /\ UNCHANGED <<hubVars, cfg, pc, loc, ctx, connCount, left, lnSet, conns, clientCount, acc>>
  BY Zenon DEF Idle, CloseStart, Close, CloseListener, CloseOne, CloseReturn, PeerConnect, PeerRead,
         PeerLeave, vars, netVars, sessionVars, serverVars, IInv
<1>2. NetType'
  <2>1. sock' \in [Conns -> {"none", "backlog", "open", "closed"}]
    <3>1. CASE Idle \/ CloseStart \/ CloseReturn \/ PeerRead(c) \/ PeerLeave(c)
      BY <1>1, <3>1, Zenon DEF NetType, Idle, CloseStart, CloseReturn, PeerRead, PeerLeave, vars,
                        netVars, sessionVars
    <3>2. CASE PeerConnect(c) \/ CloseListener \/ CloseOne
      <4>1. CASE PeerConnect(c)
        BY <1>1, <4>1, Zenon DEF NetType, PeerConnect
      <4>2. CASE CloseListener
        <5>1. \A d \in Conns : (IF sock[d] = "backlog" THEN "closed" ELSE sock[d])
                                 \in {"none", "backlog", "open", "closed"}
          BY <1>1, Zenon DEF NetType
        <5> QED BY <4>2, <5>1, Zenon DEF CloseListener
      <4>3. CASE CloseOne
        <5>1. PICK d \in closer.todo : sock' = [sock EXCEPT ![d] = "closed"]
          BY <4>3, Zenon DEF CloseOne
        <5> QED BY <1>1, <5>1, Zenon DEF NetType
      <4> QED BY <3>2, <4>1, <4>2, <4>3, Zenon
    <3> QED BY <3>1, <3>2, Zenon DEF Close
  <2>2. /\ peer' \in [Conns -> {"live", "gone"}]
        /\ unread' \in [Conns -> 0 .. SockBuf]
    BY <1>1, SessionAssumption
       DEF NetType, Idle, CloseStart, Close, CloseListener, CloseOne, CloseReturn,
           PeerConnect, PeerRead, PeerLeave, vars, netVars, sessionVars
  <2> QED BY <1>1, <2>1, <2>2, Zenon DEF NetType
<1>3. ServType'
  <2>1. ln' \in {"open", "closed"}
    BY <1>1, Zenon DEF ServType, Idle, CloseStart, Close, CloseListener, CloseOne, CloseReturn,
                PeerConnect, PeerRead, PeerLeave, vars, netVars, serverVars
  <2>2. closer' \in [at : {"idle", "ln", "conns", "returned"}, copied : SUBSET Conns,
                     todo : SUBSET Conns]
    <3>1. CASE CloseStart \/ CloseListener \/ CloseReturn
      BY <1>1, <3>1 DEF ServType, CloseStart, CloseListener, CloseReturn
    <3>2. CASE CloseOne
      BY <1>1, <3>2, Zenon DEF ServType, CloseOne
    <3>3. CASE Idle \/ PeerConnect(c) \/ PeerRead(c) \/ PeerLeave(c)
      BY <1>1, <3>3, Zenon DEF ServType, Idle, PeerConnect, PeerRead, PeerLeave, vars, netVars, serverVars
    <3> QED BY <3>1, <3>2, <3>3, Zenon DEF Close
  <2> QED BY <1>1, <2>1, <2>2, Zenon DEF ServType
<1>4. AcceptOK'
  <2>1. \A d \in Conns : \/ sock'[d] = sock[d] \/ sock'[d] = "closed"
                         \/ sock[d] = "none" /\ sock'[d] = "backlog"
    <3>1. CASE Idle \/ CloseStart \/ CloseReturn \/ PeerRead(c) \/ PeerLeave(c)
      BY <1>1, <3>1, Zenon DEF NetType, Idle, CloseStart, CloseReturn, PeerRead, PeerLeave, vars,
                        netVars, sessionVars
    <3>2. CASE PeerConnect(c) \/ CloseListener \/ CloseOne
      BY <1>1, <3>2, Zenon DEF NetType, PeerConnect, CloseListener, CloseOne
    <3> QED BY <3>1, <3>2, Zenon DEF Close
  <2> QED BY <1>1, <2>1, Zenon DEF AcceptOK, InHand
<1> QED BY <1>1, <1>2, <1>3, <1>4, CountStays, Zenon

\* Every step keeps the invariant, and changes at most one slot.
LEMMA NextKeeps ==
  ASSUME CountingFact, IInv, [Next]_vars
  PROVE  Keeps
<1>1. CASE UNCHANGED vars
  <2>1. UNCHANGED <<hubVars, pc, loc, ctx, connCount, cfg, clientCount, acc>>
    BY <1>1, Zenon DEF vars, sessionVars, serverVars
  <2>2. NetType' /\ ServType' /\ AcceptOK'
    <3>1. UNCHANGED <<cfg, connCount, sock, peer, unread, left, pc>>
          /\ UNCHANGED <<ln, lnSet, conns, clientCount, acc, closer>>
      BY <1>1, Zenon DEF vars, sessionVars, serverVars
    <3>2. NetType /\ ServType /\ AcceptOK
      BY Zenon DEF IInv
    <3>3. NetType'
      BY <3>1, <3>2, Zenon DEF NetType
    <3>4. ServType'
      BY <3>1, <3>2, Zenon DEF ServType
    <3>5. AcceptOK'
      BY <3>1, <3>2, Zenon DEF AcceptOK
    <3> QED BY <3>3, <3>4, <3>5, Zenon
  <2> QED BY <2>1, <2>2, CountStays, Zenon
<1>2. CASE \E c \in Conns : Command(c)
  BY <1>2, AnswerStill, AuthStill, SubscribeStill, UnsubscribeStill, PublishStill, StillStep, Zenon
     DEF Command
<1>3. CASE \E c \in Conns : SessionStep(c)
  BY <1>3, WriteStill, AcquireStep, SwapStep, ReleaseStep, DropStill, NameStill, DeliverStill,
     StillStep, Zenon DEF SessionStep
<1>4. CASE \E c \in Conns : releaseClient(c) \/ untrack(c) \/ CloseConn(c)
  BY <1>4, EndStep, Zenon
<1>5. CASE Serve
  BY <1>5, LoopStep, AdmitStep, SpawnStep, Zenon DEF Serve
<1>6. CASE Idle \/ CloseStart \/ Close
  BY <1>6, OutsideStep, Zenon
<1>7. CASE \E c \in Conns : PeerConnect(c) \/ PeerRead(c) \/ PeerLeave(c)
  BY <1>7, OutsideStep, Zenon
<1> QED BY <1>1, <1>2, <1>3, <1>4, <1>5, <1>6, <1>7, Zenon DEF Next

\* The invariant holds at the start: no session, no slot taken.
LEMMA InitKeeps ==
  ASSUME CountingFact, Init
  PROVE  IInv /\ Admitted = {} /\ \A t \in Tenants : Holders(t) = {}
<1>1. HubTypeOK
  BY Zenon DEF Init, SessionInit, HubInit, HubTypeOK
<1>2. NoCtx \in CtxType
  BY Zenon DEF NoCtx, CtxType
<1>3. SessType
  BY <1>2, NoLocType, Zenon DEF Init, SessionInit, SessType, Labels
<1>4. NetType
  <2>1. cfg \in Configs /\ left = cfg.calls /\ SockBuf \in Nat \ {0}
    BY SessionAssumption, Zenon DEF Init, SessionInit
  <2>2. left \in [Conns -> Nat]
    BY <2>1, CfgOK, Zenon
  <2>3. 0 \in 0 .. SockBuf
    BY <2>1
  <2>4. connCount \in [Tenants -> Nat] /\ unread \in [Conns -> 0 .. SockBuf]
    BY <2>3, Zenon DEF Init, SessionInit
  <2>5. /\ sock \in [Conns -> {"none", "backlog", "open", "closed"}]
        /\ peer \in [Conns -> {"live", "gone"}]
    BY Zenon DEF Init, SessionInit
  <2> QED BY <2>1, <2>2, <2>4, <2>5, Zenon DEF NetType
<1>5. ServType
  BY Zenon DEF Init, ServType
<1>6. LocalOK("none", NoLoc, NoCtx)
  BY Zenon DEF LocalOK, NoLoc, NoCtx, Dropping, Outside
<1>7. SessionsOK
  BY <1>6, Zenon DEF Init, SessionInit, SessionsOK
<1>8. AcceptOK
  BY Zenon DEF Init, SessionInit, AcceptOK, InHand
<1>9. Admitted = {}
  BY Zenon DEF Init, SessionInit, Admitted
<1>10. \A c \in Conns : Slots(c) = {}
  BY Zenon DEF Init, SessionInit, Slots, NoCtx, NoLoc
<1>11. \A t \in Tenants : Holders(t) = {}
  BY <1>10, Zenon DEF Holders
<1>12. ClientSlots /\ TenantSlots
  <2>1. Cardinality({}) = 0
    BY Zenon DEF CountingFact
  <2>2. ClientSlots
    <3>1. clientCount = 0 /\ cfg.max \in Nat
      BY <1>4, CfgOK, Zenon DEF Init, NetType
    <3> QED BY <1>9, <2>1, <3>1 DEF ClientSlots
  <2>3. TenantSlots
    <3>1. connCount = [t \in Tenants |-> 0]
      BY Zenon DEF Init, SessionInit
    <3>2. \A t \in Tenants : connCount[t] = 0 /\ MaxClientsOf[t] \in Nat
      BY <3>1, SessionAssumption, Zenon
    <3> QED BY <1>11, <2>1, <3>2 DEF TenantSlots
  <2> QED BY <2>2, <2>3, Zenon
<1> QED BY <1>1, <1>3, <1>4, <1>5, <1>7, <1>8, <1>9, <1>11, <1>12, Zenon DEF IInv
=============================================================================
