------------------------------- MODULE Server -------------------------------
(***************************************************************************)
(* The TCP server (internal/server/server.go) around the sessions: the     *)
(* accept loop with the limit on connections, the table of connections,    *)
(* the wait group, and Close, which main calls on a signal.                *)
(***************************************************************************)
EXTENDS Session

ASSUME ServerAssumption == IsFiniteSet(Conns)

vars == <<hubVars, sessionVars, serverVars>>

Init ==
  /\ SessionInit
  /\ ln = "open" /\ lnSet = FALSE
  /\ conns = {} /\ clientCount = 0
  /\ acc = [at |-> "start", conn |-> Nil, n |-> 0]
  /\ closer = [at |-> "idle", copied |-> {}, todo |-> {}]

\* s.wg counts the goroutines of sessions.
Running == {c \in Conns : pc[c] \notin {"none", "done"}}
----------------------------------------------------------------------------
(* Serve *)

ServeStart ==
  /\ acc.at = "start"
  /\ lnSet' = TRUE
  /\ acc' = [acc EXCEPT !.at = "accept"]
  /\ UNCHANGED <<hubVars, sessionVars, ln, conns, clientCount, closer>>

PeerConnect(c) ==
  /\ sock[c] = "none" /\ ln = "open" /\ cfg.calls[c] > 0
  /\ sock' = [sock EXCEPT ![c] = "backlog"]
  /\ UNCHANGED <<hubVars, cfg, pc, loc, ctx, connCount, peer, unread, left, serverVars>>

Accept(c) ==
  /\ acc.at = "accept" /\ ln = "open" /\ sock[c] = "backlog"
  /\ sock' = [sock EXCEPT ![c] = "open"]
  /\ acc' = [acc EXCEPT !.at = "admit", !.conn = c]
  /\ UNCHANGED <<hubVars, cfg, pc, loc, ctx, connCount, peer, unread, left,
                 ln, lnSet, conns, clientCount, closer>>

\* Accept fails once the listener is closed.
ServeReturn ==
  /\ acc.at = "accept" /\ ln = "closed"
  /\ acc' = [acc EXCEPT !.at = "returned"]
  /\ UNCHANGED <<hubVars, sessionVars, ln, lnSet, conns, clientCount, closer>>

\* tryAddClient without a limit, and the load of the loop with one.
tryAddClient ==
  /\ acc.at = "admit"
  /\ IF cfg.max = 0
     THEN /\ clientCount' = clientCount + 1
          /\ acc' = [acc EXCEPT !.at = "track"]
     ELSE /\ acc' = [acc EXCEPT !.at = IF clientCount >= cfg.max THEN "refuse" ELSE "cas",
                                !.n = clientCount]
          /\ UNCHANGED clientCount
  /\ UNCHANGED <<hubVars, sessionVars, ln, lnSet, conns, closer>>

\* Mutant: the count that was loaded is stored without comparing.
StoreCount ==
  /\ acc.at = "cas"
  /\ clientCount' = acc.n + 1 /\ acc' = [acc EXCEPT !.at = "track", !.n = 0]
  /\ UNCHANGED <<hubVars, sessionVars, ln, lnSet, conns, closer>>

\* tryAddClient's CompareAndSwap
CompareAndSwap ==
  /\ acc.at = "cas"
  /\ IF clientCount = acc.n
     THEN clientCount' = acc.n + 1 /\ acc' = [acc EXCEPT !.at = "track", !.n = 0]
     ELSE UNCHANGED clientCount /\ acc' = [acc EXCEPT !.at = "admit", !.n = 0]
  /\ UNCHANGED <<hubVars, sessionVars, ln, lnSet, conns, closer>>

\* Mutant: a refused connection gives back a slot it did not take.
RefuseAndRelease ==
  /\ acc.at = "refuse"
  /\ clientCount' = clientCount - 1
  /\ sock' = [sock EXCEPT ![acc.conn] = "closed"]
  /\ acc' = [at |-> "accept", conn |-> Nil, n |-> 0]
  /\ UNCHANGED <<hubVars, cfg, pc, loc, ctx, connCount, peer, unread, left,
                 ln, lnSet, conns, closer>>

RefuseConn ==
  /\ acc.at = "refuse"
  /\ sock' = [sock EXCEPT ![acc.conn] = "closed"]
  /\ acc' = [at |-> "accept", conn |-> Nil, n |-> 0]
  /\ UNCHANGED <<hubVars, cfg, pc, loc, ctx, connCount, peer, unread, left,
                 ln, lnSet, conns, clientCount, closer>>

track ==
  /\ acc.at = "track"
  /\ conns' = conns \cup {acc.conn}
  /\ acc' = [acc EXCEPT !.at = "spawn"]
  /\ UNCHANGED <<hubVars, sessionVars, ln, lnSet, clientCount, closer>>

\* wg.Add(1) and the goroutine of the session
Spawn ==
  /\ acc.at = "spawn"
  /\ pc' = [pc EXCEPT ![acc.conn] = "read"]
  /\ acc' = [at |-> "accept", conn |-> Nil, n |-> 0]
  /\ UNCHANGED <<hubVars, cfg, loc, ctx, connCount, sock, peer, unread, left,
                 ln, lnSet, conns, clientCount, closer>>

Serve == ServeStart \/ (\E c \in Conns : Accept(c)) \/ ServeReturn \/ tryAddClient
           \/ CompareAndSwap \/ RefuseConn \/ track \/ Spawn
----------------------------------------------------------------------------
(* The deferred calls of a session's goroutine, after handleConn *)

releaseClient(c) ==
  /\ pc[c] = "release"
  /\ clientCount' = clientCount - 1
  /\ pc' = [pc EXCEPT ![c] = "untrack"]
  /\ UNCHANGED <<hubVars, cfg, loc, ctx, connCount, sock, peer, unread, left,
                 ln, lnSet, conns, acc, closer>>

untrack(c) ==
  /\ pc[c] = "untrack"
  /\ conns' = conns \ {c}
  /\ pc' = [pc EXCEPT ![c] = "close"]
  /\ UNCHANGED <<hubVars, cfg, loc, ctx, connCount, sock, peer, unread, left,
                 ln, lnSet, clientCount, acc, closer>>

\* untrack closes the socket after unlocking s.mu; then wg.Done.
CloseConn(c) ==
  /\ pc[c] = "close"
  /\ sock' = [sock EXCEPT ![c] = "closed"]
  /\ pc' = [pc EXCEPT ![c] = "done"]
  /\ UNCHANGED <<hubVars, cfg, loc, ctx, connCount, peer, unread, left, serverVars>>
----------------------------------------------------------------------------
(* Close *)

\* Under s.mu: closed is set, s.ln and s.conns are copied.
CloseStart ==
  /\ closer.at = "idle" /\ cfg.stop
  /\ closer' = [at |-> IF lnSet THEN "ln" ELSE "conns", copied |-> conns, todo |-> conns]
  /\ UNCHANGED <<hubVars, sessionVars, ln, lnSet, conns, clientCount, acc>>

\* ln.Close resets what waits in the backlog.
CloseListener ==
  /\ closer.at = "ln"
  /\ ln' = "closed"
  /\ sock' = [c \in Conns |-> IF sock[c] = "backlog" THEN "closed" ELSE sock[c]]
  /\ closer' = [closer EXCEPT !.at = "conns"]
  /\ UNCHANGED <<hubVars, cfg, pc, loc, ctx, connCount, peer, unread, left,
                 lnSet, conns, clientCount, acc>>

CloseOne ==
  /\ closer.at = "conns"
  /\ \E c \in closer.todo :
       /\ sock' = [sock EXCEPT ![c] = "closed"]
       /\ closer' = [closer EXCEPT !.todo = @ \ {c}]
  /\ UNCHANGED <<hubVars, cfg, pc, loc, ctx, connCount, peer, unread, left,
                 ln, lnSet, conns, clientCount, acc>>

\* Mutant: Close does not wait for the sessions.
CloseNoWait ==
  /\ closer.at = "conns" /\ closer.todo = {}
  /\ closer' = [closer EXCEPT !.at = "returned"]
  /\ UNCHANGED <<hubVars, sessionVars, ln, lnSet, conns, clientCount, acc>>

\* wg.Wait returns.
CloseReturn ==
  /\ closer.at = "conns" /\ closer.todo = {}
  /\ Running = {}
  /\ closer' = [closer EXCEPT !.at = "returned"]
  /\ UNCHANGED <<hubVars, sessionVars, ln, lnSet, conns, clientCount, acc>>

Close == CloseListener \/ CloseOne \/ CloseReturn
----------------------------------------------------------------------------
\* Nothing is left to do but to wait for a peer, a connection or a signal.
Idle ==
  /\ \A c \in Conns : pc[c] \in {"none", "read", "done"}
  /\ acc.at \in {"accept", "returned"}
  /\ UNCHANGED vars

Next ==
  \/ Idle \/ Serve \/ CloseStart \/ Close
  \/ \E c \in Conns :
       \/ Command(c) \/ SessionStep(c) \/ releaseClient(c) \/ untrack(c) \/ CloseConn(c)
       \/ PeerConnect(c) \/ PeerRead(c) \/ PeerLeave(c)

Spec == Init /\ [][Next]_vars

\* No mutex is held from one step to the next, so a goroutine that is ready stays
\* ready until it runs.  A peer reads what it is sent; it need not send anything.
Goroutine(c) == SessionStep(c) \/ releaseClient(c) \/ untrack(c) \/ CloseConn(c)
FairSpec == /\ Spec
            /\ WF_vars(Serve) /\ WF_vars(Close)
            /\ \A c \in Conns : WF_vars(Goroutine(c)) /\ WF_vars(PeerRead(c))
----------------------------------------------------------------------------
(* Properties *)

Labels == {"none", "read", "write", "acquire", "swap", "bind", "shut", "unsub", "punsub",
           "sub", "sub2", "un", "un2", "deliver", "push", "leave", "release", "untrack",
           "close", "done"}

LocType == [tenant : Tenants \cup {Nil}, names : SUBSET Names, name : Names \cup {Nil},
            todo : SUBSET (Clients \X Names), to : Clients \cup {Nil}, replies : Nat,
            then : {"leave", "bind"}, quit : BOOLEAN]
CtxType == [tenant : Tenants \cup {Nil}, bound : BOOLEAN, pub : Clients \cup {Nil}]

\* Every variable of the server, its sessions and its hubs has its type: no counter of
\* connections (clientCount, connCount) goes below zero.
TypeOK ==
  /\ HubTypeOK
  /\ cfg \in Configs
  /\ pc \in [Conns -> Labels] /\ loc \in [Conns -> LocType] /\ ctx \in [Conns -> CtxType]
  /\ connCount \in [Tenants -> Nat]
  /\ sock \in [Conns -> {"none", "backlog", "open", "closed"}]
  /\ peer \in [Conns -> {"live", "gone"}]
  /\ unread \in [Conns -> 0 .. SockBuf]
  /\ left \in [Conns -> Nat]
  /\ ln \in {"open", "closed"} /\ lnSet \in BOOLEAN
  /\ conns \subseteq Conns /\ clientCount \in Nat
  /\ acc \in [at : {"start", "accept", "admit", "cas", "refuse", "track", "spawn", "returned"},
              conn : Conns \cup {Nil}, n : Nat]
  /\ closer \in [at : {"idle", "ln", "conns", "returned"}, copied : SUBSET Conns,
                 todo : SUBSET Conns]

\* The connections that count against MaxClients: from tryAddClient to releaseClient.
Admitted == {c \in Conns : pc[c] \notin {"none", "untrack", "close", "done"}}
              \cup IF acc.at \in {"track", "spawn"} THEN {acc.conn} ELSE {}

\* The tenants a session holds a slot of.  AUTH takes the new one before it gives the
\* old one back, and changes ctx last.
Slots(c) ==
  IF pc[c] = "swap" THEN {ctx[c].tenant, loc[c].tenant}
  ELSE IF pc[c] \in {"shut", "unsub", "punsub", "bind"} /\ loc[c].then = "bind" THEN {loc[c].tenant}
  ELSE IF ctx[c].bound THEN {ctx[c].tenant} ELSE {}
Holders(t) == {c \in Conns : t \in Slots(c)}

\* The atomic counter of the accept loop (tryAddClient, releaseClient) equals the
\* connections being served, and never exceeds MaxClients.
ClientSlots ==
  /\ clientCount = Cardinality(Admitted)
  /\ cfg.max > 0 => clientCount <= cfg.max

\* A tenant's connCount equals the sessions that hold one of its slots, through AUTH,
\* a change of tenant, a refused change and the teardown, and respects its MaxClients.
TenantSlots ==
  \A t \in Tenants :
    /\ connCount[t] = Cardinality(Holders(t))
    /\ MaxClientsOf[t] > 0 => connCount[t] <= MaxClientsOf[t]

\* The names under which x must be registered, given where its session is: the hub is
\* changed before the client's set by Subscribe and Unsubscribe, and after it by Close.
Expected(x) ==
  LET c == Owner[x]
  IN  IF ctx[c].pub # x THEN {}
      ELSE IF pc[c] = "sub2" THEN subs[x] \cup {loc[c].name}
      ELSE IF pc[c] = "un2" THEN subs[x] \ {loc[c].name}
      ELSE IF pc[c] \in {"unsub", "punsub"} THEN loc[c].names
      ELSE subs[x]

\* The hub and the clients agree at every step of Subscribe, Unsubscribe and Close of
\* all sessions: a client is in exactly the sets of its own hub that it should be in,
\* and one that was replaced by a later AUTH, or closed, is in none.
HubAgrees ==
  \A t \in Tenants, n \in Names, x \in Clients :
    x \in hub[t][n] <=> home[x] = t /\ n \in Expected(x)

Changing == {c \in Conns : pc[c] \in {"sub2", "un2", "unsub", "punsub"}}
Subscribers(t, n) == {c \in Running : /\ ctx[c].tenant = t /\ ctx[c].pub # Nil
                                      /\ n \in subs[ctx[c].pub]}

\* Unless a subscription is being changed, PUBSUB NUMSUB counts the connected sessions of
\* the tenant that subscribe: none that left, none that moved to another tenant.
NumSubHonest ==
  Changing = {} =>
    \A t \in Tenants, ch \in Channels : NumSub(t, ch) = Cardinality(Subscribers(t, ch))

\* Publish works on a copy of the subscribers that may be old; deliver never starts on
\* a connection that has been bound to another tenant since (AUTH closes the client).
DeliveryInScope ==
  [][\A c \in Conns : pc[c] = "deliver" /\ pc'[c] = "push" =>
        LET x == loc'[c].to IN ctx[Owner[x]].tenant = home[x]]_vars

\* When Close returns, whenever it was called, the one connection that can still be open
\* is the one the accept loop has in hand (accepted, its goroutine not started yet):
\* every other one is closed, and its session has been torn down.
OnlyOneInHand ==
  [][closer.at # "returned" /\ closer'.at = "returned" =>
       \A c \in Conns \ {acc.conn} : sock[c] # "open" /\ pc[c] \in {"none", "done"}]_vars

\* The two kinds of limit as pools of slots: the server's own (Nil) and the tenants'.
Pool == INSTANCE Admission WITH
          Pools <- Tenants \cup {Nil}, Members <- Conns,
          limit <- [p \in Tenants \cup {Nil} |-> IF p = Nil THEN cfg.max ELSE MaxClientsOf[p]],
          holders <- [p \in Tenants \cup {Nil} |-> IF p = Nil THEN Admitted ELSE Holders(p)]
\* tryAddClient and releaseClient implement the pool of the server, AcquireConn and
\* ReleaseConn those of the tenants: a slot is never lent twice, lost or given back twice.
ImplementsAdmission == Pool!Spec

\* Every command comes to its end while the peers read, PUBLISH to others included.
CommandsEnd == \A c \in Conns : pc[c] \notin {"none", "read", "done"} ~> pc[c] \in {"read", "done"}


\* The slots of a peer that left come back, its client leaves the hub.
SlotsComeBack ==
  \A c \in Conns : peer[c] = "gone" ~> c \notin Admitted /\ Slots(c) = {}
=============================================================================
