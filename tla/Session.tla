------------------------------ MODULE Session ------------------------------
(***************************************************************************)
(* The sessions of the clients: handleConn's loop, Dispatch with its       *)
(* policy, AUTH and the connection slots of the tenants, the commands of   *)
(* publish/subscribe, and the teardown of a connection.  A session is a    *)
(* goroutine; a step is one critical section (h.mu, c.mu, connMu) or one   *)
(* write to a socket, with the session's own state around it.              *)
(*                                                                         *)
(* A command is its name and the arguments that decide what it changes.    *)
(* A reply is one value in the socket: unread[c] of them wait for the peer *)
(* and a writer blocks when SockBuf of them do.  connWriter.mu is not a    *)
(* variable: whoever waits for it waits for the same room in the socket.   *)
(***************************************************************************)
EXTENDS Hub

CONSTANTS
  MaxClientsOf,   \* Tenant.MaxClients, 0: unlimited
  Disabled,       \* tenants whose status is StatusDisabled
  DefaultTenant,  \* Policy.DefaultTenant, used without RequireAuth
  Deny,           \* DenyCommands of the configuration
  SockBuf,        \* values a socket holds before a write blocks
  Configs         \* settings, and bounds on what the peers do under them

Commands == {"AUTH", "PING", "QUIT", "GET", "PUBLISH", "SUBSCRIBE", "PSUBSCRIBE",
             "UNSUBSCRIBE", "PUNSUBSCRIBE"}

ASSUME SessionAssumption ==
  /\ MaxClientsOf \in [Tenants -> Nat]
  /\ Disabled \subseteq Tenants /\ DefaultTenant \in Tenants
  /\ Deny \subseteq Commands
  /\ SockBuf \in Nat \ {0}
  /\ Configs \subseteq [max : Nat, auth : BOOLEAN, idle : BOOLEAN, stop : BOOLEAN, leave : BOOLEAN,
                        cmds : SUBSET Commands, calls : [Conns -> Nat]]

VARIABLES
  cfg,        \* MaxClients (0: unlimited), RequireAuth, IdleTimeout > 0; whether Close is
              \* called and peers leave; the commands they send and how many
  pc, loc,    \* per session: next step, locals of the command
  ctx,        \* command.Context: tenant, bound, pub
  connCount,  \* Tenant.connCount
  sock,       \* the server's end of a connection
  peer,       \* whether the other end is still there
  unread,     \* values written and not yet read by the peer
  left,       \* commands a peer may still send
  \* The server's own state, which the commands of a session leave alone.
  ln, lnSet,    \* the listening socket; whether s.ln is set
  conns,        \* s.conns
  clientCount,  \* s.clientCount
  acc,          \* the accept loop: step, its connection, and the count it loaded
  closer        \* Close: step, the connections it copied, and those left to close

sessionVars == <<cfg, pc, loc, ctx, connCount, sock, peer, unread, left>>
serverVars == <<ln, lnSet, conns, clientCount, acc, closer>>
netVars == <<cfg, sock, peer, serverVars>>

NoLoc == [tenant |-> Nil, names |-> {}, name |-> Nil, todo |-> {}, to |-> Nil,
          replies |-> 0, then |-> "leave", quit |-> FALSE]
NoCtx == [tenant |-> Nil, bound |-> FALSE, pub |-> Nil]

SessionInit ==
  /\ HubInit
  /\ cfg \in Configs
  /\ pc = [c \in Conns |-> "none"]
  /\ loc = [c \in Conns |-> NoLoc]
  /\ ctx = [c \in Conns |-> NoCtx]
  /\ connCount = [t \in Tenants |-> 0]
  /\ sock = [c \in Conns |-> "none"]
  /\ peer = [c \in Conns |-> "live"]
  /\ unread = [c \in Conns |-> 0]
  /\ left = cfg.calls

Goto(c, label, l) == /\ pc' = [pc EXCEPT ![c] = label]
                     /\ loc' = [loc EXCEPT ![c] = l]
\* The handler returns n values for the peer.
Reply(c, n) == Goto(c, "write", [NoLoc EXCEPT !.replies = n])
\* Mutant: the deferred function forgets the subscriptions.
LeaveOpen(c) == Goto(c, "leave", NoLoc)

\* handleConn returns: the deferred function closes ctx.PubSub first.
Leave(c) == Goto(c, IF ctx[c].pub # Nil THEN "shut" ELSE "leave", NoLoc)

\* A write succeeds while the socket has room, or into the void when the peer left.
CanWrite(d) == sock[d] = "open" /\ (unread[d] < SockBuf \/ peer[d] = "gone")
WriteFails(d) == sock[d] = "closed" \/ peer[d] = "gone"
Written(d) == unread' = [unread EXCEPT ![d] = IF peer[d] = "live" THEN @ + 1 ELSE @]
----------------------------------------------------------------------------
(* Dispatch *)

InSubscribeMode(c) == ctx[c].pub # Nil /\ subs[ctx[c].pub] # {}
SubscribeModeAllow == {"SUBSCRIBE", "PSUBSCRIBE", "UNSUBSCRIBE", "PUNSUBSCRIBE", "PING", "QUIT"}
unauthenticatedAllow == {"AUTH", "PING", "QUIT"}
neverDeny == {"AUTH", "PING", "QUIT"}
Denied == Deny \ neverDeny

\* Dispatch up to the handler: subscribe mode, DenyCommands, RequireAuth.
Allowed(c, name) ==
  /\ InSubscribeMode(c) => name \in SubscribeModeAllow
  /\ name \notin Denied
  /\ cfg.auth /\ ctx[c].tenant = Nil => name \in unauthenticatedAllow

\* checkPolicy binds the default tenant when authentication is not required.
Tenant(c) == IF ~ cfg.auth /\ ctx[c].tenant = Nil THEN DefaultTenant ELSE ctx[c].tenant
AutoBind(c) == ctx' = [ctx EXCEPT ![c].tenant = Tenant(c)]

\* requireTenant and requireDB
HasTenant(c) == Tenant(c) \notin {Nil} \cup Disabled

\* ReadCommand returns a command.
Receive(c, name) ==
  /\ pc[c] = "read" /\ sock[c] = "open"
  /\ name \in cfg.cmds /\ left[c] > 0
  /\ left' = [left EXCEPT ![c] = @ - 1]
  /\ UNCHANGED <<connCount, unread, netVars>>

\* Dispatch answers for the handler.
Refuse(c) ==
  \E name \in cfg.cmds :
    /\ Receive(c, name)
    /\ ~ Allowed(c, name)
    /\ Reply(c, 1)
    /\ UNCHANGED <<hubVars, ctx>>

\* Handlers that only answer: PING, ECHO, INFO, ..., the commands on the store, which
\* Store models, and any handler that is given a wrong number of arguments.
Answer(c) ==
  \E name \in {"PING", "GET"} :
    /\ Receive(c, name)
    /\ Allowed(c, name)
    /\ AutoBind(c)
    /\ Reply(c, 1)
    /\ UNCHANGED hubVars

quit(c) ==
  /\ Receive(c, "QUIT")
  /\ Allowed(c, "QUIT")
  /\ AutoBind(c)
  /\ Goto(c, "write", [NoLoc EXCEPT !.replies = 1, !.quit = TRUE])
  /\ UNCHANGED hubVars

\* The peer sent something that is no command: an error, then the end.
ProtocolError(c) ==
  /\ pc[c] = "read" /\ sock[c] = "open" /\ left[c] > 0
  /\ left' = [left EXCEPT ![c] = @ - 1]
  /\ Goto(c, "write", [NoLoc EXCEPT !.replies = 1, !.quit = TRUE])
  /\ UNCHANGED <<hubVars, ctx, connCount, unread, netVars>>


\* Mutant: the end of file is not an error.
HangupNoEOF(c) ==
  /\ pc[c] = "read"
  /\ sock[c] = "closed" \/ cfg.idle
  /\ Leave(c)
  /\ UNCHANGED <<hubVars, ctx, connCount, unread, left, netVars>>

\* ReadCommand fails: end of file, a closed socket, or the read deadline.
Hangup(c) ==
  /\ pc[c] = "read"
  /\ sock[c] = "closed" \/ peer[c] = "gone" \/ cfg.idle
  /\ Leave(c)
  /\ UNCHANGED <<hubVars, ctx, connCount, unread, left, netVars>>

\* The next value of the reply reaches the socket.
WriteReply(c) ==
  LET l == loc[c]
  IN  /\ pc[c] = "write" /\ CanWrite(c)
      /\ Written(c)
      /\ IF l.replies > 1 THEN Goto(c, "write", [l EXCEPT !.replies = @ - 1])
         ELSE IF l.quit THEN Leave(c)
         ELSE Goto(c, "read", NoLoc)
      /\ UNCHANGED <<hubVars, ctx, connCount, left, netVars>>

WriteFailed(c) ==
  /\ pc[c] = "write" /\ WriteFails(c)
  /\ Leave(c)
  /\ UNCHANGED <<hubVars, ctx, connCount, unread, left, netVars>>
----------------------------------------------------------------------------
(* AUTH and the slots of the tenants *)

Authenticate(t, good) == t \notin Disabled /\ good

\* Mutant: a re-AUTH as the same tenant is like any other.
AuthAgain(c) ==
  /\ Receive(c, "AUTH")
  /\ Allowed(c, "AUTH")
  /\ AutoBind(c)
  /\ \E t \in Tenants, good \in BOOLEAN :
       IF ~ Authenticate(t, good) THEN Reply(c, 1)
       ELSE Goto(c, "acquire", [NoLoc EXCEPT !.tenant = t])
  /\ UNCHANGED hubVars

\* AUTH up to the tenant's slot, with the re-AUTH that changes nothing.  An unknown user
\* or a wrong number of arguments is like a wrong password.
Auth(c) ==
  /\ Receive(c, "AUTH")
  /\ Allowed(c, "AUTH")
  /\ AutoBind(c)
  /\ \E t \in Tenants, good \in BOOLEAN :
       IF ~ Authenticate(t, good) \/ (Tenant(c) = t /\ ctx[c].bound)
       THEN Reply(c, 1)
       ELSE Goto(c, "acquire", [NoLoc EXCEPT !.tenant = t])
  /\ UNCHANGED hubVars

\* The handler goes on to drop the pubsub client of the previous tenant, if any.
DropOr(c, l) == Goto(c, IF ctx[c].pub # Nil THEN "shut" ELSE "bind", [l EXCEPT !.then = "bind"])

\* Mutant: the limit is compared with > instead of >=.
AcquireOneMore(c) ==
  LET t == loc[c].tenant
      full == MaxClientsOf[t] > 0 /\ connCount[t] > MaxClientsOf[t]
  IN  /\ pc[c] = "acquire"
      /\ IF full
         THEN Reply(c, 1) /\ UNCHANGED connCount
         ELSE /\ connCount' = [connCount EXCEPT ![t] = @ + 1]
              /\ IF ctx[c].bound THEN Goto(c, "swap", loc[c]) ELSE DropOr(c, loc[c])
      /\ UNCHANGED <<hubVars, ctx, unread, left, netVars>>

AcquireConn(c) ==
  LET t == loc[c].tenant
      full == MaxClientsOf[t] > 0 /\ connCount[t] >= MaxClientsOf[t]
  IN  /\ pc[c] = "acquire"
      /\ IF full
         THEN Reply(c, 1) /\ UNCHANGED connCount
         ELSE /\ connCount' = [connCount EXCEPT ![t] = @ + 1]
              /\ IF ctx[c].bound THEN Goto(c, "swap", loc[c]) ELSE DropOr(c, loc[c])
      /\ UNCHANGED <<hubVars, ctx, unread, left, netVars>>

ReleaseConn(t) == connCount' = [connCount EXCEPT ![t] = IF @ > 0 THEN @ - 1 ELSE @]

\* AUTH releases the slot of the previous tenant.
SwapConn(c) ==
  /\ pc[c] = "swap"
  /\ ReleaseConn(ctx[c].tenant)
  /\ DropOr(c, loc[c])
  /\ UNCHANGED <<hubVars, ctx, unread, left, netVars>>

\* The end of AUTH: ctx is bound to the new tenant, without a pubsub client.
Bind(c) ==
  /\ pc[c] = "bind"
  /\ ctx' = [ctx EXCEPT ![c] = [tenant |-> loc[c].tenant, bound |-> TRUE, pub |-> Nil]]
  /\ Reply(c, 1)
  /\ UNCHANGED <<hubVars, connCount, unread, left, netVars>>

\* The deferred ReleaseTenantConn
ReleaseTenantConn(c) ==
  /\ pc[c] = "leave"
  /\ IF ctx[c].bound THEN ReleaseConn(ctx[c].tenant) ELSE UNCHANGED connCount
  /\ ctx' = [ctx EXCEPT ![c].bound = FALSE]
  /\ Goto(c, "release", NoLoc)
  /\ UNCHANGED <<hubVars, unread, left, netVars>>
----------------------------------------------------------------------------
(* Client.Close, called by AUTH and by the teardown *)

CloseMark(c) ==
  LET x == ctx[c].pub
  IN  /\ pc[c] = "shut"
      /\ shut' = [shut EXCEPT ![x] = TRUE]
      /\ subs' = [subs EXCEPT ![x] = {}]
      /\ Goto(c, "unsub", [loc[c] EXCEPT !.names = subs[x]])
      /\ UNCHANGED <<hub, home, ctx, connCount, unread, left, netVars>>

CloseChannels(c) ==
  /\ pc[c] = "unsub"
  /\ Unregister(ctx[c].pub, loc[c].names \cap Channels)
  /\ Goto(c, "punsub", [loc[c] EXCEPT !.names = @ \ Channels])
  /\ UNCHANGED <<home, subs, shut, ctx, connCount, unread, left, netVars>>

\* Mutant: Close leaves the hub's patterns alone.
CloseChannelsOnly(c) ==
  /\ pc[c] = "punsub"
  /\ Goto(c, loc[c].then, [loc[c] EXCEPT !.names = {}])
  /\ UNCHANGED <<hub, home, subs, shut, ctx, connCount, unread, left, netVars>>

ClosePatterns(c) ==
  /\ pc[c] = "punsub"
  /\ Unregister(ctx[c].pub, loc[c].names)
  /\ Goto(c, loc[c].then, [loc[c] EXCEPT !.names = {}])
  /\ UNCHANGED <<home, subs, shut, ctx, connCount, unread, left, netVars>>
----------------------------------------------------------------------------
(* SUBSCRIBE and UNSUBSCRIBE, with and without patterns *)

\* The command for channels and the command for patterns.
Kinds(ch, pat) == {<<ch, Channels>>, <<pat, Patterns>>}
\* The objects the connection has not used yet bound its calls of NewClient.
Fresh(c) == {x \in Clients : Owner[x] = c /\ home[x] = Nil}
NewClient(c) == CHOOSE x \in Fresh(c) : TRUE

\* ensurePubSubClient: NewClient on the tenant's hub for the first subscription.
Subscribe(c) ==
  \E kind \in Kinds("SUBSCRIBE", "PSUBSCRIBE") : \E N \in SUBSET kind[2] \ {{}} :
    /\ Receive(c, kind[1])
    /\ Allowed(c, kind[1])
    /\ IF ~ HasTenant(c)
       THEN AutoBind(c) /\ Reply(c, 1) /\ UNCHANGED home
       ELSE /\ Goto(c, "sub", [NoLoc EXCEPT !.names = N])
            /\ IF ctx[c].pub # Nil
               THEN AutoBind(c) /\ UNCHANGED home
               ELSE /\ Fresh(c) # {}
                    /\ home' = [home EXCEPT ![NewClient(c)] = Tenant(c)]
                    /\ ctx' = [ctx EXCEPT ![c].tenant = Tenant(c), ![c].pub = NewClient(c)]
    /\ UNCHANGED <<hub, subs, shut>>

\* For each name: the hub first, ...
SubscribeHub(c) ==
  /\ pc[c] = "sub"
  /\ \E n \in loc[c].names :
       /\ Register(ctx[c].pub, n)
       /\ Goto(c, "sub2", [loc[c] EXCEPT !.names = @ \ {n}, !.name = n, !.replies = @ + 1])
  /\ UNCHANGED <<home, subs, shut, ctx, connCount, unread, left, netVars>>

\* The names of the loop are done: the confirmations are written.
NextName(c, label) == Goto(c, IF loc[c].names = {} THEN "write" ELSE label,
                           [loc[c] EXCEPT !.name = Nil])

\* ... then the client's own set.
SubscribeSet(c) ==
  /\ pc[c] = "sub2"
  /\ subs' = [subs EXCEPT ![ctx[c].pub] = @ \cup {loc[c].name}]
  /\ NextName(c, "sub")
  /\ UNCHANGED <<hub, home, shut, ctx, connCount, unread, left, netVars>>

\* Without names: all of the client's own.
Unsubscribe(c) ==
  \E kind \in Kinds("UNSUBSCRIBE", "PUNSUBSCRIBE") : \E N \in SUBSET kind[2] :
    LET own == IF ctx[c].pub = Nil THEN {} ELSE subs[ctx[c].pub] \cap kind[2]
        names == IF ctx[c].pub # Nil /\ N # {} THEN N ELSE own
    IN  /\ Receive(c, kind[1])
        /\ Allowed(c, kind[1])
        /\ AutoBind(c)
        /\ IF ~ HasTenant(c) \/ names = {} THEN Reply(c, 1)
           ELSE Goto(c, "un", [NoLoc EXCEPT !.names = names])
        /\ UNCHANGED hubVars

UnsubscribeHub(c) ==
  /\ pc[c] = "un"
  /\ \E n \in loc[c].names :
       /\ Unregister(ctx[c].pub, {n})
       /\ Goto(c, "un2", [loc[c] EXCEPT !.names = @ \ {n}, !.name = n, !.replies = @ + 1])
  /\ UNCHANGED <<home, subs, shut, ctx, connCount, unread, left, netVars>>

UnsubscribeSet(c) ==
  /\ pc[c] = "un2"
  /\ subs' = [subs EXCEPT ![ctx[c].pub] = @ \ {loc[c].name}]
  /\ NextName(c, "un")
  /\ UNCHANGED <<hub, home, shut, ctx, connCount, unread, left, netVars>>
----------------------------------------------------------------------------
(* PUBLISH *)

\* The recipients are copied under h.mu ...
Publish(c) ==
  \E ch \in Channels :
    /\ Receive(c, "PUBLISH")
    /\ Allowed(c, "PUBLISH")
    /\ AutoBind(c)
    /\ IF ~ HasTenant(c) THEN Reply(c, 1)
       ELSE Goto(c, "deliver", [NoLoc EXCEPT !.todo = Targets(Tenant(c), ch)])
    /\ UNCHANGED hubVars

\* Mutant: the closed flag is not read.
DeliverToAll(c) ==
  /\ pc[c] = "deliver"
  /\ \E r \in loc[c].todo :
       Goto(c, "push", [loc[c] EXCEPT !.todo = @ \ {r}, !.to = r[1]])
  /\ UNCHANGED <<hubVars, ctx, connCount, unread, left, netVars>>

\* ... and served one by one; deliver reads the closed flag under c.mu, ...
Deliver(c) ==
  /\ pc[c] = "deliver"
  /\ \E r \in loc[c].todo :
       Goto(c, IF shut[r[1]] THEN "deliver" ELSE "push",
            [loc[c] EXCEPT !.todo = @ \ {r}, !.to = IF shut[r[1]] THEN Nil ELSE r[1]])
  /\ UNCHANGED <<hubVars, ctx, connCount, unread, left, netVars>>

\* Mutant: a failed write is tried again.
PushAgain(c) ==
  LET d == Owner[loc[c].to]
  IN  /\ pc[c] = "push"
      /\ CanWrite(d) /\ Written(d)
      /\ Goto(c, "deliver", [loc[c] EXCEPT !.to = Nil])
      /\ UNCHANGED <<hubVars, ctx, connCount, left, netVars>>

\* ... and writes to the subscriber's socket after releasing it.
Push(c) ==
  LET d == Owner[loc[c].to]
  IN  /\ pc[c] = "push"
      /\ \/ CanWrite(d) /\ Written(d)
         \/ WriteFails(d) /\ UNCHANGED unread
      /\ Goto(c, "deliver", [loc[c] EXCEPT !.to = Nil])
      /\ UNCHANGED <<hubVars, ctx, connCount, left, netVars>>

Published(c) ==
  /\ pc[c] = "deliver" /\ loc[c].todo = {}
  /\ Reply(c, 1)
  /\ UNCHANGED <<hubVars, ctx, connCount, unread, left, netVars>>
----------------------------------------------------------------------------
(* The peers *)

PeerRead(c) ==
  /\ unread[c] > 0 /\ peer[c] = "live"
  /\ unread' = [unread EXCEPT ![c] = @ - 1]
  /\ UNCHANGED <<hubVars, pc, loc, ctx, connCount, left, netVars>>

PeerLeave(c) ==
  /\ cfg.leave /\ sock[c] = "open" /\ peer[c] = "live"
  /\ peer' = [peer EXCEPT ![c] = "gone"]
  /\ UNCHANGED <<hubVars, cfg, pc, loc, ctx, connCount, sock, unread, left, serverVars>>

Command(c) == \/ Refuse(c) \/ Answer(c) \/ quit(c) \/ ProtocolError(c) \/ Auth(c)
              \/ Subscribe(c) \/ Unsubscribe(c) \/ Publish(c)

SessionStep(c) ==
  \/ Hangup(c) \/ WriteReply(c) \/ WriteFailed(c)
  \/ AcquireConn(c) \/ SwapConn(c) \/ Bind(c) \/ ReleaseTenantConn(c)
  \/ CloseMark(c) \/ CloseChannels(c) \/ ClosePatterns(c)
  \/ SubscribeHub(c) \/ SubscribeSet(c) \/ UnsubscribeHub(c) \/ UnsubscribeSet(c)
  \/ Deliver(c) \/ Push(c) \/ Published(c)
=============================================================================
