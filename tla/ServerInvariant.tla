-------------------------- MODULE ServerInvariant ---------------------------
(***************************************************************************)
(* The inductive invariants of Server: what a session knows at each label, *)
(* who holds a slot, what the hubs and the clients say of each other; and  *)
(* what kinds of steps its proofs tell apart.                              *)
(***************************************************************************)
EXTENDS Server, Counting

----------------------------------------------------------------------------
(* The sessions and the slots *)

\* Labels of connections that do not count against MaxClients.
Outside == {"none", "untrack", "close", "done"}

Dropping == {"shut", "unsub", "punsub"}

\* What a session knows at label a with locals l and context x.
LocalOK(a, l, x) ==
  /\ x.bound => x.tenant \in Tenants
  /\ x.pub # Nil => x.tenant \in Tenants
  /\ a \in {"acquire", "swap", "bind"} => l.tenant \in Tenants
  /\ a \in Dropping /\ l.then = "bind" => l.tenant \in Tenants
  /\ a \in {"acquire", "swap"} /\ x.bound => l.tenant # x.tenant
  /\ a = "swap" => x.bound
  /\ a = "bind" => l.then = "bind"
  /\ a \in Outside \cup {"release"} => ~ x.bound
  /\ a \in Dropping \cup {"sub", "sub2", "un", "un2"} => x.pub # Nil
  /\ a \in {"sub2", "un2"} => l.name \in Names
  /\ a = "punsub" => l.names \subseteq Patterns
  /\ a = "push" => l.to \in Clients

\* Slots, as a function of the session.
SlotsOf(a, l, x) ==
  IF a = "swap" THEN {x.tenant, l.tenant}
  ELSE IF a \in {"shut", "unsub", "punsub", "bind"} /\ l.then = "bind" THEN {l.tenant}
  ELSE IF x.bound THEN {x.tenant} ELSE {}

SessType == pc \in [Conns -> Labels] /\ loc \in [Conns -> LocType] /\ ctx \in [Conns -> CtxType]

NetType ==
  /\ cfg \in Configs
  /\ connCount \in [Tenants -> Nat]
  /\ sock \in [Conns -> {"none", "backlog", "open", "closed"}]
  /\ peer \in [Conns -> {"live", "gone"}]
  /\ unread \in [Conns -> 0 .. SockBuf]
  /\ left \in [Conns -> Nat]

ServType ==
  /\ ln \in {"open", "closed"} /\ lnSet \in BOOLEAN
  /\ conns \subseteq Conns /\ clientCount \in Nat
  /\ acc \in [at : {"start", "accept", "admit", "cas", "refuse", "track", "spawn", "returned"},
              conn : Conns \cup {Nil}, n : Nat]
  /\ closer \in [at : {"idle", "ln", "conns", "returned"}, copied : SUBSET Conns,
                 todo : SUBSET Conns]

SessionsOK == \A c \in Conns : LocalOK(pc[c], loc[c], ctx[c])

\* The connection in the hands of the accept loop has no session yet, and is the only open
\* one without.
InHand == {"admit", "cas", "refuse", "track", "spawn"}

AcceptOK ==
  /\ acc.at \in InHand => /\ acc.conn \in Conns /\ pc[acc.conn] = "none"
                          /\ sock[acc.conn] \in {"open", "closed"}
  /\ acc.at \notin InHand => acc.conn = Nil
  /\ acc.at = "cas" => acc.n < cfg.max
  /\ \A c \in Conns : /\ pc[c] # "none" => sock[c] \in {"open", "closed"}
                      /\ pc[c] = "none" /\ sock[c] = "open" => acc.conn = c
                      /\ pc[c] = "done" => sock[c] = "closed"

IInv == /\ HubTypeOK /\ SessType /\ NetType /\ ServType
        /\ SessionsOK /\ AcceptOK /\ ClientSlots /\ TenantSlots

\* Session c goes on at label a with locals l and context x.
Moves(c, a, l, x) == /\ pc' = [pc EXCEPT ![c] = a]
                     /\ loc' = [loc EXCEPT ![c] = l]
                     /\ ctx' = [ctx EXCEPT ![c] = x]

\* Which slots are held, and who counts: the holders of the abstract pools.
SlotsSame == Admitted' = Admitted /\ \A t \in Tenants : Holders(t)' = Holders(t)

\* A jump takes one session from one label inside to another, with the same slots.
Jump(c) ==
  /\ pc[c] \notin Outside
  /\ \E a \in Labels \ Outside, l \in LocType, x \in CtxType :
       /\ LocalOK(a, l, x)
       /\ SlotsOf(a, l, x) = SlotsOf(pc[c], loc[c], ctx[c])
       /\ Moves(c, a, l, x)

\* Between labels that say nothing of AUTH, the slots stay when ctx.bound stays.
Plain == {"read", "write", "sub", "sub2", "un", "un2", "deliver", "push", "acquire"}

\* A jump, and what it writes besides.
Still(c) == /\ Jump(c) /\ UNCHANGED <<netVars, connCount>>
            /\ left' \in [Conns -> Nat] /\ unread' \in [Conns -> 0 .. SockBuf]
            /\ HubTypeOK'

----------------------------------------------------------------------------
(* The pools of connections *)

\* The pools of Admission: the server's own (Nil) and the tenants'.
Pools == Tenants \cup {Nil}

Limit(p) == IF p = Nil THEN cfg.max ELSE MaxClientsOf[p]

Held(p) == IF p = Nil THEN Admitted ELSE Holders(p)

Takes(p, c) ==
  /\ c \notin Held(p)
  /\ Limit(p) > 0 => Cardinality(Held(p)) < Limit(p)
  /\ Held(p)' = Held(p) \cup {c}
  /\ \A q \in Pools \ {p} : Held(q)' = Held(q)

Gives(p, c) ==
  /\ c \in Held(p)
  /\ Held(p)' = Held(p) \ {c}
  /\ \A q \in Pools \ {p} : Held(q)' = Held(q)

PoolStep == SlotsSame \/ \E p \in Pools, c \in Conns : Takes(p, c) \/ Gives(p, c)

\* What each step is shown to do.
Keeps == IInv' /\ PoolStep /\ cfg' = cfg

----------------------------------------------------------------------------
(* The hubs *)

\* Labels between the two halves of a change to a subscription.
Busy == {"sub2", "un2", "unsub", "punsub"}

\* A session's client belongs to it and to its tenant, and once it is closed for AUTH it has
\* no subscription left; a client in use that is not closed is its connection's current one.
PubOK ==
  /\ \A c \in Conns : ctx[c].pub # Nil =>
       /\ Owner[ctx[c].pub] = c /\ home[ctx[c].pub] = ctx[c].tenant
       /\ pc[c] \in {"unsub", "punsub", "bind"} => shut[ctx[c].pub] /\ subs[ctx[c].pub] = {}
  /\ \A x \in Clients : /\ home[x] = Nil => subs[x] = {}
                        /\ home[x] # Nil /\ ~ shut[x] => ctx[Owner[x]].pub = x

\* PUBLISH only copied clients that were created on some hub.
TodoOK == \A c \in Conns : \A r \in loc[c].todo : home[r[1]] # Nil

HubInv == PubOK /\ TodoOK /\ HubAgrees

\* The other sessions are where they were.
Frame(c) == \A d \in Conns \ {c} : pc'[d] = pc[d] /\ loc'[d] = loc[d] /\ ctx'[d] = ctx[d]

\* A step of session c that has nothing to do with the hubs.
Quiet(c) ==
  /\ UNCHANGED hubVars /\ Frame(c)
  /\ ctx'[c].pub = ctx[c].pub /\ (ctx[c].pub # Nil => ctx'[c].tenant = ctx[c].tenant)
  /\ pc[c] \notin Busy /\ pc'[c] \notin Busy /\ (pc'[c] = "bind" => ctx[c].pub = Nil)
  /\ \A r \in loc'[c].todo : home[r[1]] # Nil

\* A step of session c on its own client x, which leaves the hub as x expects it.
Moved(c, x) ==
  /\ Frame(c) /\ ctx'[c] = ctx[c] /\ home' = home
  /\ \A y \in Clients \ {x} : subs'[y] = subs[y] /\ shut'[y] = shut[y]
  /\ shut[x] => shut'[x]
  /\ \A t \in Tenants, n \in Names, y \in Clients :
       y # x \/ t # home[x] => (y \in hub'[t][n] <=> y \in hub[t][n])
  /\ \A n \in Names : x \in hub'[home[x]][n] <=> n \in Expected(x)'
  /\ pc'[c] \in {"unsub", "punsub", "bind"} => shut'[x] /\ subs'[x] = {}
  /\ loc'[c].todo \subseteq loc[c].todo

\* Labels of a connection without a session, and of the end of the teardown.
Gone == {"none", "leave", "release", "untrack", "close", "done"}

\* Such a connection has no subscription left.
GoneOK == \A c \in Conns : pc[c] \in Gone => ctx[c].pub = Nil \/ subs[ctx[c].pub] = {}

\* A step of session c, seen from the subscriptions.
Parts(c) ==
  /\ Frame(c) /\ \A y \in Clients : Owner[y] # c => subs'[y] = subs[y]
  /\ pc'[c] \in Gone => ctx'[c].pub = Nil \/ subs'[ctx'[c].pub] = {}
=============================================================================
