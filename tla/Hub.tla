-------------------------------- MODULE Hub --------------------------------
(***************************************************************************)
(* The publish/subscribe hubs of the tenants (internal/pubsub/hub.go).     *)
(* A hub and its clients are two halves of one relation, each behind a     *)
(* mutex of its own: h.mu guards the sets of subscribers, c.mu the sets of *)
(* a client and its closed flag.  Every operator below is one critical     *)
(* section; Session puts them in the order the methods of Client do.       *)
(*                                                                         *)
(* Channels and patterns are kept in two maps that the code treats alike;  *)
(* here they are disjoint sets of names.  A name the map does not hold is  *)
(* one whose set is empty, as the code deletes empty sets.                 *)
(***************************************************************************)
EXTENDS Integers, FiniteSets

CONSTANTS
  Tenants, Conns,
  Channels, Patterns,
  Match,     \* Match[p]: the channels the glob p matches
  Clients,   \* identities of *Client objects
  Owner,     \* Owner[x]: the connection behind x's Deliverer
  Nil

Names == Channels \cup Patterns

ASSUME HubAssumption ==
  /\ Channels \cap Patterns = {}
  /\ Match \in [Patterns -> SUBSET Channels]
  /\ Owner \in [Clients -> Conns]
  /\ Nil \notin Tenants \cup Conns \cup Clients \cup Names

VARIABLES
  hub,    \* hub[t][n]: the subscribers of n in byChannel or byPattern of tenant t
  home,   \* home[x]: the tenant whose hub x was created on, Nil before NewClient
  subs,   \* subs[x]: x.channels and x.patterns
  shut    \* shut[x]: x.closed

hubVars == <<hub, home, subs, shut>>

HubInit ==
  /\ hub = [t \in Tenants |-> [n \in Names |-> {}]]
  /\ home = [x \in Clients |-> Nil]
  /\ subs = [x \in Clients |-> {}]
  /\ shut = [x \in Clients |-> FALSE]

\* subscribeChannel and psubscribePattern, under h.mu.
Register(x, n) == hub' = [hub EXCEPT ![home[x]][n] = @ \cup {x}]

\* unsubscribeChannels and punsubscribePatterns, under h.mu: all of N at once.
Unregister(x, N) ==
  hub' = [hub EXCEPT ![home[x]] = [n \in Names |-> IF n \in N THEN @[n] \ {x} ELSE @[n]]]

\* matchPattern, and the plain subscriptions of the channel itself.
Matches(n, ch) == n = ch \/ (n \in Patterns /\ ch \in Match[n])

\* The recipients Publish copies under h.mu: one for each matching subscription,
\* so that a client with several of them is named several times.
Targets(t, ch) == {r \in Clients \X Names : Matches(r[2], ch) /\ r[1] \in hub[t][r[2]]}

\* PUBSUB NUMSUB
NumSub(t, ch) == Cardinality(hub[t][ch])

HubTypeOK ==
  /\ hub \in [Tenants -> [Names -> SUBSET Clients]]
  /\ home \in [Clients -> Tenants \cup {Nil}]
  /\ subs \in [Clients -> SUBSET Names]
  /\ shut \in [Clients -> BOOLEAN]
=============================================================================
