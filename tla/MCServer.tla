----------------------------- MODULE MCServer ------------------------------
(* Instances of Server for TLC. *)
EXTENDS Server

CONSTANTS c1, c2, t1, t2, t3

\* Two client objects for each connection.
MCClients == Conns \X {1, 2}
MCOwner == [x \in MCClients |-> x[1]]
MCMatch == [p \in Patterns |-> Channels]
MCMaxClientsOf == [t \in Tenants |-> IF t = t1 THEN 2 ELSE 1]

Settings(max, auth, idle, stop, leave, cmds, n1, n2) ==
  [max |-> max, auth |-> auth, idle |-> idle, stop |-> stop, leave |-> leave, cmds |-> cmds,
   calls |-> [c \in Conns |-> IF c = c1 THEN n1 ELSE n2]]

\* Close, at any time, of a server that admits one connection and has a read deadline.
Shutdown == Settings(1, TRUE, TRUE, TRUE, FALSE, {"AUTH", "GET"}, 1, 1)
\* AUTH as either tenant, again and as the other one; peers that leave at any time.
Tenancy == Settings(0, TRUE, FALSE, FALSE, TRUE, {"AUTH", "SUBSCRIBE", "PUBLISH"}, 2, 1)
\* Publish/subscribe in the default tenant, which AUTH may leave.
PubSub == Settings(2, FALSE, FALSE, FALSE, FALSE, Commands, 3, 1)

AllSettings == {Shutdown, Tenancy, PubSub}
=============================================================================
