------------------------------- MODULE Lists -------------------------------
(***************************************************************************)
(* The doubly linked lists of lru.go as sequences, head first: an entry is *)
(* unlinked where it is, and a walk starts at the head.                    *)
(***************************************************************************)
EXTENDS Integers, FiniteSetsExt, Sequences, Functions

RemoveAt(list, i) == SubSeq(list, 1, i - 1) \o SubSeq(list, i + 1, Len(list))

\* The first element that passes the test is removed, if there is one.
RemoveFirstMatch(list, Test(_)) ==
  LET found == {i \in 1 .. Len(list) : Test(list[i])}
  IN  IF found = {} THEN list ELSE RemoveAt(list, Min(found))

RemoveFirst(list, e) == RemoveFirstMatch(list, LAMBDA x : x = e)

\* All the lists, one after the other.
Flatten(lists) ==
  LET upTo[i \in 1 .. Len(lists)] ==
        IF i = 1 THEN lists[i] ELSE upTo[i - 1] \o lists[i]
  IN  upTo[Len(lists)]
=============================================================================
