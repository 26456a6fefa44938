--------------------------- MODULE ConnectionPool ---------------------------
(***************************************************************************)
(* net/TcpConnectionCreator.{h,cpp}: the pool of TcpConnections that the   *)
(* Listener and the Connector inherit, a map from groups (connections with *)
(* the same remote address) to connections. A pool is a record; an         *)
(* operation is a function from a pool to the next one. A group, once      *)
(* made, is never erased.                                                  *)
(***************************************************************************)
EXTENDS Integers, FiniteSets

(* groups: the keys of connections; members: its values, empty for a group *)
(* that does not exist; connectionsNumber; asserted: an assert() of Add or *)
(* Remove has failed; selectFailed: SelectTcpConnection has gone wrong.    *)
PoolType(Connections, Groups) == [
  groups : SUBSET Groups,
  members : [Groups -> SUBSET Connections],
  connectionsNumber : Nat,
  asserted : BOOLEAN,
  selectFailed : BOOLEAN]

EmptyPool(Groups) == [
  groups |-> {}, members |-> [g \in Groups |-> {}], connectionsNumber |-> 0,
  asserted |-> FALSE, selectFailed |-> FALSE]

GetConnNumber(pool) == Cardinality(pool.groups)

InPool(pool) == UNION {pool.members[g] : g \in pool.groups}

(* Mutants of AddTcpConnection: the first connection of a group is lost;   *)
(* the counter goes the wrong way.                                         *)
AddGroupFirst(pool, c, g) ==
  IF g \in pool.groups
    THEN [pool EXCEPT !.members[g] = @ \cup {c}, !.connectionsNumber = @ + 1]
    ELSE [pool EXCEPT !.groups = @ \cup {g}, !.connectionsNumber = @ + 1]

AddCountingDown(pool, c, g) ==
  [pool EXCEPT !.groups = @ \cup {g}, !.members[g] = @ \cup {c},
               !.connectionsNumber = @ - 1]

AddTcpConnection(pool, c, g) ==
  [pool EXCEPT !.groups = @ \cup {g}, !.members[g] = @ \cup {c},
               !.connectionsNumber = @ + 1,
               !.asserted = @ \/ c \in pool.members[g]]

RemoveTcpConnection(pool, c, g) ==
  [pool EXCEPT !.members[g] = @ \ {c},
               !.connectionsNumber = @ - 1,
               !.asserted = @ \/ g \notin pool.groups \/ c \notin pool.members[g]]

(* SelectTcpConnection takes the first connection of an existing group,    *)
(* whichever the hash table has there, and asserts that it is not active.  *)
(* An empty group has no first connection: the iterator is end() and is    *)
(* dereferenced all the same.                                              *)
SelectWorks(pool, g, inUse) == pool.members[g] # {} /\ ~inUse
Selected(pool, g, inUse) == [pool EXCEPT !.selectFailed = ~SelectWorks(pool, g, inUse)]
=============================================================================
