------------------------------- MODULE Lease -------------------------------
(***************************************************************************)
(* What the hub promises the clients of a port, without its goroutines and *)
(* locks: a port has one holder or none, who may type, and members, who    *)
(* see its output; a client is a member of one port at a time; places for  *)
(* members that do not type may be limited or closed.  Hub implements it.  *)
(***************************************************************************)
EXTENDS Integers, FiniteSets

CONSTANTS Conns, Ports, None, MaxObservers, AllowObserve

VARIABLES holder,  \* holder[p]: the client that may type into p, or None
          members  \* members[p]: the clients that see the output of p

Free(c) == \A p \in Ports : c \notin members[p]

Acquire(c, p) ==
  /\ Free(c) /\ holder[p] = None
  /\ holder' = [holder EXCEPT ![p] = c]
  /\ members' = [members EXCEPT ![p] = @ \union {c}]

Watch(c, p) ==
  /\ Free(c) /\ AllowObserve
  /\ MaxObservers > 0 => Cardinality(members[p] \ {holder[p]}) < MaxObservers
  /\ members' = [members EXCEPT ![p] = @ \union {c}]
  /\ UNCHANGED holder

Leave(c, p) ==
  /\ c \in members[p]
  /\ members' = [members EXCEPT ![p] = @ \ {c}]
  /\ holder' = [holder EXCEPT ![p] = IF @ = c THEN None ELSE @]

Init ==
  /\ holder = [p \in Ports |-> None]
  /\ members = [p \in Ports |-> {}]

Next == \E c \in Conns, p \in Ports : Acquire(c, p) \/ Watch(c, p) \/ Leave(c, p)

Spec == Init /\ [][Next]_<<holder, members>>

============================================================================
