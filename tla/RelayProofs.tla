---------------------------- MODULE RelayProofs ----------------------------
(***************************************************************************)
(* Machine-checked proof about module Relay, for every set of connections, *)
(* rooms and tokens: clients are paired with one that matches and receive  *)
(* what that one sent, each chunk once.                                    *)
(***************************************************************************)
EXTENDS Relay, FiniteSetTheorems, TLAPS

PcAt == {"hello", "greet", "greet2", "wait", "pair", "splice",
         "both", "sweep", "sweep2", "drain", "close", "done"}
Early == {"hello", "greet", "greet2", "wait", "pair"}
Coupled == {"greet2", "pair", "splice", "both", "sweep", "sweep2", "drain"}

pairing == <<who, tok, queue, partner, paired>>

PairTypes ==
  /\ pc \in [Peers -> PcAt]
  /\ who \in [Peers -> Hello \union {None}]
  /\ tok \in [Rooms -> Tokens \union {None}]
  /\ queue \in [Rooms -> [Roles -> Seq(Peers)]]
  /\ partner \in [Peers -> Peers \union {None}]
  /\ paired \in [Peers -> BOOLEAN]

(* Who is in a list waits there for a partner, once, and gave its token.    *)
Waiting(q, r, role) ==
  /\ who[q] = [role |-> role, room |-> r, token |-> tok[r]]
  /\ tok[r] \in Tokens
  /\ partner[q] = None /\ ~paired[q] /\ pc[q] \in {"greet", "wait"}

Once(list) == \A i, j \in 1..Len(list) : list[i] = list[j] => i = j

Lists ==
  \A r \in Rooms, role \in Roles :
    /\ \A i \in 1..Len(queue[r][role]) : Waiting(queue[r][role][i], r, role)
    /\ Once(queue[r][role])

(* Where a handler must have a partner, and where it must not. *)
Places ==
  \A p \in Peers :
    /\ pc[p] = "hello" => partner[p] = None
    /\ pc[p] \in Coupled \/ paired[p] => partner[p] # None
    /\ pc[p] \notin {"hello", "close", "done"} \/ partner[p] # None => who[p] \in Hello

Pairing == PairTypes /\ Lists /\ Places /\ PairsMatch /\ NobodyPassedOver

----------------------------------------------------------------------------
(* Lists. *)

LEMMA WithoutFacts ==
  ASSUME NEW list \in Seq(Peers), NEW p, Once(list)
  PROVE  /\ Without(list, p) \in Seq(Peers)
         /\ \A i \in 1..Len(Without(list, p)) :
              Without(list, p)[i] # p
              /\ \E j \in 1..Len(list) : Without(list, p)[i] = list[j]
         /\ Once(Without(list, p))
         /\ list = <<>> => Without(list, p) = <<>>
         /\ \A j \in 1..Len(list) : list[j] # p =>
              \E i \in 1..Len(Without(list, p)) : Without(list, p)[i] = list[j]
<1>1. CASE \E i \in DOMAIN list : list[i] = p
  <2> DEFINE k == CHOOSE i \in DOMAIN list : list[i] = p
             a == SubSeq(list, 1, k - 1)
             b == SubSeq(list, k + 1, Len(list))
             w == a \o b
  <2>1. k \in 1..Len(list) /\ list[k] = p
    BY <1>1
  <2>2. Without(list, p) = w
    BY <1>1 DEF Without, RemoveAt
  <2>3. \A i \in 1..Len(list) : i # k => list[i] # p
    BY <2>1 DEF Once
  <2> HIDE DEF k
  <2>4. /\ w \in Seq(Peers) /\ Len(w) = Len(list) - 1
        /\ \A i \in 1..Len(w) : w[i] = IF i < k THEN list[i] ELSE list[i + 1]
    <3>1. a \in Seq(Peers) /\ Len(a) = k - 1 /\ \A i \in 1..(k - 1) : a[i] = list[i]
      BY <2>1
    <3>2. b \in Seq(Peers) /\ Len(b) = Len(list) - k /\ \A i \in 1..Len(b) : b[i] = list[k + i]
      BY <2>1
    <3> HIDE DEF a, b
    <3>3. w \in Seq(Peers) /\ Len(w) = Len(list) - 1
      <4>1. Len(w) = Len(a) + Len(b)
        BY SMTT(30), <3>1, <3>2
      <4>2. w \in Seq(Peers)
        BY <3>1, <3>2
      <4>3. k \in Int /\ Len(list) \in Int
        BY <2>1
      <4> QED
        BY <3>1, <3>2, <4>1, <4>2, <4>3
    <3>4. \A i \in 1..Len(w) : w[i] = IF i < k THEN a[i] ELSE b[i - (k - 1)]
      BY <2>1, <3>1, <3>2
    <3>5. \A i \in 1..Len(w) : ~(i < k) => b[i - (k - 1)] = list[i + 1]
      BY SMTT(30), <2>1, <3>2, <3>3
    <3> QED
      BY <2>1, <3>1, <3>3, <3>4, <3>5
  <2> HIDE DEF w
  <2>5. \A i \in 1..Len(w) : \E j \in 1..Len(list) : w[i] = list[j] /\ w[i] # p
    <3> SUFFICES ASSUME NEW i \in 1..Len(w)
                 PROVE  \E j \in 1..Len(list) : w[i] = list[j] /\ w[i] # p
      OBVIOUS
    <3>1. CASE i < k
      BY <2>1, <2>3, <2>4, <3>1
    <3>2. CASE ~(i < k)
      BY <2>1, <2>3, <2>4, <3>2
    <3> QED
      BY <3>1, <3>2
  <2>6. Once(w)
    BY <2>1, <2>4 DEF Once
  <2>7. ASSUME NEW j \in 1..Len(list), list[j] # p
        PROVE  \E i \in 1..Len(w) : w[i] = list[j]
    <3>1. CASE j < k
      <4>1. j \in 1..Len(w) /\ w[j] = list[j]
        BY <2>1, <2>4, <3>1
      <4> QED
        BY <4>1
    <3>2. CASE j > k
      <4>1. j - 1 \in 1..Len(w) /\ ~(j - 1 < k) /\ j - 1 + 1 = j
        BY <2>1, <2>4, <3>2
      <4>2. w[j - 1] = list[j]
        BY <2>4, <4>1
      <4> QED
        BY <4>1, <4>2
    <3> QED
      BY <2>1, <2>7, <3>1, <3>2
  <2> QED
    BY <2>1, <2>2, <2>4, <2>5, <2>6, <2>7
<1>2. CASE ~\E i \in DOMAIN list : list[i] = p
  BY <1>2 DEF Without
<1> QED
  BY <1>1, <1>2

(* A handler's own step, past its registration, that changes no list. *)
LEMMA PairingFrame ==
  ASSUME Pairing, UNCHANGED pairing, NEW p \in Peers, NEW l \in PcAt \ {"hello"}, Go(p, l),
         pc[p] \in {"greet", "wait"} => l = "wait" \/ partner[p] # None,
         l \in Coupled => partner[p] # None,
         l \notin {"close", "done"} => who[p] \in Hello
  PROVE  Pairing'
<1> USE DEF Pairing, pairing, Go
<1>1. PairTypes'
  BY DEF PairTypes
<1>2. Lists'
  BY DEF Lists, Waiting, PairTypes
<1>3. Places'
  BY DEF Places, PairTypes
<1>4. PairsMatch' /\ NobodyPassedOver'
  BY DEF PairsMatch, NobodyPassedOver
<1> QED
  BY <1>1, <1>2, <1>3, <1>4

(* A step that changes nothing of it. *)
LEMMA PairingSame ==
  ASSUME Pairing, UNCHANGED pairing, UNCHANGED pc PROVE Pairing'
BY DEF Pairing, pairing, PairTypes, Lists, Waiting, Places, PairsMatch, NobodyPassedOver

(* Leaving the lists of one's room. *)
LEMMA PairingLeaves ==
  ASSUME Pairing, NEW q \in Peers, who[q] \in Hello, Unregister(q),
         UNCHANGED <<who, partner, paired>>,
         NEW p \in Peers, NEW l \in PcAt \ {"hello"}, Go(p, l),
         p = q \/ partner[p] # None,
         l \in Coupled => partner[p] # None,
         l \notin {"close", "done"} => who[p] \in Hello
  PROVE  Pairing'
<1> DEFINE r == who[q].room
<1>1. r \in Rooms
  BY DEF Hello
<1>2. /\ \A s \in Rooms, role \in Roles :
           queue'[s][role] = IF s = r THEN Without(queue[s][role], q) ELSE queue[s][role]
      /\ queue' \in [Rooms -> [Roles -> Seq(Peers)]]
  <2>1. queue' = [queue EXCEPT ![r] = [role \in Roles |-> Without(queue[r][role], q)]]
    BY DEF Unregister, Pairing, PairTypes
  <2>2. \A role \in Roles : Without(queue[r][role], q) \in Seq(Peers)
    BY <1>1, WithoutFacts DEF Pairing, PairTypes, Lists
  <2> QED
    BY <1>1, <2>1, <2>2 DEF Pairing, PairTypes
<1>3. \A s \in Rooms, role \in Roles :
        /\ \A i \in 1..Len(queue'[s][role]) :
             queue'[s][role][i] # q
             /\ \E j \in 1..Len(queue[s][role]) : queue'[s][role][i] = queue[s][role][j]
        /\ Once(queue'[s][role])
        /\ queue[s][role] = <<>> => queue'[s][role] = <<>>
  <2> SUFFICES ASSUME NEW s \in Rooms, NEW role \in Roles
               PROVE  /\ \A i \in 1..Len(queue'[s][role]) :
                           queue'[s][role][i] # q
                           /\ \E j \in 1..Len(queue[s][role]) :
                                queue'[s][role][i] = queue[s][role][j]
                      /\ Once(queue'[s][role])
                      /\ queue[s][role] = <<>> => queue'[s][role] = <<>>
    OBVIOUS
  <2>1. queue[s][role] \in Seq(Peers) /\ Once(queue[s][role])
    BY DEF Pairing, PairTypes, Lists
  <2>2. CASE s = r
    <3>1. queue'[s][role] = Without(queue[s][role], q)
      BY <1>2, <2>2
    <3> HIDE DEF r
    <3> QED
      BY <2>1, <3>1, WithoutFacts
  <2>3. CASE s # r
    <3>1. \A i \in 1..Len(queue[s][role]) : queue[s][role][i] # q
      <4>1. \A i \in 1..Len(queue[s][role]) : Waiting(queue[s][role][i], s, role)
        BY DEF Pairing, Lists
      <4> QED
        BY <2>3, <4>1 DEF Waiting
    <3> QED
      BY <1>2, <2>1, <2>3, <3>1
  <2> QED
    BY <2>2, <2>3
<1>4. tok' \in [Rooms -> Tokens \union {None}]
  BY DEF Unregister, Pairing, PairTypes
<1>5. \A s \in Rooms, role \in Roles : queue'[s][role] # <<>> => tok'[s] = tok[s]
  BY <1>1 DEF Unregister, Pairing, PairTypes
<1>6. PairTypes'
  BY <1>2, <1>4 DEF Pairing, PairTypes, Go
<1>7. Lists'
  <2> SUFFICES ASSUME NEW s \in Rooms, NEW role \in Roles, NEW i \in 1..Len(queue'[s][role])
               PROVE  Waiting(queue[s][role][i], s, role)'
    <3>1. \A s \in Rooms, role \in Roles : Once(queue[s][role])'
      BY <1>3 DEF Once
    <3> QED
      BY <3>1 DEF Lists
  <2>1. PICK j \in 1..Len(queue[s][role]) : queue'[s][role][i] = queue[s][role][j]
    BY <1>3
  <2>2. Waiting(queue[s][role][j], s, role) /\ queue[s][role][j] # q
    BY <1>3, <2>1 DEF Pairing, Lists
  <2>3. queue[s][role][j] \in Peers /\ queue[s][role][j] # p
    BY <2>2 DEF Pairing, PairTypes, Waiting
  <2>4. queue'[s][role] # <<>>
    BY <1>2
  <2>5. tok'[s] = tok[s]
    BY <1>5, <2>4
  <2>6. pc'[queue[s][role][j]] = pc[queue[s][role][j]]
    BY <2>3 DEF Go, Pairing, PairTypes
  <2> HIDE DEF r
  <2> QED
    BY <2>1, <2>2, <2>5, <2>6 DEF Waiting
<1>8. Places'
  BY DEF Pairing, PairTypes, Places, Go
<1>9. PairsMatch'
  BY DEF Pairing, PairsMatch
<1>10. NobodyPassedOver'
  BY <1>3 DEF Pairing, NobodyPassedOver
<1> QED
  BY <1>6, <1>7, <1>8, <1>9, <1>10 DEF Pairing

(* Whoever is taken from the other list matches; otherwise that list is     *)
(* empty, and the peer joins its own.                                       *)
LEMMA PairingRegister ==
  ASSUME Pairing, NEW p \in Peers, NEW w \in Hello, Register(p, w)
  PROVE  Pairing'
<1> DEFINE r == w.room
           theirs == queue[r][Other(w.role)]
           own == queue[r][w.role]
<1>1. /\ r \in Rooms /\ w.role \in Roles /\ w.token \in Tokens
      /\ Other(w.role) \in Roles /\ Other(w.role) # w.role /\ Other(Other(w.role)) = w.role
      /\ w = [role |-> w.role, room |-> r, token |-> w.token]
  BY DEF Hello, Roles, Other
<1>2. /\ pc[p] = "hello" /\ partner[p] = None /\ ~paired[p]
      /\ who' = [who EXCEPT ![p] = w] /\ tok' = [tok EXCEPT ![r] = w.token]
      /\ tok[r] \in {None, w.token}
  BY DEF Register, Admits, Pairing, Places, PairTypes
<1>3. theirs \in Seq(Peers) /\ own \in Seq(Peers)
  BY <1>1 DEF Pairing, PairTypes
<1>4. \A s \in Rooms, role \in Roles : \A i \in 1..Len(queue[s][role]) :
        /\ Waiting(queue[s][role][i], s, role)
        /\ queue[s][role][i] \in Peers /\ queue[s][role][i] # p /\ tok'[s] = tok[s]
  <2> SUFFICES ASSUME NEW s \in Rooms, NEW role \in Roles, NEW i \in 1..Len(queue[s][role])
               PROVE  /\ Waiting(queue[s][role][i], s, role)
                      /\ queue[s][role][i] \in Peers /\ queue[s][role][i] # p
                      /\ tok'[s] = tok[s]
    OBVIOUS
  <2>1. Waiting(queue[s][role][i], s, role)
    BY DEF Pairing, Lists
  <2>2. tok[s] # None
    BY <2>1, RelayAssumption DEF Waiting, RelayAssumption
  <2>3. tok'[s] = tok[s]
    BY <1>1, <1>2, <2>2 DEF Pairing, PairTypes
  <2>4. queue[s][role][i] \in Peers
    BY DEF Pairing, PairTypes
  <2> QED
    BY <1>2, <2>1, <2>3, <2>4 DEF Waiting
<1>5. CASE theirs # <<>>
  <2> DEFINE q == Head(theirs)
  <2>1. /\ partner' = [partner EXCEPT ![p] = q, ![q] = p]
        /\ paired' = [paired EXCEPT ![q] = TRUE]
        /\ queue' = [queue EXCEPT ![r][Other(w.role)] = Tail(@)]
        /\ pc' = [pc EXCEPT ![p] = "greet2"]
    BY <1>5 DEF Register, Join, Pair, Go
  <2>2. q = theirs[1] /\ 1 \in 1..Len(theirs)
    BY <1>3, <1>5
  <2>3. /\ q \in Peers /\ q # p /\ partner[q] = None /\ tok[r] = w.token
        /\ who[q] = [role |-> Other(w.role), room |-> r, token |-> w.token]
        /\ pc[q] \in {"greet", "wait"}
    <3>1. Waiting(q, r, Other(w.role)) /\ q \in Peers /\ q # p /\ tok'[r] = tok[r]
      BY <1>1, <1>4, <2>2
    <3> HIDE DEF q, r
    <3>2. tok[r] = w.token
      BY <1>1, <1>2, <3>1 DEF Pairing, PairTypes
    <3> QED
      BY <3>1, <3>2 DEF Waiting
  <2> HIDE DEF q
  <2>4. \A s \in Rooms, role \in Roles :
          queue'[s][role] = IF s = r /\ role = Other(w.role) THEN Tail(theirs) ELSE queue[s][role]
    BY <1>1, <2>1 DEF Pairing, PairTypes
  <2>5. \A i \in 1..Len(Tail(theirs)) :
          Tail(theirs)[i] = theirs[i + 1] /\ i + 1 \in 1..Len(theirs) /\ Tail(theirs)[i] # q
    <3>1. Once(theirs)
      BY <1>1 DEF Pairing, Lists
    <3> HIDE DEF theirs
    <3> QED
      BY <1>3, <1>5, <2>2, <3>1 DEF Once
  <2>6. PairTypes'
    <3>1. queue' \in [Rooms -> [Roles -> Seq(Peers)]]
      BY <1>1, <1>3, <1>5, <2>1 DEF Pairing, PairTypes
    <3> QED
      BY <1>1, <1>2, <2>1, <2>3, <3>1 DEF Pairing, PairTypes, PcAt
  <2>7. Lists'
    <3> SUFFICES ASSUME NEW s \in Rooms, NEW role \in Roles
                 PROVE  /\ \A i \in 1..Len(queue'[s][role]) : Waiting(queue[s][role][i], s, role)'
                        /\ Once(queue[s][role])'
      BY DEF Lists
    <3>1. Once(queue'[s][role])
      <4>1. Once(queue[s][role]) /\ Once(theirs)
        BY <1>1 DEF Pairing, Lists
      <4>2. Once(Tail(theirs))
        <5> HIDE DEF theirs
        <5> QED
          BY <1>3, <1>5, <2>5, <4>1 DEF Once
      <4> QED
        BY <2>4, <4>1, <4>2
    <3>2. ASSUME NEW i \in 1..Len(queue'[s][role]), NEW x, x = queue'[s][role][i]
          PROVE  Waiting(x, s, role)'
      <4>1. x # q /\ \E j \in 1..Len(queue[s][role]) : x = queue[s][role][j]
        <5>1. CASE s = r /\ role = Other(w.role)
          <6>1. queue'[s][role] = Tail(theirs) /\ queue[s][role] = theirs
            BY <2>4, <5>1
          <6> HIDE DEF theirs
          <6> QED
            BY <2>5, <3>2, <6>1
        <5>2. CASE ~(s = r /\ role = Other(w.role))
          <6>1. queue'[s][role] = queue[s][role]
            BY <2>4, <5>2
          <6>2. who[x] = [role |-> role, room |-> s, token |-> tok[s]]
            BY <1>4, <3>2, <6>1 DEF Waiting
          <6> QED
            BY <2>3, <3>2, <5>2, <6>1, <6>2
        <5> QED
          BY <5>1, <5>2
      <4>2. Waiting(x, s, role) /\ x \in Peers /\ x # p /\ tok'[s] = tok[s]
        BY <1>4, <4>1
      <4>3. who'[x] = who[x] /\ partner'[x] = partner[x] /\ paired'[x] = paired[x] /\ pc'[x] = pc[x]
        BY <1>2, <2>1, <2>3, <4>1, <4>2 DEF Pairing, PairTypes
      <4> QED
        BY <4>2, <4>3 DEF Waiting
    <3>3. \A i \in 1..Len(queue'[s][role]) : Waiting(queue[s][role][i], s, role)'
      BY <3>2
    <3> QED
      BY <3>1, <3>3 DEF Once
  <2>8. Places'
    <3> SUFFICES ASSUME NEW x \in Peers
                 PROVE  /\ pc'[x] = "hello" => partner'[x] = None
                        /\ pc'[x] \in Coupled \/ paired'[x] => partner'[x] # None
                        /\ pc'[x] \notin {"hello", "close", "done"} \/ partner'[x] # None
                             => who'[x] \in Hello
      BY DEF Places
    <3>1. who[q] \in Hello
      BY <1>1, <2>3 DEF Hello
    <3>2. None \notin Peers
      BY RelayAssumption DEF RelayAssumption
    <3>3. CASE x = p
      BY <1>2, <2>1, <2>3, <3>2, <3>3 DEF Pairing, PairTypes
    <3>4. CASE x = q
      BY <1>2, <2>1, <2>3, <3>1, <3>2, <3>4 DEF Pairing, PairTypes
    <3>5. CASE x # p /\ x # q
      BY <1>2, <2>1, <2>3, <3>5 DEF Pairing, PairTypes, Places
    <3> QED
      BY <3>3, <3>4, <3>5
  <2>9. PairsMatch'
    <3> SUFFICES ASSUME NEW x \in Peers, partner'[x] # None
                 PROVE  /\ partner'[partner'[x]] = x
                        /\ who'[partner'[x]] = [who'[x] EXCEPT !.role = Other(who'[x].role)]
      BY DEF PairsMatch
    <3>1. [w EXCEPT !.role = Other(w.role)] = who[q]
      BY <1>1, <2>3
    <3>2. [who[q] EXCEPT !.role = Other(who[q].role)] = w
      BY <1>1, <2>3
    <3>3. CASE x = p
      BY <1>2, <2>1, <2>3, <3>1, <3>3 DEF Pairing, PairTypes
    <3>4. CASE x = q
      BY <1>2, <2>1, <2>3, <3>2, <3>4 DEF Pairing, PairTypes
    <3>5. CASE x # p /\ x # q
      <4>1. partner'[x] = partner[x] /\ who'[x] = who[x]
        BY <1>2, <2>1, <3>5 DEF Pairing, PairTypes
      <4>2. partner[x] \in Peers /\ partner[partner[x]] = x
            /\ who[partner[x]] = [who[x] EXCEPT !.role = Other(who[x].role)]
        BY <4>1 DEF Pairing, PairsMatch, PairTypes
      <4>3. partner[x] # p /\ partner[x] # q
        BY <1>2, <2>3, <4>2, RelayAssumption DEF RelayAssumption
      <4> QED
        BY <1>2, <2>1, <4>1, <4>2, <4>3 DEF Pairing, PairTypes
    <3> QED
      BY <3>3, <3>4, <3>5
  <2>10. NobodyPassedOver'
    <3> SUFFICES ASSUME NEW s \in Rooms PROVE \E role \in Roles : queue'[s][role] = <<>>
      BY DEF NobodyPassedOver
    <3>1. PICK role \in Roles : queue[s][role] = <<>>
      BY DEF Pairing, NobodyPassedOver
    <3>2. queue'[s][role] = <<>>
      BY <1>5, <2>4, <3>1
    <3> QED
      BY <3>2
  <2> QED
    BY <2>6, <2>7, <2>8, <2>9, <2>10 DEF Pairing
<1>6. CASE theirs = <<>>
  <2>1. /\ UNCHANGED <<partner, paired>>
        /\ queue' = [queue EXCEPT ![r][w.role] = Append(@, p)]
        /\ pc' = [pc EXCEPT ![p] = "greet"]
    BY <1>6 DEF Register, Join, Enqueue, Go
  <2>2. \A s \in Rooms, role \in Roles :
          queue'[s][role] = IF s = r /\ role = w.role THEN Append(own, p) ELSE queue[s][role]
    BY <1>1, <2>1 DEF Pairing, PairTypes
  <2>3. /\ Len(Append(own, p)) = Len(own) + 1 /\ Append(own, p)[Len(own) + 1] = p
        /\ \A i \in 1..Len(own) : Append(own, p)[i] = own[i]
        /\ Append(own, p) \in Seq(Peers)
    <3> HIDE DEF own
    <3> QED
      BY <1>3
  <2>4. PairTypes'
    <3>1. queue' \in [Rooms -> [Roles -> Seq(Peers)]]
      BY <1>1, <2>1, <2>3 DEF Pairing, PairTypes
    <3> QED
      BY <1>1, <1>2, <2>1, <3>1 DEF Pairing, PairTypes, PcAt
  <2>5. Lists'
    <3> SUFFICES ASSUME NEW s \in Rooms, NEW role \in Roles
                 PROVE  /\ \A i \in 1..Len(queue'[s][role]) : Waiting(queue[s][role][i], s, role)'
                        /\ Once(queue[s][role])'
      BY DEF Lists
    <3>1. \A i \in 1..Len(queue[s][role]) :
            queue[s][role][i] # p /\ Waiting(queue[s][role][i], s, role)
            /\ queue[s][role][i] \in Peers /\ tok'[s] = tok[s]
      BY <1>4
    <3>2. Once(queue[s][role])
      BY DEF Pairing, Lists
    <3>3. ASSUME NEW x \in Peers, x # p, Waiting(x, s, role), tok'[s] = tok[s]
          PROVE  Waiting(x, s, role)'
      BY <1>2, <2>1, <3>3 DEF Pairing, PairTypes, Waiting
    <3>4. CASE s = r /\ role = w.role
      <4>1. queue'[s][role] = Append(own, p) /\ queue[s][role] = own
        BY <2>2, <3>4
      <4>2. Waiting(p, s, role)'
        BY <1>1, <1>2, <2>1, <3>4 DEF Pairing, PairTypes, Waiting
      <4>3. Once(Append(own, p))
        <5> HIDE DEF own
        <5> QED
          BY <1>3, <2>3, <3>1, <3>2, <4>1 DEF Once
      <4>4. \A i \in 1..Len(Append(own, p)) : i \in 1..Len(own) \/ i = Len(own) + 1
        <5> HIDE DEF own
        <5> QED
          BY <1>3, <2>3
      <4>5. ASSUME NEW i \in 1..Len(queue'[s][role]), NEW x, x = queue'[s][role][i]
            PROVE  Waiting(x, s, role)'
        <5>1. CASE i \in 1..Len(own)
          <6>1. x = queue[s][role][i]
            BY <2>3, <4>1, <4>5, <5>1
          <6> QED
            BY <3>1, <3>3, <4>1, <5>1, <6>1
        <5>2. CASE i = Len(own) + 1
          <6>1. x = p
            BY <2>3, <4>1, <4>5, <5>2
          <6> QED
            BY <4>2, <6>1
        <5> QED
          BY <4>1, <4>4, <4>5, <5>1, <5>2
      <4> QED
        BY <4>1, <4>3, <4>5 DEF Once
    <3>5. CASE ~(s = r /\ role = w.role)
      <4>1. queue'[s][role] = queue[s][role]
        BY <2>2, <3>5
      <4> QED
        BY <3>1, <3>2, <3>3, <4>1 DEF Once
    <3> QED
      BY <3>4, <3>5
  <2>6. Places'
    BY <1>2, <2>1 DEF Pairing, PairTypes, Places, Coupled
  <2>7. PairsMatch'
    <3> SUFFICES ASSUME NEW x \in Peers, partner[x] # None
                 PROVE  who'[partner[x]] = [who'[x] EXCEPT !.role = Other(who'[x].role)]
      BY <2>1 DEF Pairing, PairsMatch
    <3>1. x # p /\ partner[x] \in Peers /\ partner[x] # p
      <4>1. partner[x] \in Peers /\ partner[partner[x]] = x
        BY DEF Pairing, PairTypes, PairsMatch
      <4> QED
        BY <1>2, <4>1, RelayAssumption DEF RelayAssumption
    <3> QED
      BY <1>2, <3>1 DEF Pairing, PairTypes, PairsMatch
  <2>8. NobodyPassedOver'
    <3> SUFFICES ASSUME NEW s \in Rooms PROVE \E role \in Roles : queue'[s][role] = <<>>
      BY DEF NobodyPassedOver
    <3>1. CASE s = r
      BY <1>1, <1>6, <2>2, <3>1
    <3>2. CASE s # r
      BY <2>2, <3>2 DEF Pairing, NobodyPassedOver
    <3> QED
      BY <3>1, <3>2
  <2> QED
    BY <2>4, <2>5, <2>6, <2>7, <2>8 DEF Pairing
<1> QED
  BY <1>5, <1>6

LEMMA PairingInit == Init => Pairing
BY RelayAssumption DEF RelayAssumption, Init, Pairing, PairTypes, PcAt, Lists, Waiting, Once,
   Places, Coupled, PairsMatch, NobodyPassedOver, Roles

LEMMA PairingHandler ==
  ASSUME Pairing, NEW p \in Peers, Handler(p) PROVE Pairing'
<1> USE DEF pairing, PcAt, Coupled
<1>1. CASE \E w \in Hello : Register(p, w)
  BY <1>1, PairingRegister
<1>2. CASE Reject(p) \/ NoHello(p) \/ Return(p)
  <2>1. \E l \in {"close", "done"} : Go(p, l)
    BY <1>2 DEF Reject, NoHello, Return
  <2>2. UNCHANGED pairing /\ pc[p] \notin {"greet", "wait"}
    BY <1>2 DEF Reject, NoHello, Return
  <2> QED
    BY <2>1, <2>2, PairingFrame
<1>3. CASE Greet(p) \/ Found(p)
  <2>1. UNCHANGED pairing /\ who[p] \in Hello
    BY <1>3 DEF Greet, Found, Pairing, Places
  <2>2. CASE Greet(p) /\ pc[p] = "greet"
    <3>1. Go(p, "wait")
      BY <2>2 DEF Greet
    <3> QED
      BY <2>1, <3>1, PairingFrame
  <2>3. CASE (Greet(p) /\ pc[p] # "greet") \/ Found(p)
    <3>1. Go(p, "pair") /\ partner[p] # None
      BY <2>3 DEF Greet, Found, Pairing, Places
    <3> QED
      BY <2>1, <3>1, PairingFrame
  <2> QED
    BY <1>3, <2>2, <2>3
<1>4. CASE GreetFails(p) \/ GiveUp(p)
  <2>1. /\ Unregister(p) /\ Go(p, "close") /\ who[p] \in Hello
        /\ UNCHANGED <<who, partner, paired>>
    BY <1>4 DEF GreetFails, GiveUp, Pairing, Places
  <2> QED
    BY <2>1, PairingLeaves
<1>5. CASE PairReply(p) \/ PairReplyFails(p) \/ SpliceEnds(p) \/ CloseBoth(p) \/ Drain(p)
  <2>1. UNCHANGED pairing /\ who[p] \in Hello /\ partner[p] # None
    BY <1>5 DEF PairReply, PairReplyFails, SpliceEnds, CloseBoth, Drain, Pairing, Places
  <2>2. \E l \in {"splice", "both", "sweep", "done"} : Go(p, l)
    BY <1>5 DEF PairReply, PairReplyFails, SpliceEnds, CloseBoth, Drain
  <2> QED
    BY <2>1, <2>2, PairingFrame
<1>6. CASE Sweep(p)
  <2>1. /\ UNCHANGED <<who, partner, paired>> /\ partner[p] # None
        /\ partner[p] \in Peers /\ who[p] \in Hello /\ who[partner[p]] \in Hello
    <3>1. UNCHANGED <<who, partner, paired>> /\ pc[p] \in {"sweep", "sweep2"}
      BY <1>6 DEF Sweep
    <3>2. partner[p] # None /\ partner[p] \in Peers /\ who[p] \in Hello
      BY <3>1 DEF Pairing, PairTypes, Places
    <3>3. partner[partner[p]] = p
      BY <3>2 DEF Pairing, PairsMatch
    <3>4. who[partner[p]] \in Hello
      BY <3>2, <3>3, RelayAssumption DEF RelayAssumption, Pairing, Places
    <3> QED
      BY <3>1, <3>2, <3>4
  <2>2. CASE Unregister(p) /\ Go(p, "sweep2")
    BY <2>1, <2>2, PairingLeaves
  <2>3. CASE Unregister(partner[p]) /\ Go(p, "drain")
    BY <2>1, <2>3, PairingLeaves
  <2> QED
    BY <1>6, <2>2, <2>3 DEF Sweep
<1> QED
  BY <1>1, <1>2, <1>3, <1>4, <1>5, <1>6 DEF Handler

LEMMA PairingStep == Pairing /\ [Next]_vars => Pairing'
<1> SUFFICES ASSUME Pairing, [Next]_vars PROVE Pairing'
  OBVIOUS
<1>1. ASSUME NEW p \in Peers, Send(p) \/ Take(p) \/ Leave(p) \/ \E way \in Ways : Copying(p, way)
      PROVE  Pairing'
  <2>1. UNCHANGED pairing /\ UNCHANGED pc
    BY <1>1 DEF Send, Take, Leave, Copying, CopyRead, CopyWrite, CopyEnds, pairing
  <2> QED
    BY <2>1, PairingSame
<1>2. CASE Quiet \/ UNCHANGED vars
  BY <1>2, PairingSame DEF Quiet, vars, pairing
<1> QED
  BY <1>1, <1>2, PairingHandler DEF Next

----------------------------------------------------------------------------
(* Bytes. *)

Packet == [from : Peers \union {None}, kind : {"data", "waiting", "paired"}, n : Nat]

Writes(p, way) == copy[p][way] = "write"

ByteTypes ==
  /\ sent \in [Peers -> Nat]
  /\ inbox \in [Peers -> Seq(Packet)] /\ outbox \in [Peers -> Seq(Packet)]
  /\ copy \in [Peers -> [Ways -> {"off", "read", "write", "ended"}]]
  /\ hand \in [Peers -> [Ways -> Packet \union {None}]]

(* Only a peer with a partner copies. *)
Copies ==
  \A p \in Peers, way \in Ways :
    /\ copy[p][way] # "off" => partner[p] # None
    /\ pc[p] \in Early => copy[p][way] = "off"

(* x is a chunk that s has sent, and it has been read. *)
WasRead(x, s) ==
  /\ x.from = s /\ x.kind = "data" /\ x.n <= sent[s]
  /\ \A i \in 1..Len(inbox[s]) : x.n < inbox[s][i].n

(* What has not been read is in order. *)
Unread ==
  \A s \in Peers :
    /\ \A i \in 1..Len(inbox[s]) :
         inbox[s][i].from = s /\ inbox[s][i].kind = "data" /\ inbox[s][i].n <= sent[s]
    /\ \A i, j \in 1..Len(inbox[s]) : i < j => inbox[s][i].n < inbox[s][j].n

(* What a goroutine has in hand is in no other hand and was not written. *)
InHand ==
  \A p \in Peers, way \in Ways : Writes(p, way) =>
    /\ hand[p][way] \in Packet /\ WasRead(hand[p][way], From(p, way))
    /\ \A q \in Peers, other \in Ways :
         Writes(q, other) /\ hand[q][other] = hand[p][way] => q = p /\ other = way
    /\ \A i \in 1..Len(outbox[To(p, way)]) : outbox[To(p, way)][i] # hand[p][way]

Written ==
  \A p \in Peers : \A i \in 1..Len(outbox[p]) : outbox[p][i].kind = "data" =>
    /\ partner[p] # None /\ WasRead(outbox[p][i], partner[p])
    /\ \A j \in 1..Len(outbox[p]) : outbox[p][j] = outbox[p][i] => j = i

Bytes == ByteTypes /\ Copies /\ Unread /\ InHand /\ Written

LEMMA BytesInit == Init => Bytes
BY DEF Init, Bytes, ByteTypes, Copies, Unread, InHand, Written, Writes, Early, Packet, Ways

(* The two ends of a copying goroutine are partners. *)
LEMMA Ends ==
  ASSUME Pairing, Bytes, NEW p \in Peers, NEW way \in Ways, copy[p][way] # "off"
  PROVE  /\ From(p, way) \in Peers /\ To(p, way) \in Peers
         /\ partner[To(p, way)] = From(p, way) /\ partner[To(p, way)] # None
<1>1. partner[p] # None /\ partner[p] \in Peers /\ partner[partner[p]] = p
  <2>1. partner[p] # None
    BY DEF Bytes, Copies
  <2>2. partner[p] \in Peers
    BY <2>1 DEF Pairing, PairTypes
  <2>3. partner[partner[p]] = p
    BY <2>1 DEF Pairing, PairsMatch
  <2> QED
    BY <2>1, <2>2, <2>3
<1>2. CASE way = "in"
  BY <1>1, <1>2, RelayAssumption DEF RelayAssumption, From, To
<1>3. CASE way = "out"
  BY <1>1, <1>3 DEF From, To
<1> QED
  BY <1>2, <1>3 DEF Ways

(* Steps that read, send and write nothing; connections may be closed and   *)
(* new partners found.                                                      *)
LEMMA BytesFrame ==
  ASSUME Pairing, Bytes, UNCHANGED <<sent, outbox>>,
         \A p \in Peers : partner[p] # None => partner'[p] = partner[p],
         \A p \in Peers : inbox'[p] = inbox[p] \/ inbox'[p] = <<>>,
         inbox' \in [Peers -> Seq(Packet)],
         copy' \in [Peers -> [Ways -> {"off", "read", "write", "ended"}]],
         hand' \in [Peers -> [Ways -> Packet \union {None}]],
         \A p \in Peers, way \in Ways :
           Writes(p, way)' => Writes(p, way) /\ hand'[p][way] = hand[p][way],
         Copies'
  PROVE  Bytes'
<1>1. ByteTypes'
  BY DEF Bytes, ByteTypes
<1>2. \A s \in Peers : \A i \in 1..Len(inbox'[s]) :
        inbox'[s] = inbox[s] /\ i \in 1..Len(inbox[s])
  OBVIOUS
<1>3. Unread'
  BY <1>2 DEF Bytes, Unread
<1>4. ASSUME NEW s \in Peers, NEW x, WasRead(x, s) PROVE WasRead(x, s)'
  BY <1>2, <1>4 DEF WasRead
<1>5. InHand'
  <2> SUFFICES ASSUME NEW p \in Peers, NEW way \in Ways, Writes(p, way)'
               PROVE  /\ hand'[p][way] \in Packet /\ WasRead(hand[p][way], From(p, way))'
                      /\ \A q \in Peers, other \in Ways :
                           Writes(q, other)' /\ hand'[q][other] = hand'[p][way] => q = p /\ other = way
                      /\ \A i \in 1..Len(outbox[To(p, way)'])  :
                           outbox[To(p, way)'][i] # hand'[p][way]
    BY DEF InHand
  <2>1. Writes(p, way) /\ hand'[p][way] = hand[p][way]
    OBVIOUS
  <2>2. From(p, way)' = From(p, way) /\ To(p, way)' = To(p, way) /\ From(p, way) \in Peers
    BY <2>1, Ends DEF Bytes, Copies, Writes, From, To
  <2>3. hand[p][way] \in Packet /\ WasRead(hand[p][way], From(p, way))
    BY <2>1 DEF Bytes, InHand
  <2>4. ASSUME NEW x, NEW s \in Peers, x = hand[p][way], s = From(p, way)
        PROVE  WasRead(hand[p][way], From(p, way))'
    <3>1. WasRead(x, s)'
      BY <1>4, <2>3, <2>4
    <3>2. x = hand'[p][way] /\ s = From(p, way)'
      BY <2>1, <2>2, <2>4
    <3> QED
      BY <3>1, <3>2
  <2>5. WasRead(hand[p][way], From(p, way))'
    BY <2>2, <2>4
  <2> QED
    BY <2>1, <2>2, <2>3, <2>5 DEF Bytes, InHand
<1>6. Written'
  <2> SUFFICES ASSUME NEW p \in Peers, NEW i \in 1..Len(outbox[p]), outbox[p][i].kind = "data"
               PROVE  /\ partner'[p] # None /\ WasRead(outbox[p][i], partner[p])'
                      /\ \A j \in 1..Len(outbox[p]) : outbox[p][j] = outbox[p][i] => j = i
    BY DEF Written
  <2>1. /\ partner[p] # None /\ WasRead(outbox[p][i], partner[p])
        /\ \A j \in 1..Len(outbox[p]) : outbox[p][j] = outbox[p][i] => j = i
    BY DEF Bytes, Written
  <2>2. partner'[p] = partner[p] /\ partner[p] \in Peers
    BY <2>1 DEF Pairing, PairTypes
  <2>3. ASSUME NEW x, NEW s \in Peers, x = outbox[p][i], s = partner[p]
        PROVE  WasRead(outbox[p][i], partner[p])'
    <3>1. WasRead(x, s)'
      BY <1>4, <2>1, <2>3
    <3>2. x = outbox'[p][i] /\ s = partner'[p]
      BY <2>2, <2>3
    <3> QED
      BY <3>1, <3>2
  <2> QED
    BY <2>1, <2>2, <2>3
<1> QED
  BY <1>1, <1>3, <1>5, <1>6 DEF Bytes

(* A reply to p. *)
LEMMA BytesSay ==
  ASSUME Pairing, Bytes, NEW p \in Peers, NEW kind \in {"waiting", "paired"},
         Say(p, Reply(kind)), UNCHANGED <<sent, inbox, hand, partner>>,
         copy' \in [Peers -> [Ways -> {"off", "read", "write", "ended"}]],
         \A q \in Peers, way \in Ways : Writes(q, way)' => Writes(q, way),
         Copies'
  PROVE  Bytes'
<1> DEFINE reply == Reply(kind)
<1>1. reply \in Packet /\ reply.kind # "data"
  BY DEF Reply, Packet
<1> HIDE DEF reply
<1>2. /\ outbox' \in [Peers -> Seq(Packet)]
      /\ \A q \in Peers : \A i \in 1..Len(outbox'[q]) :
           (i \in 1..Len(outbox[q]) /\ outbox'[q][i] = outbox[q][i]) \/ outbox'[q][i] = reply
  <2>1. outbox' = [outbox EXCEPT ![p] = Append(outbox[p], reply)]
    BY DEF Say, reply
  <2>2. outbox[p] \in Seq(Packet)
    BY DEF Bytes, ByteTypes
  <2>3. /\ Append(outbox[p], reply) \in Seq(Packet)
        /\ \A i \in 1..Len(Append(outbox[p], reply)) :
             \/ i \in 1..Len(outbox[p]) /\ Append(outbox[p], reply)[i] = outbox[p][i]
             \/ Append(outbox[p], reply)[i] = reply
    BY <1>1, <2>2
  <2> QED
    BY <2>1, <2>3 DEF Bytes, ByteTypes
<1>3. \A x, s : WasRead(x, s) <=> WasRead(x, s)'
  BY DEF WasRead
<1>4. ByteTypes' /\ Unread'
  BY <1>2 DEF Bytes, ByteTypes, Unread
<1>5. InHand'
  <2> SUFFICES ASSUME NEW q \in Peers, NEW way \in Ways, Writes(q, way)'
               PROVE  /\ hand[q][way] \in Packet /\ WasRead(hand[q][way], From(q, way))'
                      /\ \A r \in Peers, other \in Ways :
                           Writes(r, other)' /\ hand[r][other] = hand[q][way] => r = q /\ other = way
                      /\ \A i \in 1..Len(outbox'[To(q, way)]) :
                           outbox'[To(q, way)][i] # hand[q][way]
    BY DEF InHand, To
  <2>1. Writes(q, way) /\ To(q, way) \in Peers
    BY Ends DEF Writes
  <2>2. hand[q][way] \in Packet /\ WasRead(hand[q][way], From(q, way))
    BY <2>1 DEF Bytes, InHand
  <2>3. WasRead(hand[q][way], From(q, way))'
    BY <2>2 DEF WasRead, From
  <2>4. hand[q][way].kind = "data"
    BY <2>2 DEF WasRead
  <2>5. \A i \in 1..Len(outbox[To(q, way)]) : outbox[To(q, way)][i] # hand[q][way]
    BY <2>1 DEF Bytes, InHand
  <2>6. \A i \in 1..Len(outbox'[To(q, way)]) : outbox'[To(q, way)][i] # hand[q][way]
    BY <1>1, <1>2, <2>1, <2>4, <2>5
  <2> QED
    BY <2>1, <2>2, <2>3, <2>6 DEF Bytes, InHand
<1>6. Written'
  <2> SUFFICES ASSUME NEW q \in Peers, NEW i \in 1..Len(outbox'[q]), outbox'[q][i].kind = "data"
               PROVE  /\ partner[q] # None /\ WasRead(outbox[q][i], partner[q])'
                      /\ \A j \in 1..Len(outbox'[q]) : outbox'[q][j] = outbox'[q][i] => j = i
    BY DEF Written
  <2>1. i \in 1..Len(outbox[q]) /\ outbox'[q][i] = outbox[q][i]
    BY <1>1, <1>2
  <2>2. /\ partner[q] # None /\ WasRead(outbox[q][i], partner[q])
        /\ \A j \in 1..Len(outbox[q]) : outbox[q][j] = outbox[q][i] => j = i
    BY <2>1 DEF Bytes, Written
  <2>3. WasRead(outbox[q][i], partner[q])'
    BY <2>1, <2>2 DEF WasRead
  <2> QED
    BY <1>1, <1>2, <2>1, <2>2, <2>3
<1> QED
  BY <1>4, <1>5, <1>6 DEF Bytes

(* A chunk that p sends is later than all it sent before. *)
LEMMA BytesSend ==
  ASSUME Pairing, Bytes, NEW p \in Peers, Send(p) PROVE Bytes'
<1> DEFINE x == Chunk(p, sent[p] + 1)
<1>1. /\ sent' = [sent EXCEPT ![p] = sent[p] + 1]
      /\ inbox' = [inbox EXCEPT ![p] = Append(inbox[p], Chunk(p, sent'[p]))]
      /\ UNCHANGED <<pc, partner, outbox, copy, hand>>
  BY DEF Send
<1>2. sent[p] \in Nat /\ inbox[p] \in Seq(Packet) /\ sent'[p] = sent[p] + 1
  BY <1>1 DEF Bytes, ByteTypes
<1>3. x \in Packet /\ x.from = p /\ x.kind = "data" /\ x.n = sent[p] + 1
  BY <1>2 DEF Chunk, Packet
<1>4. inbox' = [inbox EXCEPT ![p] = Append(inbox[p], x)]
  BY <1>1, <1>2
<1> HIDE DEF x
<1>5. /\ Append(inbox[p], x) \in Seq(Packet) /\ Len(Append(inbox[p], x)) = Len(inbox[p]) + 1
      /\ \A i \in 1..(Len(inbox[p]) + 1) :
           IF i = Len(inbox[p]) + 1 THEN Append(inbox[p], x)[i] = x
           ELSE i \in 1..Len(inbox[p]) /\ Append(inbox[p], x)[i] = inbox[p][i]
  BY <1>2, <1>3
<1>6. inbox'[p] = Append(inbox[p], x)
  BY <1>4 DEF Bytes, ByteTypes
<1>7. \A s \in Peers : s # p => inbox'[s] = inbox[s] /\ sent'[s] = sent[s]
  BY <1>1, <1>4 DEF Bytes, ByteTypes
<1>8. ByteTypes' /\ Copies'
  BY <1>1, <1>2, <1>4, <1>5 DEF Bytes, ByteTypes, Copies
<1>9. Unread'
  <2> SUFFICES ASSUME NEW s \in Peers
               PROVE  /\ \A i \in 1..Len(inbox'[s]) :
                           inbox'[s][i].from = s /\ inbox'[s][i].kind = "data"
                           /\ inbox'[s][i].n <= sent'[s]
                      /\ \A i, j \in 1..Len(inbox'[s]) : i < j => inbox'[s][i].n < inbox'[s][j].n
    BY DEF Unread
  <2>1. CASE s = p
    <3>1. \A i \in 1..Len(inbox[p]) :
            /\ inbox[p][i].from = p /\ inbox[p][i].kind = "data"
            /\ inbox[p][i].n <= sent[p] /\ inbox[p][i].n \in Nat
      <4>1. \A i \in 1..Len(inbox[p]) : inbox[p][i] \in Packet
        BY <1>2
      <4>2. \A i \in 1..Len(inbox[p]) :
              inbox[p][i].from = p /\ inbox[p][i].kind = "data" /\ inbox[p][i].n <= sent[p]
        BY DEF Bytes, Unread
      <4> QED
        BY <4>1, <4>2 DEF Packet
    <3>2. \A i, j \in 1..Len(inbox[p]) : i < j => inbox[p][i].n < inbox[p][j].n
      BY DEF Bytes, Unread
    <3>3. Len(inbox[p]) \in Nat
      BY <1>2
    <3>4. \A i \in 1..Len(inbox'[p]) :
            IF i = Len(inbox[p]) + 1 THEN inbox'[p][i] = x
            ELSE i \in 1..Len(inbox[p]) /\ inbox'[p][i] = inbox[p][i]
      BY <1>5, <1>6
    <3>5. \A i \in 1..Len(inbox'[p]) : i \in Int /\ i <= Len(inbox[p]) + 1
      BY <1>5, <1>6, <3>3
    <3>6. ASSUME NEW i \in 1..Len(inbox'[p])
          PROVE  /\ inbox'[p][i].from = p /\ inbox'[p][i].kind = "data"
                 /\ inbox'[p][i].n <= sent'[p]
      <4>1. CASE i = Len(inbox[p]) + 1
        <5>1. inbox'[p][i] = x
          BY <3>4, <4>1
        <5> QED
          BY <1>2, <1>3, <5>1
      <4>2. CASE i # Len(inbox[p]) + 1
        <5>1. i \in 1..Len(inbox[p]) /\ inbox'[p][i] = inbox[p][i]
          BY <3>4, <4>2
        <5>2. /\ inbox[p][i].from = p /\ inbox[p][i].kind = "data"
              /\ inbox[p][i].n <= sent[p] /\ inbox[p][i].n \in Nat
          BY <3>1, <5>1
        <5> QED
          BY <1>2, <5>1, <5>2
      <4> QED
        BY <4>1, <4>2
    <3>7. ASSUME NEW i \in 1..Len(inbox'[p]), NEW j \in 1..Len(inbox'[p]), i < j
          PROVE  inbox'[p][i].n < inbox'[p][j].n
      <4>1. i \in 1..Len(inbox[p]) /\ inbox'[p][i] = inbox[p][i]
        BY <3>3, <3>4, <3>5, <3>7
      <4>2. CASE j = Len(inbox[p]) + 1
        <5>1. inbox'[p][j] = x
          BY <3>4, <4>2
        <5>2. inbox[p][i].n <= sent[p] /\ inbox[p][i].n \in Nat
          BY <3>1, <4>1
        <5> QED
          BY <1>2, <1>3, <4>1, <5>1, <5>2
      <4>3. CASE j # Len(inbox[p]) + 1
        BY <3>2, <3>4, <3>7, <4>1, <4>3
      <4> QED
        BY <4>2, <4>3
    <3> QED
      BY <2>1, <3>6, <3>7
  <2>2. CASE s # p
    BY <1>7, <2>2 DEF Bytes, Unread
  <2> QED
    BY <2>1, <2>2
<1>10. ASSUME NEW s \in Peers, NEW y \in Packet, WasRead(y, s) PROVE WasRead(y, s)'
  <2>1. CASE s = p
    <3>1. y.n \in Nat /\ y.n <= sent[p] /\ y.n < x.n
      BY <1>2, <1>3, <1>10, <2>1 DEF WasRead, Packet
    <3>2. \A i \in 1..Len(inbox'[p]) : y.n < inbox'[p][i].n
      BY <1>2, <1>5, <1>6, <1>10, <2>1, <3>1 DEF WasRead
    <3> QED
      BY <1>2, <1>10, <2>1, <3>1, <3>2 DEF WasRead
  <2>2. CASE s # p
    BY <1>7, <1>10, <2>2 DEF WasRead
  <2> QED
    BY <2>1, <2>2
<1>11. InHand'
  <2> SUFFICES ASSUME NEW q \in Peers, NEW way \in Ways, Writes(q, way)
               PROVE  /\ hand[q][way] \in Packet /\ WasRead(hand[q][way], From(q, way))'
                      /\ \A r \in Peers, other \in Ways :
                           Writes(r, other) /\ hand[r][other] = hand[q][way] => r = q /\ other = way
                      /\ \A i \in 1..Len(outbox[To(q, way)]) :
                           outbox[To(q, way)][i] # hand[q][way]
    BY <1>1 DEF InHand, To, Writes
  <2>1. From(q, way) \in Peers
    BY Ends DEF Writes
  <2>2. hand[q][way] \in Packet /\ WasRead(hand[q][way], From(q, way))
    BY DEF Bytes, InHand
  <2>3. ASSUME NEW y, NEW s, y = hand[q][way], s = From(q, way)
        PROVE  WasRead(hand[q][way], From(q, way))'
    <3>1. WasRead(y, s)'
      BY <1>10, <2>1, <2>2, <2>3
    <3>2. y = hand'[q][way] /\ s = From(q, way)'
      BY <1>1, <2>3 DEF From
    <3> QED
      BY <3>1, <3>2
  <2> QED
    BY <2>2, <2>3 DEF Bytes, InHand
<1>12. Written'
  <2> SUFFICES ASSUME NEW q \in Peers, NEW i \in 1..Len(outbox[q]), outbox[q][i].kind = "data"
               PROVE  /\ partner[q] # None /\ WasRead(outbox[q][i], partner[q])'
                      /\ \A j \in 1..Len(outbox[q]) : outbox[q][j] = outbox[q][i] => j = i
    BY <1>1 DEF Written
  <2>1. /\ partner[q] # None /\ WasRead(outbox[q][i], partner[q])
        /\ \A j \in 1..Len(outbox[q]) : outbox[q][j] = outbox[q][i] => j = i
    BY DEF Bytes, Written
  <2>2. partner[q] \in Peers /\ outbox[q][i] \in Packet
    BY <2>1 DEF Pairing, PairTypes, Bytes, ByteTypes
  <2>3. ASSUME NEW y, NEW s, y = outbox[q][i], s = partner[q]
        PROVE  WasRead(outbox[q][i], partner[q])'
    <3>1. WasRead(y, s)'
      BY <1>10, <2>1, <2>2, <2>3
    <3>2. y = outbox'[q][i] /\ s = partner'[q]
      BY <1>1, <2>3
    <3> QED
      BY <3>1, <3>2
  <2> QED
    BY <2>1, <2>3
<1> QED
  BY <1>8, <1>9, <1>11, <1>12 DEF Bytes

(* The chunk that is read is earlier than all that follow, and was neither  *)
(* read nor written before.                                                 *)
LEMMA BytesRead ==
  ASSUME Pairing, Bytes, NEW p \in Peers, NEW way \in Ways, CopyRead(p, way)
  PROVE  Bytes'
<1> DEFINE s == From(p, way)
           c == Head(inbox[s])
<1>1. /\ copy[p][way] = "read" /\ inbox[s] # <<>>
      /\ copy' = [copy EXCEPT ![p][way] = "write"]
      /\ hand' = [hand EXCEPT ![p][way] = c]
      /\ inbox' = [inbox EXCEPT ![s] = Tail(inbox[s])]
      /\ UNCHANGED <<pc, partner, sent, outbox>>
  BY DEF CopyRead
<1>2. s \in Peers /\ To(p, way) \in Peers /\ partner[To(p, way)] = s /\ partner[To(p, way)] # None
  BY <1>1, Ends
<1>3. /\ s' = s /\ \A q \in Peers, other \in Ways :
                      From(q, other)' = From(q, other) /\ To(q, other)' = To(q, other)
  BY <1>1 DEF From, To
<1>4. PICK from \in Peers : from = s
  BY <1>2
<1>5. PICK x : x = c
  OBVIOUS
<1>6. /\ inbox[from] \in Seq(Packet) /\ inbox[from] # <<>> /\ x = Head(inbox[from])
      /\ inbox' = [inbox EXCEPT ![from] = Tail(inbox[from])]
      /\ hand' = [hand EXCEPT ![p][way] = x]
  BY <1>1, <1>4, <1>5 DEF Bytes, ByteTypes
<1>7. x = inbox[from][1] /\ 1 \in 1..Len(inbox[from]) /\ x \in Packet
  BY <1>6
<1>8. /\ inbox'[from] = Tail(inbox[from]) /\ \A q \in Peers : q # from => inbox'[q] = inbox[q]
      /\ inbox' \in [Peers -> Seq(Packet)]
      /\ \A i \in 1..Len(inbox'[from]) :
           /\ inbox'[from][i] = inbox[from][i + 1] /\ i \in Int
           /\ i + 1 \in 1..Len(inbox[from]) /\ 1 < i + 1
  BY <1>6 DEF Bytes, ByteTypes
<1>9. /\ \A i \in 1..Len(inbox[from]) :
           /\ inbox[from][i].from = from /\ inbox[from][i].kind = "data"
           /\ inbox[from][i].n <= sent[from]
      /\ \A i, j \in 1..Len(inbox[from]) : i < j => inbox[from][i].n < inbox[from][j].n
  BY DEF Bytes, Unread
<1>10. WasRead(x, from)'
  BY <1>1, <1>7, <1>8, <1>9 DEF WasRead
<1>11. ASSUME NEW y, NEW t \in Peers, WasRead(y, t) PROVE WasRead(y, t)'
  BY <1>1, <1>8, <1>11 DEF WasRead
<1>12. x.n \in Nat
  BY <1>7 DEF Packet
<1>13. \A t : ~WasRead(x, t)
  BY <1>7, <1>9, <1>12 DEF WasRead
<1>14. ByteTypes'
  BY <1>1, <1>6, <1>7, <1>8 DEF Bytes, ByteTypes
<1>15. Copies'
  BY <1>1 DEF Bytes, ByteTypes, Copies
<1>16. Unread'
  <2> SUFFICES ASSUME NEW t \in Peers
               PROVE  /\ \A i \in 1..Len(inbox'[t]) :
                           inbox'[t][i].from = t /\ inbox'[t][i].kind = "data"
                           /\ inbox'[t][i].n <= sent'[t]
                      /\ \A i, j \in 1..Len(inbox'[t]) : i < j => inbox'[t][i].n < inbox'[t][j].n
    BY DEF Unread
  <2>1. CASE t = from
    <3>1. ASSUME NEW i \in 1..Len(inbox'[from])
          PROVE  /\ inbox'[from][i].from = from /\ inbox'[from][i].kind = "data"
                 /\ inbox'[from][i].n <= sent[from]
      <4>1. inbox'[from][i] = inbox[from][i + 1] /\ i + 1 \in 1..Len(inbox[from])
        BY <1>8
      <4> QED
        BY <1>9, <4>1
    <3>2. ASSUME NEW i \in 1..Len(inbox'[from]), NEW j \in 1..Len(inbox'[from]), i < j
          PROVE  inbox'[from][i].n < inbox'[from][j].n
      <4>1. /\ inbox'[from][i] = inbox[from][i + 1] /\ i + 1 \in 1..Len(inbox[from])
            /\ inbox'[from][j] = inbox[from][j + 1] /\ j + 1 \in 1..Len(inbox[from])
        BY <1>8
      <4>2. i + 1 < j + 1
        BY <3>2
      <4> QED
        BY <1>9, <4>1, <4>2
    <3>3. sent' = sent
      BY <1>1
    <3> QED
      BY <2>1, <3>1, <3>2, <3>3
  <2>2. CASE t # from
    BY <1>1, <1>8, <2>2 DEF Bytes, Unread
  <2> QED
    BY <2>1, <2>2
<1>17. \A q \in Peers, other \in Ways :
         IF q = p /\ other = way
           THEN Writes(q, other)' /\ hand'[q][other] = x
           ELSE hand'[q][other] = hand[q][other] /\ (Writes(q, other)' <=> Writes(q, other))
  BY SMTT(30), <1>1, <1>6 DEF Writes, Bytes, ByteTypes
<1>18. \A q \in Peers, other \in Ways : Writes(q, other) => hand[q][other] # x
  BY <1>13 DEF Bytes, InHand
<1>19. InHand'
  <2> SUFFICES ASSUME NEW q \in Peers, NEW o \in Ways, Writes(q, o)'
               PROVE  /\ hand'[q][o] \in Packet /\ WasRead(hand[q][o], From(q, o))'
                      /\ \A r \in Peers, other \in Ways :
                           Writes(r, other)' /\ hand'[r][other] = hand'[q][o] => r = q /\ other = o
                      /\ \A i \in 1..Len(outbox'[To(q, o)']) :
                           outbox'[To(q, o)'][i] # hand'[q][o]
    BY DEF InHand
  <2>1. CASE q = p /\ o = way
    <3>1. hand'[q][o] = x /\ From(q, o)' = from
      BY <1>3, <1>4, <1>17, <2>1
    <3>2. \A i \in 1..Len(outbox[To(p, way)]) : outbox[To(p, way)][i] # x
      BY <1>2, <1>7, <1>9, <1>13 DEF Bytes, Written
    <3>3. \A r \in Peers, other \in Ways :
            Writes(r, other)' /\ hand'[r][other] = x => r = p /\ other = way
      BY <1>17, <1>18
    <3>4. WasRead(hand[q][o], From(q, o))'
      BY <1>10, <3>1
    <3>5. To(q, o)' = To(p, way) /\ outbox' = outbox
      BY <1>1, <1>3, <2>1
    <3> QED
      BY <1>7, <2>1, <3>1, <3>2, <3>3, <3>4, <3>5
  <2>2. CASE ~(q = p /\ o = way)
    <3>1. Writes(q, o) /\ hand'[q][o] = hand[q][o]
      BY <1>17, <2>2
    <3>2. /\ hand[q][o] \in Packet /\ WasRead(hand[q][o], From(q, o)) /\ From(q, o) \in Peers
          /\ \A r \in Peers, other \in Ways :
               Writes(r, other) /\ hand[r][other] = hand[q][o] => r = q /\ other = o
          /\ \A i \in 1..Len(outbox[To(q, o)]) : outbox[To(q, o)][i] # hand[q][o]
      BY <3>1, Ends DEF Bytes, InHand, Writes
    <3>3. ASSUME NEW y, NEW t \in Peers, y = hand[q][o], t = From(q, o)
          PROVE  WasRead(hand[q][o], From(q, o))'
      <4>1. WasRead(y, t)'
        BY <1>11, <3>2, <3>3
      <4>2. y = hand'[q][o] /\ t = From(q, o)'
        BY <1>3, <3>1, <3>3
      <4> QED
        BY <4>1, <4>2
    <3>4. WasRead(hand[q][o], From(q, o))'
      BY <3>2, <3>3
    <3>5. To(q, o)' = To(q, o) /\ outbox' = outbox
      BY <1>1, <1>3
    <3>6. \A r \in Peers, other \in Ways :
            Writes(r, other)' /\ hand'[r][other] = hand[q][o] => r = q /\ other = o
      BY <1>17, <1>18, <3>1, <3>2
    <3> QED
      BY <3>1, <3>2, <3>4, <3>5, <3>6
  <2> QED
    BY <2>1, <2>2
<1>20. Written'
  <2> SUFFICES ASSUME NEW q \in Peers, NEW i \in 1..Len(outbox[q]), outbox[q][i].kind = "data"
               PROVE  /\ partner[q] # None /\ WasRead(outbox[q][i], partner[q])'
                      /\ \A j \in 1..Len(outbox[q]) : outbox[q][j] = outbox[q][i] => j = i
    BY <1>1 DEF Written
  <2>1. /\ partner[q] # None /\ WasRead(outbox[q][i], partner[q]) /\ partner[q] \in Peers
        /\ \A j \in 1..Len(outbox[q]) : outbox[q][j] = outbox[q][i] => j = i
    BY DEF Bytes, Written, Pairing, PairTypes
  <2>2. ASSUME NEW y, NEW t \in Peers, y = outbox[q][i], t = partner[q]
        PROVE  WasRead(outbox[q][i], partner[q])'
    <3>1. WasRead(y, t)'
      BY <1>11, <2>1, <2>2
    <3>2. y = outbox'[q][i] /\ t = partner'[q]
      BY <1>1, <2>2
    <3> QED
      BY <3>1, <3>2
  <2> QED
    BY <2>1, <2>2
<1> QED
  BY <1>14, <1>15, <1>16, <1>19, <1>20 DEF Bytes

(* The chunk that is written leaves the hand. *)
LEMMA BytesWrite ==
  ASSUME Pairing, Bytes, NEW p \in Peers, NEW way \in Ways, CopyWrite(p, way)
  PROVE  Bytes'
<1>1. PICK t \in Peers : t = To(p, way)
  BY Ends DEF CopyWrite
<1>2. PICK x : x = hand[p][way]
  OBVIOUS
<1>3. /\ Writes(p, way) /\ outbox' = [outbox EXCEPT ![t] = Append(outbox[t], x)]
      /\ copy' = [copy EXCEPT ![p][way] = "read"] /\ hand' = [hand EXCEPT ![p][way] = None]
      /\ UNCHANGED <<pc, partner, sent, inbox>>
  BY <1>1, <1>2 DEF CopyWrite, Put, Say, Writes
<1>4. /\ x \in Packet /\ partner[t] # None /\ WasRead(x, partner[t])
      /\ \A q \in Peers, other \in Ways :
           Writes(q, other) /\ hand[q][other] = x => q = p /\ other = way
      /\ \A i \in 1..Len(outbox[t]) : outbox[t][i] # x
  <2>1. partner[t] = From(p, way) /\ partner[t] # None
    BY <1>1, <1>3, Ends DEF Writes
  <2> QED
    BY <1>1, <1>2, <1>3, <2>1 DEF Bytes, InHand
<1>5. \A y, s : WasRead(y, s) <=> WasRead(y, s)'
  BY <1>3 DEF WasRead
<1>6. /\ outbox' \in [Peers -> Seq(Packet)]
      /\ \A q \in Peers : q # t => outbox'[q] = outbox[q]
      /\ Len(outbox[t]) \in Nat
      /\ \A i \in 1..Len(outbox'[t]) :
           \/ i \in 1..Len(outbox[t]) /\ outbox'[t][i] = outbox[t][i]
           \/ i = Len(outbox[t]) + 1 /\ outbox'[t][i] = x
  <2>1. outbox[t] \in Seq(Packet)
    BY DEF Bytes, ByteTypes
  <2>2. outbox'[t] = Append(outbox[t], x)
    BY <1>3 DEF Bytes, ByteTypes
  <2>3. /\ Append(outbox[t], x) \in Seq(Packet)
        /\ \A i \in 1..Len(Append(outbox[t], x)) :
             \/ i \in 1..Len(outbox[t]) /\ Append(outbox[t], x)[i] = outbox[t][i]
             \/ i = Len(outbox[t]) + 1 /\ Append(outbox[t], x)[i] = x
    BY <1>4, <2>1
  <2> QED
    BY <1>3, <2>1, <2>2, <2>3 DEF Bytes, ByteTypes
<1>7. \A q \in Peers, other \in Ways : Writes(q, other)' =>
        Writes(q, other) /\ hand'[q][other] = hand[q][other] /\ hand[q][other] # x
  <2>1. \A q \in Peers, other \in Ways : Writes(q, other)' =>
          Writes(q, other) /\ hand'[q][other] = hand[q][other] /\ ~(q = p /\ other = way)
    BY <1>3 DEF Writes, Bytes, ByteTypes
  <2> QED
    BY <1>4, <2>1
<1>8. ByteTypes' /\ Copies' /\ Unread'
  <2>1. ByteTypes'
    BY <1>3, <1>6 DEF Bytes, ByteTypes
  <2>2. Copies'
    BY <1>3 DEF Bytes, ByteTypes, Copies, Writes
  <2>3. Unread'
    BY <1>3 DEF Bytes, Unread
  <2> QED
    BY <2>1, <2>2, <2>3
<1>9. InHand'
  <2> SUFFICES ASSUME NEW q \in Peers, NEW o \in Ways, Writes(q, o)'
               PROVE  /\ hand'[q][o] \in Packet /\ WasRead(hand[q][o], From(q, o))'
                      /\ \A r \in Peers, other \in Ways :
                           Writes(r, other)' /\ hand'[r][other] = hand'[q][o] => r = q /\ other = o
                      /\ \A i \in 1..Len(outbox'[To(q, o)']) :
                           outbox'[To(q, o)'][i] # hand'[q][o]
    BY DEF InHand
  <2>1. Writes(q, o) /\ hand'[q][o] = hand[q][o] /\ hand[q][o] # x
    BY <1>7
  <2>2. /\ hand[q][o] \in Packet /\ WasRead(hand[q][o], From(q, o)) /\ To(q, o) \in Peers
        /\ \A r \in Peers, other \in Ways :
             Writes(r, other) /\ hand[r][other] = hand[q][o] => r = q /\ other = o
        /\ \A i \in 1..Len(outbox[To(q, o)]) : outbox[To(q, o)][i] # hand[q][o]
    BY <2>1, Ends DEF Bytes, InHand, Writes
  <2>3. From(q, o)' = From(q, o) /\ To(q, o)' = To(q, o)
    BY <1>3 DEF From, To
  <2>4. WasRead(hand[q][o], From(q, o))'
    BY <1>3, <2>1, <2>2, <2>3 DEF WasRead
  <2>5. \A i \in 1..Len(outbox'[To(q, o)]) : outbox'[To(q, o)][i] # hand[q][o]
    BY <1>6, <2>1, <2>2
  <2> QED
    BY <1>7, <2>1, <2>2, <2>3, <2>4, <2>5
<1>10. Written'
  <2> SUFFICES ASSUME NEW q \in Peers, NEW i \in 1..Len(outbox'[q]), outbox'[q][i].kind = "data"
               PROVE  /\ partner[q] # None /\ WasRead(outbox[q][i], partner[q])'
                      /\ \A j \in 1..Len(outbox'[q]) : outbox'[q][j] = outbox'[q][i] => j = i
    BY <1>3 DEF Written
  <2>1. CASE q = t /\ ~(i \in 1..Len(outbox[t]))
    <3>1. i = Len(outbox[t]) + 1 /\ outbox'[t][i] = x
      BY <1>6, <2>1
    <3>2. WasRead(outbox[q][i], partner[q])'
      BY <1>3, <1>4, <2>1, <3>1 DEF WasRead
    <3> QED
      BY <1>4, <1>6, <2>1, <3>1, <3>2
  <2>2. CASE i \in 1..Len(outbox[q]) /\ outbox'[q][i] = outbox[q][i]
    <3>1. /\ partner[q] # None /\ WasRead(outbox[q][i], partner[q])
          /\ \A j \in 1..Len(outbox[q]) : outbox[q][j] = outbox[q][i] => j = i
      BY <2>2 DEF Bytes, Written
    <3>2. WasRead(outbox[q][i], partner[q])'
      BY <1>3, <2>2, <3>1 DEF WasRead
    <3>3. ASSUME NEW j \in 1..Len(outbox'[q]), outbox'[q][j] = outbox'[q][i]
          PROVE  j = i
      <4>1. CASE j \in 1..Len(outbox[q]) /\ outbox'[q][j] = outbox[q][j]
        BY <2>2, <3>1, <3>3, <4>1
      <4>2. CASE q = t /\ outbox'[t][j] = x
        <5>1. outbox[t][i] = x /\ i \in 1..Len(outbox[t])
          BY <2>2, <3>3, <4>2
        <5> QED
          BY <1>4, <5>1
      <4> QED
        BY <1>6, <4>1, <4>2
    <3> QED
      BY <3>1, <3>2, <3>3
  <2> QED
    BY <1>6, <2>1, <2>2
<1> QED
  BY <1>8, <1>9, <1>10 DEF Bytes

(* A step of p's handler that copies nothing. *)
LEMMA CopiesFrame ==
  ASSUME Pairing, Bytes, NEW p \in Peers, NEW l \in PcAt, Go(p, l), UNCHANGED copy,
         l \in Early => pc[p] \in Early,
         \A q \in Peers : partner[q] # None => partner'[q] = partner[q]
  PROVE  Copies'
BY DEF Bytes, Copies, Go, Pairing, PairTypes

(* The partner that a registration finds had none. *)
LEMMA NewPartners ==
  ASSUME Pairing, NEW p \in Peers, NEW w \in Hello, Register(p, w)
  PROVE  \A q \in Peers : partner[q] # None => partner'[q] = partner[q]
<1> DEFINE theirs == queue[w.room][Other(w.role)]
<1>1. w.room \in Rooms /\ Other(w.role) \in Roles /\ theirs \in Seq(Peers)
  BY DEF Hello, Roles, Other, Pairing, PairTypes
<1>2. CASE theirs # <<>>
  <2>1. Head(theirs) = theirs[1] /\ 1 \in 1..Len(theirs)
    BY <1>1, <1>2
  <2>2. partner[theirs[1]] = None
    BY <1>1, <2>1 DEF Pairing, Lists, Waiting
  <2>3. partner[p] = None
    BY DEF Register, Pairing, Places
  <2>4. partner' = [partner EXCEPT ![p] = Head(theirs), ![Head(theirs)] = p]
    BY <1>2 DEF Register, Join, Pair
  <2> HIDE DEF theirs
  <2> QED
    BY <2>1, <2>2, <2>3, <2>4 DEF Pairing, PairTypes
<1>3. CASE theirs = <<>>
  BY <1>3 DEF Register, Join, Enqueue
<1> QED
  BY <1>2, <1>3

LEMMA BytesHandler ==
  ASSUME Pairing, Bytes, NEW p \in Peers, Handler(p) PROVE Bytes'
<1> USE DEF PcAt, Early
<1>1. CASE \E w \in Hello : Register(p, w)
  <2>1. PICK w \in Hello : Register(p, w)
    BY <1>1
  <2>2. \E l \in {"greet", "greet2"} : Go(p, l)
    BY <2>1 DEF Register, Join, Pair, Enqueue
  <2>3. UNCHANGED <<sent, inbox, outbox, copy, hand>> /\ pc[p] = "hello"
    BY <2>1 DEF Register
  <2>4. \A q \in Peers : partner[q] # None => partner'[q] = partner[q]
    BY <2>1, NewPartners
  <2>5. Copies'
    BY <2>2, <2>3, <2>4, CopiesFrame
  <2> QED
    BY <2>3, <2>4, <2>5, BytesFrame DEF Bytes, ByteTypes, Writes
<1>2. CASE Greet(p)
  <2>1. /\ Say(p, Reply("waiting")) /\ UNCHANGED <<sent, inbox, hand, partner, copy>>
        /\ pc[p] \in Early
    BY <1>2 DEF Greet
  <2>2. \E l \in {"pair", "wait"} : Go(p, l)
    BY <1>2 DEF Greet
  <2>3. Copies'
    BY <2>1, <2>2, CopiesFrame
  <2> QED
    BY <2>1, <2>3, BytesSay DEF Bytes, ByteTypes, Writes
<1>3. CASE PairReply(p)
  <2>1. /\ Say(p, Reply("paired")) /\ UNCHANGED <<sent, inbox, hand, partner>>
        /\ pc' = [pc EXCEPT ![p] = "splice"] /\ pc[p] = "pair"
        /\ copy' = [copy EXCEPT ![p] = [way \in Ways |-> "read"]]
    BY <1>3 DEF PairReply, Go
  <2>2. /\ copy' \in [Peers -> [Ways -> {"off", "read", "write", "ended"}]]
        /\ \A q \in Peers, way \in Ways : Writes(q, way)' => Writes(q, way)
    BY <2>1 DEF Bytes, ByteTypes, Writes
  <2>3. partner[p] # None
    BY <2>1 DEF Pairing, Places, Coupled
  <2>4. Copies'
    BY <2>1, <2>3 DEF Bytes, ByteTypes, Copies, Pairing, PairTypes
  <2> QED
    BY <2>1, <2>2, <2>4, BytesSay
<1>4. CASE NoHello(p) \/ CloseBoth(p) \/ Return(p)
  <2>1. UNCHANGED <<sent, outbox, copy, hand, partner>>
    BY <1>4 DEF NoHello, CloseBoth, Return
  <2>2. \E l \in {"done", "sweep"} : Go(p, l)
    BY <1>4 DEF NoHello, CloseBoth, Return
  <2>3. /\ \A q \in Peers : inbox'[q] = inbox[q] \/ inbox'[q] = <<>>
        /\ inbox' \in [Peers -> Seq(Packet)]
    <3>1. \E ps : Close(ps)
      BY <1>4 DEF NoHello, CloseBoth, Return
    <3>2. PICK ps : Close(ps)
      BY <3>1
    <3> QED
      BY <3>2 DEF Close, Bytes, ByteTypes
  <2>4. Copies'
    BY <2>1, <2>2, CopiesFrame
  <2> QED
    BY <2>1, <2>3, <2>4, BytesFrame DEF Bytes, ByteTypes, Writes
<1>5. CASE \/ Reject(p) \/ GreetFails(p) \/ Found(p) \/ GiveUp(p) \/ PairReplyFails(p)
           \/ SpliceEnds(p) \/ Sweep(p) \/ Drain(p)
  <2>1. UNCHANGED <<sent, inbox, outbox, copy, hand, partner>>
    BY <1>5 DEF Reject, GreetFails, Found, GiveUp, PairReplyFails, SpliceEnds, Sweep, Drain
  <2>2. \E l \in PcAt : Go(p, l) /\ (l \in Early => pc[p] \in Early)
    BY <1>5 DEF Reject, GreetFails, Found, GiveUp, PairReplyFails, SpliceEnds, Sweep, Drain
  <2>3. Copies'
    BY <2>1, <2>2, CopiesFrame
  <2> QED
    BY <2>1, <2>3, BytesFrame DEF Bytes, ByteTypes, Writes
<1> QED
  BY <1>1, <1>2, <1>3, <1>4, <1>5 DEF Handler

LEMMA BytesEnds ==
  ASSUME Pairing, Bytes, NEW p \in Peers, NEW way \in Ways, CopyEnds(p, way) PROVE Bytes'
<1>1. /\ copy' = [copy EXCEPT ![p][way] = "ended"] /\ hand' = [hand EXCEPT ![p][way] = None]
      /\ copy[p][way] # "off" /\ UNCHANGED <<pc, partner, sent, inbox, outbox>>
  BY DEF CopyEnds
<1>2. /\ copy' \in [Peers -> [Ways -> {"off", "read", "write", "ended"}]]
      /\ hand' \in [Peers -> [Ways -> Packet \union {None}]]
      /\ \A q \in Peers, other \in Ways :
           Writes(q, other)' => Writes(q, other) /\ hand'[q][other] = hand[q][other]
  BY <1>1 DEF Bytes, ByteTypes, Writes
<1>3. Copies'
  BY <1>1 DEF Bytes, ByteTypes, Copies
<1> QED
  BY <1>1, <1>2, <1>3, BytesFrame DEF Bytes, ByteTypes

LEMMA BytesStep == Pairing /\ Bytes /\ [Next]_vars => Bytes'
<1> SUFFICES ASSUME Pairing, Bytes, [Next]_vars PROVE Bytes'
  OBVIOUS
<1>1. ASSUME NEW p \in Peers, Take(p) \/ Leave(p) PROVE Bytes'
  <2>1. UNCHANGED <<pc, partner, sent, inbox, outbox, copy, hand>>
    BY <1>1 DEF Take, Leave
  <2>2. Copies'
    BY <2>1 DEF Bytes, Copies
  <2> QED
    BY <2>1, <2>2, BytesFrame DEF Bytes, ByteTypes, Writes
<1>2. CASE Quiet \/ UNCHANGED vars
  <2>1. UNCHANGED <<pc, partner, sent, inbox, outbox, copy, hand>>
    BY <1>2 DEF Quiet, vars
  <2>2. Copies'
    BY <2>1 DEF Bytes, Copies
  <2> QED
    BY <2>1, <2>2, BytesFrame DEF Bytes, ByteTypes, Writes
<1>3. ASSUME NEW p \in Peers, \E way \in Ways : Copying(p, way) PROVE Bytes'
  BY <1>3, BytesRead, BytesWrite, BytesEnds DEF Copying
<1> QED
  BY <1>1, <1>2, <1>3, BytesHandler, BytesSend DEF Next

----------------------------------------------------------------------------
(* A client is paired only with one that matches it, nobody is passed over, *)
(* and what is written to a client came from its partner, each chunk once:  *)
(* register under the lock, and four copying goroutines per pair (splice).  *)
THEOREM OnlyThePartnerHolds == Spec => []OnlyThePartner
<1>1. Init => Pairing /\ Bytes
  BY PairingInit, BytesInit
<1>2. Pairing /\ Bytes /\ [Next]_vars => (Pairing /\ Bytes)'
  BY PairingStep, BytesStep
<1>3. Pairing /\ Bytes => OnlyThePartner
  <2> SUFFICES ASSUME Pairing, Bytes PROVE FromThePartner
    BY DEF OnlyThePartner, Pairing
  <2>1. ASSUME NEW p \in Peers, NEW i \in 1..Len(outbox[p]), outbox[p][i].kind = "data"
        PROVE  /\ outbox[p][i].from = partner[p]
               /\ \A j \in 1..Len(outbox[p]) : outbox[p][j] = outbox[p][i] => i = j
    BY <2>1 DEF Bytes, Written, WasRead
  <2> QED
    BY <2>1 DEF FromThePartner
<1> QED
  BY <1>1, <1>2, <1>3, PTL DEF Spec

----------------------------------------------------------------------------
(* Who waits is in a list, and a room with a token has somebody in it. *)

Staying == {"greet", "greet2", "wait", "pair", "splice", "both", "sweep"}
Waits(p) == pc[p] \in {"greet", "wait"} /\ ~paired[p]
In(list, p) == \E i \in 1..Len(list) : list[i] = p

Queued ==
  \A p \in Peers :
    /\ pc[p] \in {"greet", "wait"} => (paired[p] <=> partner[p] # None)
    /\ Waits(p) => In(queue[who[p].room][who[p].role], p)

RoomsLive ==
  \A r \in Rooms : tok[r] # None =>
    \E p \in Peers : who[p] \in Hello /\ who[p].room = r /\ pc[p] \in Staying

Occupied == Queued /\ RoomsLive

LEMMA OccupiedInit == Init => Occupied
BY DEF Init, Occupied, Queued, RoomsLive, Waits

(* A handler's step that leaves lists and tokens alone. *)
LEMMA OccupiedFrame ==
  ASSUME Pairing, Occupied, UNCHANGED pairing, NEW p \in Peers, NEW l \in PcAt, Go(p, l),
         l \in {"greet", "wait"} => pc[p] \in {"greet", "wait"},
         pc[p] \in Staying => l \in Staying
  PROVE  Occupied'
<1>1. /\ UNCHANGED <<who, tok, queue, partner, paired>>
      /\ \A q \in Peers : pc'[q] = IF q = p THEN l ELSE pc[q]
  BY DEF pairing, Go, Pairing, PairTypes
<1>2. Queued'
  <2> SUFFICES ASSUME NEW q \in Peers
               PROVE  /\ pc'[q] \in {"greet", "wait"} => (paired[q] <=> partner[q] # None)
                      /\ Waits(q)' => In(queue[who[q].room][who[q].role], q)
    BY <1>1 DEF Queued
  <2>1. pc'[q] \in {"greet", "wait"} => pc[q] \in {"greet", "wait"}
    BY <1>1
  <2> QED
    BY <1>1, <2>1 DEF Occupied, Queued, Waits
<1>3. RoomsLive'
  BY <1>1 DEF Occupied, RoomsLive
<1> QED
  BY <1>2, <1>3 DEF Occupied

LEMMA OccupiedSame ==
  ASSUME Occupied, UNCHANGED pairing, UNCHANGED pc PROVE Occupied'
BY DEF pairing, Occupied, Queued, RoomsLive, Waits

(* What a departure does to the lists and to the tokens. *)
LEMMA UnregisterFacts ==
  ASSUME Pairing, NEW q \in Peers, who[q] \in Hello, Unregister(q)
  PROVE  /\ \A s \in Rooms, role \in Roles :
              /\ \A i \in 1..Len(queue'[s][role]) :
                   queue'[s][role][i] # q /\ In(queue[s][role], queue'[s][role][i])
              /\ \A x : x # q /\ In(queue[s][role], x) => In(queue'[s][role], x)
         /\ \A s \in Rooms : s # who[q].room => tok'[s] = tok[s]
         /\ tok'[who[q].room] # None => \E role \in Roles : queue'[who[q].room][role] # <<>>
         /\ queue' \in [Rooms -> [Roles -> Seq(Peers)]]
<1>1. PICK r \in Rooms : r = who[q].room
  BY DEF Hello
<1>2. /\ queue' = [queue EXCEPT ![r] = [role \in Roles |-> Without(queue[r][role], q)]]
      /\ tok' = IF \A role \in Roles : queue'[r][role] = <<>> THEN [tok EXCEPT ![r] = None] ELSE tok
  BY <1>1 DEF Unregister
<1>3. \A role \in Roles : Without(queue[r][role], q) \in Seq(Peers)
  BY WithoutFacts DEF Pairing, PairTypes, Lists
<1>4. /\ queue' \in [Rooms -> [Roles -> Seq(Peers)]]
      /\ \A s \in Rooms, role \in Roles :
           queue'[s][role] = IF s = r THEN Without(queue[s][role], q) ELSE queue[s][role]
  BY <1>2, <1>3 DEF Pairing, PairTypes
<1>5. ASSUME NEW s \in Rooms, NEW role \in Roles
      PROVE  /\ \A i \in 1..Len(queue'[s][role]) :
                  queue'[s][role][i] # q /\ In(queue[s][role], queue'[s][role][i])
             /\ \A x : x # q /\ In(queue[s][role], x) => In(queue'[s][role], x)
  <2>1. PICK list : list = queue[s][role]
    OBVIOUS
  <2>2. PICK left : left = queue'[s][role]
    OBVIOUS
  <2>3. list \in Seq(Peers) /\ Once(list) /\ \A i \in 1..Len(list) : Waiting(list[i], s, role)
    BY <2>1 DEF Pairing, PairTypes, Lists
  <2>4. CASE s = r
    <3>1. left = Without(list, q)
      BY <1>4, <2>1, <2>2, <2>4
    <3>2. /\ \A i \in 1..Len(left) : left[i] # q /\ \E j \in 1..Len(list) : left[i] = list[j]
          /\ \A j \in 1..Len(list) : list[j] # q => \E i \in 1..Len(left) : left[i] = list[j]
      BY <2>3, <3>1, WithoutFacts
    <3>3. \A i \in 1..Len(left) : left[i] # q /\ In(list, left[i])
      BY <3>2 DEF In
    <3>4. ASSUME NEW x, x # q, In(list, x) PROVE In(left, x)
      <4>1. PICK j \in 1..Len(list) : list[j] = x
        BY <3>4 DEF In
      <4>2. \E i \in 1..Len(left) : left[i] = x
        BY <3>2, <3>4, <4>1
      <4> QED
        BY <4>2 DEF In
    <3> QED
      BY <2>1, <2>2, <3>3, <3>4
  <2>5. CASE s # r
    <3>1. left = list
      BY <1>4, <2>1, <2>2, <2>5
    <3>2. \A i \in 1..Len(list) : list[i] # q
      BY <1>1, <2>3, <2>5 DEF Waiting
    <3> QED
      BY <2>1, <2>2, <3>1, <3>2 DEF In
  <2> QED
    BY <2>4, <2>5
<1>6. \A s \in Rooms : s # r => tok'[s] = tok[s]
  BY <1>2 DEF Pairing, PairTypes
<1>7. tok'[r] # None => \E role \in Roles : queue'[r][role] # <<>>
  BY <1>2 DEF Pairing, PairTypes
<1> QED
  BY <1>1, <1>4, <1>5, <1>6, <1>7

(* A peer that leaves, or whose partner takes it out, no longer waits; and  *)
(* the room keeps its token only for somebody who does.                     *)
LEMMA OccupiedLeaves ==
  ASSUME Pairing, Occupied, NEW q \in Peers, who[q] \in Hello, Unregister(q),
         UNCHANGED <<who, partner, paired>>,
         NEW p \in Peers, NEW l \in {"close", "sweep2", "drain"}, Go(p, l),
         p = q \/ (partner[q] = p /\ pc[p] \notin {"greet", "wait"}),
         who[p] \in Hello, who[p].room = who[q].room
  PROVE  Occupied'
<1>1. \A x \in Peers : pc'[x] = IF x = p THEN l ELSE pc[x]
  BY DEF Go, Pairing, PairTypes
<1>2. Queued'
  <2> SUFFICES ASSUME NEW x \in Peers
               PROVE  /\ pc'[x] \in {"greet", "wait"} => (paired[x] <=> partner[x] # None)
                      /\ Waits(x)' => In(queue'[who[x].room][who[x].role], x)
    BY DEF Queued
  <2>1. pc'[x] \in {"greet", "wait"} => pc'[x] = pc[x] /\ x # p
    BY <1>1
  <2>2. ASSUME Waits(x)' PROVE In(queue'[who[x].room][who[x].role], x)
    <3>1. Waits(x) /\ x # p
      BY <2>1, <2>2 DEF Waits
    <3>2. x # q
      BY <3>1, RelayAssumption DEF Occupied, Queued, Waits
    <3>3. who[x] \in Hello /\ In(queue[who[x].room][who[x].role], x)
      BY <3>1 DEF Waits, Occupied, Queued, Pairing, Places
    <3>4. who[x].room \in Rooms /\ who[x].role \in Roles
      BY <3>3 DEF Hello
    <3> QED
      BY <3>2, <3>3, <3>4, UnregisterFacts
  <2> QED
    BY <2>1, <2>2 DEF Occupied, Queued
<1>3. RoomsLive'
  <2> SUFFICES ASSUME NEW r \in Rooms, tok'[r] # None
               PROVE  \E x \in Peers : who[x] \in Hello /\ who[x].room = r /\ pc'[x] \in Staying
    BY DEF RoomsLive
  <2>1. CASE r = who[q].room
    <3>1. PICK role \in Roles : queue'[r][role] # <<>>
      BY <2>1, UnregisterFacts
    <3>2. queue'[r][role] \in Seq(Peers)
      BY UnregisterFacts
    <3>3. PICK x : x = queue'[r][role][1]
      OBVIOUS
    <3>4. 1 \in 1..Len(queue'[r][role])
      BY <3>1, <3>2
    <3>5. x # q /\ In(queue[r][role], x)
      BY <3>3, <3>4, UnregisterFacts
    <3>6. Waiting(x, r, role) /\ x \in Peers
      BY <3>5 DEF In, Pairing, Lists, PairTypes
    <3>7. x # p /\ who[x].room = r /\ who[x] \in Hello /\ pc[x] \in {"greet", "wait"}
      BY <3>5, <3>6 DEF Waiting, Hello
    <3> QED
      BY <1>1, <3>6, <3>7 DEF Staying
  <2>2. CASE r # who[q].room
    <3>1. tok[r] # None
      BY <2>2, UnregisterFacts
    <3>2. PICK x \in Peers : who[x] \in Hello /\ who[x].room = r /\ pc[x] \in Staying
      BY <3>1 DEF Occupied, RoomsLive
    <3> QED
      BY <1>1, <2>2, <3>2
  <2> QED
    BY <2>1, <2>2
<1> QED
  BY <1>2, <1>3 DEF Occupied

LEMMA OccupiedRegister ==
  ASSUME Pairing, Occupied, NEW p \in Peers, NEW w \in Hello, Register(p, w)
  PROVE  Occupied'
<1>1. PICK r \in Rooms, mine \in Roles, other \in Roles :
        r = w.room /\ mine = w.role /\ other = Other(w.role) /\ mine # other
  BY DEF Hello, Roles, Other
<1>2. /\ pc[p] = "hello" /\ partner[p] = None /\ who' = [who EXCEPT ![p] = w]
      /\ tok' = [tok EXCEPT ![r] = w.token]
  BY <1>1 DEF Register, Pairing, Places
<1>3. PICK theirs : theirs = queue[r][other]
  OBVIOUS
<1>4. theirs \in Seq(Peers) /\ \A s \in Rooms, role \in Roles : queue[s][role] \in Seq(Peers)
  BY <1>3 DEF Pairing, PairTypes
<1> DEFINE Joined ==
      /\ \E l \in {"greet", "greet2"} : \A x \in Peers : pc'[x] = IF x = p THEN l ELSE pc[x]
      /\ pc'[p] = "greet" => ~paired'[p] /\ partner'[p] = None /\ In(queue'[r][mine], p)
      /\ \A x \in Peers : x # p =>
           /\ \/ paired'[x] = paired[x] /\ partner'[x] = partner[x]
              \/ paired'[x] /\ partner'[x] # None
           /\ ~paired'[x] => \A s \in Rooms, role \in Roles :
                               In(queue[s][role], x) => In(queue'[s][role], x)
<1>5. ASSUME theirs # <<>> PROVE Joined
  <2>1. PICK q : q = Head(theirs)
    OBVIOUS
  <2>2. /\ partner' = [partner EXCEPT ![p] = q, ![q] = p] /\ paired' = [paired EXCEPT ![q] = TRUE]
        /\ queue' = [queue EXCEPT ![r][other] = Tail(theirs)] /\ pc' = [pc EXCEPT ![p] = "greet2"]
    BY <1>1, <1>3, <1>5, <2>1 DEF Register, Join, Pair, Go
  <2>3. q \in Peers /\ q = theirs[1] /\ 1 \in 1..Len(theirs)
    BY <1>4, <1>5, <2>1
  <2>4. \A s \in Rooms, role \in Roles :
          queue'[s][role] = IF s = r /\ role = other THEN Tail(theirs) ELSE queue[s][role]
    BY <2>2 DEF Pairing, PairTypes
  <2>5. \A x \in Peers : x # q /\ In(theirs, x) => In(Tail(theirs), x)
    <3> SUFFICES ASSUME NEW x \in Peers, x # q, NEW i \in 1..Len(theirs), theirs[i] = x
                 PROVE  In(Tail(theirs), x)
      BY DEF In
    <3>1. i - 1 \in 1..Len(Tail(theirs)) /\ Tail(theirs)[i - 1] = x
      BY <1>4, <1>5, <2>3
    <3> QED
      BY <3>1 DEF In
  <2>6. ASSUME NEW x \in Peers, x # p
        PROVE  \/ paired'[x] = paired[x] /\ partner'[x] = partner[x] /\ x # q
               \/ paired'[x] /\ partner'[x] # None /\ x = q
    <3>1. partner \in [Peers -> Peers \union {None}] /\ paired \in [Peers -> BOOLEAN] /\ p # None
      BY RelayAssumption DEF Pairing, PairTypes
    <3>2. paired'[q] /\ partner'[q] = p
      BY <2>2, <2>3, <3>1
    <3>3. x # q => paired'[x] = paired[x] /\ partner'[x] = partner[x]
      BY <2>2, <2>6, <3>1
    <3> QED
      BY <3>1, <3>2, <3>3
  <2>7. \A x \in Peers : x # q => \A s \in Rooms, role \in Roles :
                                In(queue[s][role], x) => In(queue'[s][role], x)
    BY <1>3, <2>4, <2>5
  <2>8. \A x \in Peers : pc'[x] = IF x = p THEN "greet2" ELSE pc[x]
    BY <2>2 DEF Pairing, PairTypes
  <2> QED
    BY <2>6, <2>7, <2>8
<1>6. ASSUME theirs = <<>> PROVE Joined
  <2>1. /\ queue' = [queue EXCEPT ![r][mine] = Append(queue[r][mine], p)]
        /\ partner' = partner /\ paired' = paired /\ pc' = [pc EXCEPT ![p] = "greet"]
    BY <1>1, <1>3, <1>6 DEF Register, Join, Enqueue, Go
  <2>2. ~paired[p]
    BY <1>2 DEF Pairing, Places, PairTypes
  <2>3. \A s \in Rooms, role \in Roles :
          queue'[s][role] = IF s = r /\ role = mine THEN Append(queue[r][mine], p) ELSE queue[s][role]
    BY <2>1 DEF Pairing, PairTypes
  <2>4. In(Append(queue[r][mine], p), p)
    <3>1. /\ Len(queue[r][mine]) + 1 \in 1..Len(Append(queue[r][mine], p))
          /\ Append(queue[r][mine], p)[Len(queue[r][mine]) + 1] = p
      BY <1>4
    <3> QED
      BY <3>1 DEF In
  <2>5. \A x \in Peers : In(queue[r][mine], x) => In(Append(queue[r][mine], p), x)
    <3> SUFFICES ASSUME NEW x \in Peers, NEW i \in 1..Len(queue[r][mine]), queue[r][mine][i] = x
                 PROVE  In(Append(queue[r][mine], p), x)
      BY DEF In
    <3>1. i \in 1..Len(Append(queue[r][mine], p)) /\ Append(queue[r][mine], p)[i] = x
      BY <1>4
    <3> QED
      BY <3>1 DEF In
  <2>6. \A x \in Peers : pc'[x] = IF x = p THEN "greet" ELSE pc[x]
    BY <2>1 DEF Pairing, PairTypes
  <2>7. \A x \in Peers, s \in Rooms, role \in Roles :
          In(queue[s][role], x) => In(queue'[s][role], x)
    BY <2>3, <2>5
  <2>8. In(queue'[r][mine], p)
    BY <2>3, <2>4
  <2> QED
    BY <1>2, <2>1, <2>2, <2>6, <2>7, <2>8
<1>7. Joined
  BY <1>5, <1>6
<1> HIDE DEF Joined
<1>8. \A x \in Peers : who'[x] = IF x = p THEN w ELSE who[x]
  BY <1>2 DEF Pairing, PairTypes
<1>9. Queued'
  <2> SUFFICES ASSUME NEW x \in Peers
               PROVE  /\ pc'[x] \in {"greet", "wait"} => (paired'[x] <=> partner'[x] # None)
                      /\ Waits(x)' => In(queue'[who'[x].room][who'[x].role], x)
    BY DEF Queued
  <2>1. CASE x = p
    <3>1. pc'[p] \in {"greet", "wait"} => pc'[p] = "greet"
      BY <1>7 DEF Joined
    <3>2. who'[p].room = r /\ who'[p].role = mine
      BY <1>1, <1>8
    <3> QED
      BY <1>7, <2>1, <3>1, <3>2 DEF Joined, Waits
  <2>2. CASE x # p
    <3>1. pc'[x] = pc[x] /\ who'[x] = who[x]
      BY <1>7, <1>8, <2>2 DEF Joined
    <3>2. \/ paired'[x] = paired[x] /\ partner'[x] = partner[x]
          \/ paired'[x] /\ partner'[x] # None
      BY <1>7, <2>2 DEF Joined
    <3>3. pc[x] \in {"greet", "wait"} => (paired[x] <=> partner[x] # None)
      BY DEF Occupied, Queued
    <3>4. ASSUME Waits(x)' PROVE In(queue'[who'[x].room][who'[x].role], x)
      <4>1. Waits(x) /\ ~paired'[x]
        BY <3>1, <3>2, <3>4 DEF Waits
      <4>2. who[x] \in Hello /\ In(queue[who[x].room][who[x].role], x)
        BY <4>1 DEF Waits, Occupied, Queued, Pairing, Places
      <4>3. who[x].room \in Rooms /\ who[x].role \in Roles
        BY <4>2 DEF Hello
      <4>4. In(queue'[who[x].room][who[x].role], x)
        BY <1>7, <2>2, <4>1, <4>2, <4>3 DEF Joined
      <4> QED
        BY <3>1, <4>4
    <3> QED
      BY <3>1, <3>2, <3>3, <3>4
  <2> QED
    BY <2>1, <2>2
<1>10. RoomsLive'
  <2> SUFFICES ASSUME NEW s \in Rooms, tok'[s] # None
               PROVE  \E x \in Peers : who'[x] \in Hello /\ who'[x].room = s /\ pc'[x] \in Staying
    BY DEF RoomsLive
  <2>1. CASE s = r
    <3>1. who'[p] = w /\ w.room = s /\ pc'[p] \in {"greet", "greet2"}
      BY <1>1, <1>7, <1>8, <2>1 DEF Joined
    <3> QED
      BY <3>1 DEF Staying
  <2>2. CASE s # r
    <3>1. tok[s] # None
      BY <1>2, <2>2 DEF Pairing, PairTypes
    <3>2. PICK x \in Peers : who[x] \in Hello /\ who[x].room = s /\ pc[x] \in Staying
      BY <3>1 DEF Occupied, RoomsLive
    <3>3. x # p
      BY <1>2, <3>2 DEF Staying
    <3> QED
      BY <1>7, <1>8, <3>2, <3>3 DEF Joined
  <2> QED
    BY <2>1, <2>2
<1> QED
  BY <1>9, <1>10 DEF Occupied

LEMMA OccupiedHandler ==
  ASSUME Pairing, Occupied, NEW p \in Peers, Handler(p) PROVE Occupied'
<1>0. partner[p] # None =>
        /\ partner[p] \in Peers /\ partner[partner[p]] = p /\ who[p] \in Hello
        /\ who[partner[p]] \in Hello /\ who[partner[p]].room = who[p].room
  <2> SUFFICES ASSUME partner[p] # None
               PROVE  /\ partner[p] \in Peers /\ partner[partner[p]] = p /\ who[p] \in Hello
                      /\ who[partner[p]] \in Hello /\ who[partner[p]].room = who[p].room
    OBVIOUS
  <2>1. partner[p] \in Peers
    BY DEF Pairing, PairTypes
  <2>2. partner[partner[p]] = p /\ who[partner[p]] = [who[p] EXCEPT !.role = Other(who[p].role)]
    BY DEF Pairing, PairsMatch
  <2>3. who[p] \in Hello /\ who[partner[p]] \in Hello
    BY <2>1, <2>2, RelayAssumption DEF Pairing, Places
  <2>4. who[partner[p]].room = who[p].room
    BY <2>2, <2>3 DEF Hello
  <2> QED
    BY <2>1, <2>2, <2>3, <2>4
<1>1. ASSUME NEW w \in Hello, Register(p, w) PROVE Occupied'
  BY <1>1, OccupiedRegister
<1>2. CASE GreetFails(p) \/ GiveUp(p)
  <2>1. Unregister(p) /\ Go(p, "close") /\ UNCHANGED <<who, partner, paired>>
    BY <1>2 DEF GreetFails, GiveUp
  <2>2. who[p] \in Hello
    BY <1>2 DEF GreetFails, GiveUp, Pairing, Places
  <2> QED
    BY <2>1, <2>2, OccupiedLeaves
<1>3. CASE Sweep(p)
  <2>1. pc[p] \in {"sweep", "sweep2"} /\ partner[p] # None /\ UNCHANGED <<who, partner, paired>>
    BY <1>3 DEF Sweep, Pairing, Places, Coupled
  <2>2. CASE pc[p] = "sweep"
    <3>1. Unregister(p) /\ Go(p, "sweep2")
      BY <1>3, <2>2 DEF Sweep
    <3> QED
      BY <1>0, <2>1, <3>1, OccupiedLeaves
  <2>3. CASE pc[p] = "sweep2"
    <3>1. PICK q \in Peers : q = partner[p]
      BY <1>0, <2>1
    <3>2. Unregister(q) /\ Go(p, "drain")
      BY <1>3, <2>3, <3>1 DEF Sweep
    <3> QED
      BY <1>0, <2>1, <3>1, <3>2, OccupiedLeaves
  <2> QED
    BY <2>1, <2>2, <2>3
<1>4. CASE \/ Reject(p) \/ NoHello(p) \/ Return(p) \/ Greet(p) \/ Found(p) \/ PairReply(p)
           \/ PairReplyFails(p) \/ SpliceEnds(p) \/ CloseBoth(p) \/ Drain(p)
  <2>1. UNCHANGED pairing
    BY <1>4
    DEF pairing, Reject, NoHello, Return, Greet, Found, PairReply, PairReplyFails, SpliceEnds,
        CloseBoth, Drain
  <2>2. \E l \in PcAt : /\ Go(p, l)
                        /\ l \in {"greet", "wait"} => pc[p] \in {"greet", "wait"}
                        /\ pc[p] \in Staying => l \in Staying
    BY <1>4
    DEF PcAt, Staying, Reject, NoHello, Return, Greet, Found, PairReply, PairReplyFails, SpliceEnds,
        CloseBoth, Drain
  <2> QED
    BY <2>1, <2>2, OccupiedFrame
<1> QED
  BY <1>1, <1>2, <1>3, <1>4 DEF Handler

LEMMA OccupiedStep == Pairing /\ Occupied /\ [Next]_vars => Occupied'
<1> SUFFICES ASSUME Pairing, Occupied, [Next]_vars PROVE Occupied'
  OBVIOUS
<1>1. ASSUME NEW p \in Peers, Send(p) \/ Take(p) \/ Leave(p) \/ \E way \in Ways : Copying(p, way)
      PROVE  Occupied'
  <2>1. UNCHANGED pairing /\ UNCHANGED pc
    BY <1>1 DEF Send, Take, Leave, Copying, CopyRead, CopyWrite, CopyEnds, pairing
  <2> QED
    BY <2>1, OccupiedSame
<1>2. CASE Quiet \/ UNCHANGED vars
  BY <1>2, OccupiedSame DEF Quiet, vars, pairing
<1> QED
  BY <1>1, <1>2, OccupiedHandler DEF Next

----------------------------------------------------------------------------
(* The types of what is sent, read and written. *)

Said == Chunks \union {Reply("waiting"), Reply("paired")}
ChunksOf(p) == {Chunk(p, n) : n \in 1..MaxChunks}

Carried ==
  /\ open \in [Peers -> BOOLEAN] /\ gone \in [Peers -> BOOLEAN]
  /\ \A p \in Peers :
       /\ sent[p] \in 0..MaxChunks /\ inbox[p] \in Seq(ChunksOf(p)) /\ outbox[p] \in Seq(Said)
  /\ \A p \in Peers, way \in Ways :
       /\ hand[p][way] \in Chunks \union {None} /\ (hand[p][way] # None <=> Writes(p, way))
       /\ pc[p] = "close" => copy[p][way] = "off"
       /\ pc[p] = "done" => copy[p][way] \in {"off", "ended"}

LEMMA CarriedInit == Init => Carried
BY RelayAssumption DEF Init, Carried, Writes, Ways

LEMMA ChunkFacts ==
  /\ None \notin Chunks
  /\ \A p \in Peers : ChunksOf(p) \subseteq Chunks
  /\ \A p \in Peers, n \in 1..MaxChunks : Chunk(p, n) \in ChunksOf(p)
  /\ Chunks \subseteq Said /\ \A x \in {"waiting", "paired"} : Reply(x) \in Said
<1>1. \A p \in Peers, n \in 1..MaxChunks : Chunk(p, n) \in [from : Peers, kind : {"data"}, n : Nat]
  BY RelayAssumption DEF Chunk
<1>2. Chunks \subseteq [from : Peers, kind : {"data"}, n : Nat]
  BY <1>1 DEF Chunks
<1>3. None \notin Chunks
  BY <1>2, RelayAssumption
<1>4. \A p \in Peers : ChunksOf(p) \subseteq Chunks
  BY DEF ChunksOf, Chunks
<1> QED
  BY <1>3, <1>4 DEF ChunksOf, Said

(* A handler's step that copies nothing and says nothing. *)
LEMMA CarriedFrame ==
  ASSUME Pairing, Bytes, Carried, UNCHANGED <<sent, outbox, copy, hand, gone>>,
         open' \in [Peers -> BOOLEAN],
         \A q \in Peers : inbox'[q] = inbox[q] \/ inbox'[q] = <<>>,
         NEW p \in Peers, NEW l \in PcAt, Go(p, l),
         l = "close" => pc[p] \in Early,
         l = "done" => \/ pc[p] \in Early \union {"close"}
                       \/ \A way \in Ways : copy[p][way] \in {"off", "ended"}
  PROVE  Carried'
<1>1. \A q \in Peers : pc'[q] = IF q = p THEN l ELSE pc[q]
  BY DEF Go, Pairing, PairTypes
<1>2. ASSUME NEW q \in Peers PROVE inbox'[q] \in Seq(ChunksOf(q))
  <2>1. inbox[q] \in Seq(ChunksOf(q)) /\ (inbox'[q] = inbox[q] \/ inbox'[q] = <<>>)
    BY DEF Carried
  <2>2. <<>> \in Seq(ChunksOf(q))
    OBVIOUS
  <2> QED
    BY <2>1, <2>2, Zenon
<1>3. ASSUME NEW q \in Peers, NEW way \in Ways
      PROVE  /\ pc'[q] = "close" => copy[q][way] = "off"
             /\ pc'[q] = "done" => copy[q][way] \in {"off", "ended"}
  <2>1. CASE q = p
    <3>1. pc[p] \in Early \union {"close"} => copy[p][way] = "off"
      BY DEF Carried, Bytes, Copies
    <3> QED
      BY <1>1, <2>1, <3>1
  <2>2. CASE q # p
    BY <1>1, <2>2 DEF Carried
  <2> QED
    BY <2>1, <2>2
<1> QED
  BY <1>2, <1>3 DEF Carried, Writes

(* A reply to a client that is not copied for. *)
LEMMA CarriedSays ==
  ASSUME Pairing, Bytes, Carried, UNCHANGED <<sent, inbox, hand, open, gone>>,
         NEW p \in Peers, NEW x \in {"waiting", "paired"}, Say(p, Reply(x)),
         NEW l \in PcAt \ {"close", "done"}, Go(p, l), pc[p] \in Early,
         copy' = copy \/ copy' = [copy EXCEPT ![p] = [way \in Ways |-> "read"]]
  PROVE  Carried'
<1>1. \A q \in Peers : pc'[q] = IF q = p THEN l ELSE pc[q]
  BY DEF Go, Pairing, PairTypes
<1>2. PICK y \in Said : y = Reply(x)
  BY ChunkFacts
<1>3. outbox' = [outbox EXCEPT ![p] = Append(outbox[p], y)]
  BY <1>2 DEF Say
<1>4. ASSUME NEW q \in Peers PROVE outbox'[q] \in Seq(Said)
  <2>1. outbox[q] \in Seq(Said) /\ Append(outbox[q], y) \in Seq(Said)
    BY DEF Carried
  <2> QED
    BY <1>3, <2>1 DEF Bytes, ByteTypes
<1>5. ASSUME NEW q \in Peers, NEW way \in Ways
      PROVE  /\ Writes(q, way)' <=> Writes(q, way)
             /\ pc'[q] = "close" => copy'[q][way] = "off"
             /\ pc'[q] = "done" => copy'[q][way] \in {"off", "ended"}
  <2>1. CASE q = p
    <3>1. copy[p][way] = "off"
      BY DEF Bytes, Copies
    <3>2. copy'[p][way] \in {"off", "read"}
      BY <3>1 DEF Bytes, ByteTypes
    <3> QED
      BY <1>1, <2>1, <3>1, <3>2 DEF Writes
  <2>2. CASE q # p
    <3>1. copy'[q] = copy[q]
      BY <2>2 DEF Bytes, ByteTypes
    <3> QED
      BY <1>1, <2>2, <3>1 DEF Carried, Writes
  <2> QED
    BY <2>1, <2>2
<1> QED
  BY <1>4, <1>5 DEF Carried

LEMMA CarriedHandler ==
  ASSUME Pairing, Bytes, Carried, NEW p \in Peers, Handler(p) PROVE Carried'
<1> USE DEF PcAt, Early
<1>1. ASSUME NEW w \in Hello, Register(p, w) PROVE Carried'
  <2>1. \E l \in {"greet", "greet2"} : Go(p, l)
    BY <1>1 DEF Register, Join, Pair, Enqueue
  <2>2. UNCHANGED <<open, gone, sent, inbox, outbox, copy, hand>>
    BY <1>1 DEF Register
  <2> QED
    BY <2>1, <2>2, CarriedFrame DEF Carried
<1>2. CASE Greet(p)
  <2>1. Say(p, Reply("waiting")) /\ UNCHANGED <<sent, inbox, hand, open, gone, copy>> /\ pc[p] \in Early
    BY <1>2 DEF Greet
  <2>2. \E l \in {"pair", "wait"} : Go(p, l)
    BY <1>2 DEF Greet
  <2> QED
    BY <2>1, <2>2, CarriedSays
<1>3. CASE PairReply(p)
  <2>1. /\ Say(p, Reply("paired")) /\ UNCHANGED <<sent, inbox, hand, open, gone>> /\ pc[p] \in Early
        /\ copy' = [copy EXCEPT ![p] = [way \in Ways |-> "read"]] /\ Go(p, "splice")
    BY <1>3 DEF PairReply
  <2> QED
    BY <2>1, CarriedSays
<1>4. CASE NoHello(p) \/ CloseBoth(p) \/ Return(p)
  <2>1. UNCHANGED <<sent, outbox, copy, hand, gone>>
    BY <1>4 DEF NoHello, CloseBoth, Return
  <2>2. \E l \in {"done", "sweep"} : Go(p, l) /\ (l = "done" => pc[p] \in Early \union {"close"})
    BY <1>4 DEF NoHello, CloseBoth, Return
  <2>3. PICK ps : Close(ps)
    BY <1>4 DEF NoHello, CloseBoth, Return
  <2>4. open' \in [Peers -> BOOLEAN] /\ \A q \in Peers : inbox'[q] = inbox[q] \/ inbox'[q] = <<>>
    BY <2>3 DEF Close
  <2> QED
    BY <2>1, <2>2, <2>4, CarriedFrame
<1>5. CASE \/ Reject(p) \/ GreetFails(p) \/ Found(p) \/ GiveUp(p) \/ PairReplyFails(p)
           \/ SpliceEnds(p) \/ Sweep(p) \/ Drain(p)
  <2>1. UNCHANGED <<open, gone, sent, inbox, outbox, copy, hand>>
    BY <1>5 DEF Reject, GreetFails, Found, GiveUp, PairReplyFails, SpliceEnds, Sweep, Drain
  <2>2. \E l \in PcAt : /\ Go(p, l) /\ (l = "close" => pc[p] \in Early)
                        /\ l = "done" => \A way \in Ways : copy[p][way] \in {"off", "ended"}
    BY <1>5 DEF Reject, GreetFails, Found, GiveUp, PairReplyFails, SpliceEnds, Sweep, Drain
  <2> QED
    BY <2>1, <2>2, CarriedFrame DEF Carried
<1> QED
  BY <1>1, <1>2, <1>3, <1>4, <1>5 DEF Handler

LEMMA CarriedSend ==
  ASSUME Bytes, Carried, NEW p \in Peers, Send(p) PROVE Carried'
<1>1. PICK n \in Nat : n = sent[p] + 1
  BY DEF Bytes, ByteTypes
<1>2. /\ sent' = [sent EXCEPT ![p] = n] /\ sent[p] < MaxChunks
      /\ inbox' = [inbox EXCEPT ![p] = Append(inbox[p], Chunk(p, sent'[p]))]
      /\ UNCHANGED <<pc, open, gone, outbox, copy, hand>>
  BY <1>1 DEF Send
<1>3. n \in 1..MaxChunks
  BY <1>1, <1>2, RelayAssumption DEF Bytes, ByteTypes
<1>4. PICK x \in ChunksOf(p) : x = Chunk(p, n)
  BY <1>3, ChunkFacts
<1>5. inbox' = [inbox EXCEPT ![p] = Append(inbox[p], x)]
  BY <1>2, <1>4 DEF Bytes, ByteTypes
<1>6. ASSUME NEW q \in Peers
      PROVE  sent'[q] \in 0..MaxChunks /\ inbox'[q] \in Seq(ChunksOf(q))
  <2>1. inbox[q] \in Seq(ChunksOf(q)) /\ sent[q] \in 0..MaxChunks
    BY DEF Carried
  <2>2. q = p => Append(inbox[q], x) \in Seq(ChunksOf(q))
    BY <2>1
  <2> QED
    BY <1>2, <1>3, <1>5, <2>1, <2>2 DEF Bytes, ByteTypes
<1> QED
  BY <1>2, <1>6 DEF Carried, Writes

LEMMA CarriedCopies ==
  ASSUME Pairing, Bytes, Carried, NEW p \in Peers, NEW way \in Ways, Copying(p, way)
  PROVE  Carried'
<1>0. /\ UNCHANGED <<pc, open, gone, sent>> /\ copy[p][way] \in {"read", "write"}
      /\ copy \in [Peers -> [Ways -> {"off", "read", "write", "ended"}]]
      /\ hand \in [Peers -> [Ways -> Packet \union {None}]]
      /\ pc[p] # "close" /\ pc[p] # "done"
  <2>1. /\ UNCHANGED <<pc, open, gone, sent>> /\ copy[p][way] \in {"read", "write"}
    BY DEF Copying, CopyRead, CopyWrite, CopyEnds
  <2> QED
    BY <2>1 DEF Carried, Bytes, ByteTypes
<1> DEFINE Moves ==
      /\ \A q \in Peers : inbox'[q] \in Seq(ChunksOf(q)) /\ outbox'[q] \in Seq(Said)
      /\ \E at \in {"read", "write", "ended"}, x \in Chunks \union {None} :
           /\ copy' = [copy EXCEPT ![p][way] = at] /\ hand' = [hand EXCEPT ![p][way] = x]
           /\ x # None <=> at = "write"
<1>1. ASSUME CopyRead(p, way) PROVE Moves
  <2>1. PICK s \in Peers : s = From(p, way)
    BY <1>0, Ends
  <2>2. /\ inbox[s] # <<>> /\ copy' = [copy EXCEPT ![p][way] = "write"]
        /\ hand' = [hand EXCEPT ![p][way] = Head(inbox[s])]
        /\ inbox' = [inbox EXCEPT ![s] = Tail(inbox[s])] /\ outbox' = outbox
    BY <1>1, <2>1 DEF CopyRead
  <2>3. inbox[s] \in Seq(ChunksOf(s))
    BY DEF Carried
  <2>4. Head(inbox[s]) \in ChunksOf(s) /\ Tail(inbox[s]) \in Seq(ChunksOf(s))
    BY <2>2, <2>3
  <2>5. Head(inbox[s]) \in Chunks /\ Head(inbox[s]) # None
    BY <2>4, ChunkFacts
  <2>6. \A q \in Peers : inbox'[q] \in Seq(ChunksOf(q)) /\ outbox'[q] \in Seq(Said)
    BY <2>2, <2>4 DEF Carried, Bytes, ByteTypes
  <2> QED
    BY <2>2, <2>5, <2>6
<1>2. ASSUME CopyWrite(p, way) PROVE Moves
  <2>1. PICK t \in Peers : t = To(p, way)
    BY <1>0, Ends
  <2>2. PICK x : x = hand[p][way]
    OBVIOUS
  <2>3. /\ copy[p][way] = "write" /\ copy' = [copy EXCEPT ![p][way] = "read"]
        /\ hand' = [hand EXCEPT ![p][way] = None]
        /\ outbox' = [outbox EXCEPT ![t] = Append(outbox[t], x)] /\ inbox' = inbox
    BY <1>2, <2>1, <2>2 DEF CopyWrite, Put, Say
  <2>4. x \in Said
    BY <2>2, <2>3, ChunkFacts DEF Carried, Writes
  <2>5. outbox[t] \in Seq(Said)
    BY DEF Carried
  <2>6. Append(outbox[t], x) \in Seq(Said)
    BY <2>4, <2>5
  <2>7. \A q \in Peers : inbox'[q] \in Seq(ChunksOf(q)) /\ outbox'[q] \in Seq(Said)
    BY <2>3, <2>6 DEF Carried, Bytes, ByteTypes
  <2> QED
    BY <2>3, <2>7
<1>3. ASSUME CopyEnds(p, way) PROVE Moves
  <2>1. /\ copy' = [copy EXCEPT ![p][way] = "ended"] /\ hand' = [hand EXCEPT ![p][way] = None]
        /\ inbox' = inbox /\ outbox' = outbox
    BY <1>3 DEF CopyEnds
  <2>2. \A q \in Peers : inbox'[q] \in Seq(ChunksOf(q)) /\ outbox'[q] \in Seq(Said)
    BY <2>1 DEF Carried
  <2> QED
    BY <2>1, <2>2
<1>4. Moves
  BY <1>1, <1>2, <1>3 DEF Copying
<1>5. PICK at \in {"read", "write", "ended"}, x \in Chunks \union {None} :
        /\ copy' = [copy EXCEPT ![p][way] = at] /\ hand' = [hand EXCEPT ![p][way] = x]
        /\ x # None <=> at = "write"
  BY <1>4
<1>6. ASSUME NEW q \in Peers, NEW other \in Ways
      PROVE  /\ hand'[q][other] \in Chunks \union {None}
             /\ hand'[q][other] # None <=> Writes(q, other)'
             /\ pc'[q] = "close" => copy'[q][other] = "off"
             /\ pc'[q] = "done" => copy'[q][other] \in {"off", "ended"}
  <2>1. CASE q = p /\ other = way
    <3>1. hand'[p][way] = x /\ copy'[p][way] = at
      BY <1>0, <1>5
    <3> QED
      BY <1>0, <1>5, <2>1, <3>1 DEF Writes
  <2>2. CASE ~(q = p /\ other = way)
    <3>1. hand'[q][other] = hand[q][other] /\ copy'[q][other] = copy[q][other]
      BY <1>0, <1>5, <2>2
    <3> QED
      BY <1>0, <3>1 DEF Carried, Writes
  <2> QED
    BY <2>1, <2>2
<1> QED
  BY <1>0, <1>4, <1>6 DEF Carried

LEMMA CarriedStep == Pairing /\ Bytes /\ Carried /\ [Next]_vars => Carried'
<1> SUFFICES ASSUME Pairing, Bytes, Carried, [Next]_vars PROVE Carried'
  OBVIOUS
<1>1. ASSUME NEW p \in Peers, Take(p) \/ Leave(p) PROVE Carried'
  <2>1. /\ UNCHANGED <<pc, open, sent, inbox, outbox, copy, hand>>
        /\ gone' = gone \/ gone' = [gone EXCEPT ![p] = TRUE]
    BY <1>1 DEF Take, Leave
  <2> QED
    BY <2>1 DEF Carried, Writes
<1>2. CASE Quiet \/ UNCHANGED vars
  BY <1>2 DEF Quiet, vars, Carried, Writes
<1> QED
  BY <1>1, <1>2, CarriedHandler, CarriedSend, CarriedCopies DEF Next

(* A connection holds what fits in it: nobody writes to a full one.         *)
PipeTyped == unread \in [Peers -> 0..PipeSize]

LEMMA PipeTypedInit == Init => PipeTyped
BY RelayAssumption DEF Init, PipeTyped

LEMMA PipeTypedStep == PipeTyped /\ [Next]_vars => PipeTyped'
<1> SUFFICES ASSUME PipeTyped, [Next]_vars PROVE PipeTyped'
  OBVIOUS
<1>1. ASSUME NEW p \in Peers, Handler(p) PROVE UNCHANGED unread
  <2>1. CASE (\E w \in Hello : Register(p, w)) \/ Reject(p) \/ NoHello(p)
    BY <2>1 DEF Register, Reject, NoHello
  <2>2. CASE Greet(p) \/ GreetFails(p) \/ Found(p) \/ GiveUp(p)
    BY <2>2 DEF Greet, GreetFails, Found, GiveUp
  <2>3. CASE PairReply(p) \/ PairReplyFails(p) \/ SpliceEnds(p) \/ CloseBoth(p)
    BY <2>3 DEF PairReply, PairReplyFails, SpliceEnds, CloseBoth
  <2>4. CASE Sweep(p) \/ Drain(p) \/ Return(p)
    BY <2>4 DEF Sweep, Drain, Return
  <2> QED
    BY <1>1, <2>1, <2>2, <2>3, <2>4 DEF Handler
<1>2. ASSUME NEW p \in Peers, NEW way \in Ways, Copying(p, way) PROVE PipeTyped'
  <2>1. CASE CopyRead(p, way) \/ CopyEnds(p, way)
    BY <2>1 DEF CopyRead, CopyEnds, PipeTyped
  <2>2. CASE CopyWrite(p, way)
    <3>0. PICK q : q = To(p, way)
      OBVIOUS
    <3>1. unread[q] # PipeSize /\ unread' = [unread EXCEPT ![q] = @ + 1]
      BY <2>2, <3>0 DEF CopyWrite, CanWrite, Full, Put
    <3>2. ASSUME NEW r \in Peers PROVE unread'[r] \in 0..PipeSize
      <4>1. unread[r] \in 0..PipeSize /\ unread'[r] = IF r = q THEN unread[q] + 1 ELSE unread[r]
        BY <3>1 DEF PipeTyped
      <4> QED
        BY <3>1, <4>1, RelayAssumption
    <3>3. unread' \in [Peers -> 0..PipeSize]
      <4>1. unread' = [r \in Peers |-> unread'[r]]
        BY <3>1 DEF PipeTyped
      <4> QED
        BY <3>2, <4>1
    <3> QED
      BY <3>3 DEF PipeTyped
  <2> QED
    BY <1>2, <2>1, <2>2 DEF Copying
<1>3. ASSUME NEW p \in Peers, Take(p) PROVE PipeTyped'
  BY <1>3, RelayAssumption DEF Take, PipeTyped
<1>4. ASSUME NEW p \in Peers, Send(p) \/ Leave(p) PROVE UNCHANGED unread
  BY <1>4 DEF Send, Leave
<1>5. CASE Quiet \/ UNCHANGED vars
  BY <1>5 DEF Quiet, vars, PipeTyped
<1> QED
  BY <1>1, <1>2, <1>3, <1>4, <1>5 DEF Next, PipeTyped

----------------------------------------------------------------------------
(* The types of all variables; who is in a list is exactly who waits, once, *)
(* in the room and role it registered for; and a room that everybody has    *)
(* left has no token (register, unregister, closeBoth).                    *)
THEOREM TypeCorrect == Spec => []TypeOK
<1> DEFINE Inv == Pairing /\ Bytes /\ Occupied /\ Carried /\ PipeTyped
<1>1. Init => Inv
  BY PairingInit, BytesInit, OccupiedInit, CarriedInit, PipeTypedInit
<1>2. Inv /\ [Next]_vars => Inv'
  BY PairingStep, BytesStep, OccupiedStep, CarriedStep, PipeTypedStep
<1>3. Inv => TypeOK
  <2> SUFFICES ASSUME Inv PROVE TypeOK
    OBVIOUS
  <2>1. Types
    <3>1. /\ \A r \in Rooms, role \in Roles : queue[r][role] \in Seq(Peers)
          /\ sent \in [Peers -> 0..MaxChunks]
      BY DEF Pairing, PairTypes, Bytes, ByteTypes, Carried
    <3>2. /\ \A p \in Peers : inbox[p] \in Seq({Chunk(p, n) : n \in 1..MaxChunks})
          /\ \A p \in Peers : outbox[p] \in Seq(Chunks \union {Reply("waiting"), Reply("paired")})
      BY DEF Carried, ChunksOf, Said
    <3>3. \A p \in Peers, way \in Ways :
            /\ copy[p][way] \in {"off", "read", "write", "ended"}
            /\ hand[p][way] \in Chunks \union {None} /\ (hand[p][way] # None <=> copy[p][way] = "write")
            /\ pc[p] \in {"close", "done"} => copy[p][way] \in {"off", "ended"}
      BY DEF Bytes, ByteTypes, Carried, Writes
    <3>4. /\ pc \in [Peers -> PcAt] /\ who \in [Peers -> Hello \union {None}]
          /\ tok \in [Rooms -> Tokens \union {None}] /\ partner \in [Peers -> Peers \union {None}]
          /\ paired \in [Peers -> BOOLEAN] /\ open \in [Peers -> BOOLEAN] /\ gone \in [Peers -> BOOLEAN]
          /\ unread \in [Peers -> 0..PipeSize]
      BY DEF Pairing, PairTypes, Carried, PipeTyped
    <3> QED
      BY <3>1, <3>2, <3>3, <3>4, Zenon DEF Types, PcAt
  <2>2. QueuedWaits
    <3> SUFFICES ASSUME NEW p \in Peers, NEW r \in Rooms, NEW role \in Roles
                 PROVE  Cardinality({i \in DOMAIN queue[r][role] : queue[r][role][i] = p})
                          = IF /\ pc[p] \in {"greet", "wait"} /\ ~paired[p]
                               /\ who[p].room = r /\ who[p].role = role THEN 1 ELSE 0
      BY DEF QueuedWaits
    <3>1. PICK list \in Seq(Peers) : list = queue[r][role]
      BY DEF Pairing, PairTypes
    <3>2. PICK places : places = {i \in DOMAIN list : list[i] = p}
      OBVIOUS
    <3>3. DOMAIN list = 1..Len(list) /\ Once(list) /\ \A i \in 1..Len(list) : Waiting(list[i], r, role)
      BY <3>1 DEF Pairing, Lists
    <3>4. CASE Waits(p) /\ who[p].room = r /\ who[p].role = role
      <4>1. PICK i \in 1..Len(list) : list[i] = p
        BY <3>1, <3>4 DEF Occupied, Queued, In
      <4>2. places = {i}
        BY <3>2, <3>3, <4>1 DEF Once
      <4>3. Cardinality(places) = 1
        BY <4>2, FS_Singleton
      <4> QED
        BY <3>1, <3>2, <3>4, <4>3 DEF Waits
    <3>5. CASE ~(Waits(p) /\ who[p].room = r /\ who[p].role = role)
      <4>1. places = {}
        BY <3>2, <3>3, <3>5 DEF Waiting, Waits
      <4>2. Cardinality(places) = 0
        BY <4>1, FS_EmptySet
      <4> QED
        BY <3>1, <3>2, <3>5, <4>2 DEF Waits
    <3> QED
      BY <3>4, <3>5
  <2>3. RoomsEnd
    BY DEF Occupied, RoomsLive, RoomsEnd, Staying
  <2> QED
    BY <2>1, <2>2, <2>3 DEF TypeOK
<1> QED
  BY <1>1, <1>2, <1>3, PTL DEF Spec

=============================================================================
