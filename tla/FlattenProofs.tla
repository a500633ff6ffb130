--------------------------- MODULE FlattenProofs ---------------------------
(***************************************************************************)
(* What FlattenSeq and Select's Only compute, for every sequence: Stream's  *)
(* queues and PortLog's lines are flattened, Sercon compares what was shown *)
(* and AuthKeys what was kept of a file.  The definition of FlattenSeq is a *)
(* recursive function, so the facts rest on an induction, which a           *)
(* well-founded relation gives for sets of numbers.                        *)
(***************************************************************************)
EXTENDS Integers, Sequences, SequencesExt, Select, SequenceTheorems, WellFoundedInduction, TLAPS

Below == {p \in Nat \X Nat : p[1] < p[2]}

(* A set that has 0, and n + 1 with every n, has all numbers. *)
LEMMA SetInduction ==
  ASSUME NEW A, 0 \in A, \A n \in Nat : n \in A => n + 1 \in A
  PROVE  Nat \subseteq A
<1> DEFINE T == Nat \ A
<1>1. SUFFICES ASSUME T # {} PROVE FALSE
  OBVIOUS
<1>2. IsWellFoundedOn(Below, Nat)
  BY NatLessThanWellFounded DEF OpToRel, Below
<1>3. PICK x \in T : \A y \in T : ~(<<y, x>> \in Below)
  BY <1>1, <1>2, WFMin
<1>4. x \in Nat /\ x # 0
  OBVIOUS
<1>5. x - 1 \in Nat /\ x - 1 < x
  BY <1>4
<1>6. <<x - 1, x>> \in Below
  BY <1>4, <1>5 DEF Below
<1>7. x - 1 \in A
  BY <1>3, <1>5, <1>6
<1> QED
  BY <1>4, <1>5, <1>7

LEMMA LeastOf ==
  ASSUME NEW S \in SUBSET Nat, S # {}
  PROVE  \E i \in S : \A j \in S : i <= j
<1>1. IsWellFoundedOn(Below, Nat)
  BY NatLessThanWellFounded DEF OpToRel, Below
<1>2. PICK i \in S : \A j \in Nat : <<j, i>> \in Below => j \notin S
  BY <1>1, WFMin
<1>3. \A j \in S : i <= j
  <2> TAKE j \in S
  <2>1. i \in Nat /\ j \in Nat /\ <<j, i>> \notin Below
    BY <1>2
  <2>2. ~(j < i)
    BY <2>1 DEF Below
  <2> QED
    BY <2>1, <2>2
<1> QED
  BY <1>3

(* So does a set of sequences that has <<>>, and Append(q, x) with every q. *)
LEMMA SeqInduction ==
  ASSUME NEW X, NEW A, <<>> \in A,
         \A q \in Seq(X) : \A x \in X : q \in A => Append(q, x) \in A
  PROVE  Seq(X) \subseteq A
<1> DEFINE B == {m \in Nat : \A q \in Seq(X) : Len(q) = m => q \in A}
<1>1. 0 \in B
  BY EmptySeq
<1>2. ASSUME NEW m \in Nat, m \in B PROVE m + 1 \in B
  <2>1. ASSUME NEW q \in Seq(X), Len(q) = m + 1 PROVE q \in A
    <3>1. q # <<>>
      BY <2>1
    <3>2. PICK r \in Seq(X), x \in X : q = Append(r, x)
      BY <3>1, SequenceEmptyOrAppend
    <3>3. Len(r) = m
      BY <2>1, <3>2, AppendProperties
    <3> QED
      BY <1>2, <3>2, <3>3
  <2> QED
    BY <2>1
<1>3. Nat \subseteq B
  <2> HIDE DEF B
  <2> QED
    BY <1>1, <1>2, SetInduction
<1> QED
  BY <1>3, LenProperties

(* There is a function that is defined at i from its value at i - 1.        *)
Recurs(f, b, G, N) == f[0] = b /\ \A i \in 1..N : f[i] = G[i][f[i - 1]]

LEMMA Recursion ==
  ASSUME NEW S, NEW b \in S, NEW G \in [Nat -> [S -> S]], NEW N \in Nat
  PROVE  \E f : f \in [0..N -> S] /\ Recurs(f, b, G, N)
<1> USE DEF Recurs
<1> DEFINE A == {m \in Nat : \E f \in [0..m -> S] :
                   f[0] = b /\ \A i \in 1..m : f[i] = G[i][f[i - 1]]}
<1>1. 0 \in A
  <2>1. PICK f : f = [i \in 0..0 |-> b]
    OBVIOUS
  <2>2. f \in [0..0 -> S] /\ f[0] = b /\ \A i \in 1..0 : f[i] = G[i][f[i - 1]]
    BY <2>1
  <2> QED
    BY <2>2
<1>2. ASSUME NEW m \in Nat, m \in A PROVE m + 1 \in A
  <2>1. PICK f \in [0..m -> S] : f[0] = b /\ \A i \in 1..m : f[i] = G[i][f[i - 1]]
    BY <1>2
  <2> DEFINE g == [i \in 0..(m + 1) |-> IF i = m + 1 THEN G[i][f[m]] ELSE f[i]]
  <2>2. g \in [0..(m + 1) -> S] /\ g[0] = b
    BY <2>1
  <2>3. ASSUME NEW i \in 1..(m + 1) PROVE g[i] = G[i][g[i - 1]]
    <3>1. CASE i = m + 1
      BY <3>1
    <3>2. CASE i # m + 1
      <4>1. i \in 1..m /\ i \in 0..(m + 1) /\ i - 1 \in 0..(m + 1) /\ i - 1 # m + 1
        BY <3>2
      <4>2. g[i] = f[i] /\ g[i - 1] = f[i - 1]
        BY <3>2, <4>1
      <4> QED
        BY <2>1, <4>1, <4>2
    <3> QED
      BY <3>1, <3>2
  <2> HIDE DEF g
  <2> QED
    BY <2>2, <2>3
<1>3. Nat \subseteq A
  <2> HIDE DEF A
  <2> QED
    BY <1>1, <1>2, SetInduction
<1> QED
  BY <1>3

(* Functions that start alike and go on alike are alike. *)
AlikeNext(f, g, M) == \A i \in 1..M : f[i - 1] = g[i - 1] => f[i] = g[i]
Alike(f, g, M) == \A i \in 0..M : f[i] = g[i]

LEMMA RecursionSame ==
  ASSUME NEW M \in Nat, NEW f, NEW g, f[0] = g[0], AlikeNext(f, g, M)
  PROVE  Alike(f, g, M)
<1> USE DEF AlikeNext, Alike
<1> DEFINE A == {m \in Nat : m <= M => f[m] = g[m]}
<1>1. 0 \in A
  OBVIOUS
<1>2. ASSUME NEW m \in Nat, m \in A PROVE m + 1 \in A
  <2>1. ASSUME m + 1 <= M PROVE f[m + 1] = g[m + 1]
    <3>1. m + 1 \in 1..M /\ m + 1 - 1 = m /\ f[m] = g[m]
      BY <1>2, <2>1
    <3> QED
      BY <3>1
  <2> QED
    BY <2>1
<1>3. Nat \subseteq A
  <2> HIDE DEF A
  <2> QED
    BY <1>1, <1>2, SetInduction
<1> QED
  BY <1>3

(* s is h and then t; t begins with the first m sequences of s. *)
Consists(s, h, t) == Len(s) = Len(t) + 1 /\ s[1] = h /\ \A i \in 1..Len(t) : s[i + 1] = t[i]
Prefixed(f, h, g, m) == \A i \in 1..m : f[i + 1] = h \o g[i]
Agree(s, t, m) == \A i \in 1..m : s[i] = t[i]

(* What has been flattened after 1, 2, ... n sequences. *)
Flattens(f, s, n) == f = [i \in 1..n |-> IF i = 1 THEN s[i] ELSE f[i - 1] \o s[i]]

LEMMA FlattensAt ==
  ASSUME NEW f, NEW s, NEW n, Flattens(f, s, n), NEW i \in 1..n
  PROVE  f[i] = IF i = 1 THEN s[i] ELSE f[i - 1] \o s[i]
<1>1. PICK g : g = [j \in 1..n |-> IF j = 1 THEN s[j] ELSE f[j - 1] \o s[j]]
  OBVIOUS
<1>2. f = g
  BY <1>1 DEF Flattens
<1>3. g[i] = IF i = 1 THEN s[i] ELSE f[i - 1] \o s[i]
  BY <1>1
<1> QED
  BY <1>2, <1>3

LEMMA FlattensExists ==
  ASSUME NEW s, NEW n \in Nat
  PROVE  \E f : Flattens(f, s, n)
<1> DEFINE A == {m \in Nat : \E f : Flattens(f, s, m)}
<1>1. 0 \in A
  <2>1. Flattens(<<>>, s, 0)
    BY DEF Flattens
  <2> QED
    BY <2>1
<1>2. ASSUME NEW m \in Nat, m \in A PROVE m + 1 \in A
  <2>1. PICK f : Flattens(f, s, m)
    BY <1>2
  <2> DEFINE g == [i \in 1..(m + 1) |->
                     IF i = m + 1 THEN (IF m = 0 THEN s[i] ELSE f[m] \o s[i]) ELSE f[i]]
  <2>2. ASSUME NEW i \in 1..(m + 1)
        PROVE  g[i] = IF i = 1 THEN s[i] ELSE g[i - 1] \o s[i]
    <3>1. CASE i = m + 1 /\ m = 0
      BY <3>1
    <3>2. CASE i = m + 1 /\ m # 0
      <4>1. i # 1 /\ i - 1 = m /\ m \in 1..(m + 1) /\ m # m + 1
        BY <3>2
      <4> QED
        BY <3>2, <4>1
    <3>3. CASE i # m + 1
      <4>1. i \in 1..m /\ g[i] = f[i]
        BY <3>3
      <4>2. f[i] = IF i = 1 THEN s[i] ELSE f[i - 1] \o s[i]
        BY <2>1, <4>1, FlattensAt
      <4>3. i # 1 => i - 1 \in 1..(m + 1) /\ i - 1 # m + 1
        BY <4>1
      <4> QED
        BY <4>1, <4>2, <4>3
    <3> QED
      BY <3>1, <3>2, <3>3
  <2>3. Flattens(g, s, m + 1)
    BY <2>2 DEF Flattens
  <2> QED
    BY <2>3
<1>3. Nat \subseteq A
  <2> HIDE DEF A
  <2> QED
    BY <1>1, <1>2, SetInduction
<1> QED
  BY <1>3

(* It is determined by the sequences that were flattened. *)
LEMMA FlattensSame ==
  ASSUME NEW s, NEW t, NEW n \in Nat, NEW m \in Nat, m <= n, NEW f, NEW g,
         Flattens(f, s, n), Flattens(g, t, m), Agree(s, t, m)
  PROVE  Agree(f, g, m)
<1> DEFINE A == {k \in Nat : k \in 1..m => f[k] = g[k]}
<1>1. 0 \in A
  OBVIOUS
<1>2. ASSUME NEW k \in Nat, k \in A PROVE k + 1 \in A
  <2>1. ASSUME k + 1 \in 1..m PROVE f[k + 1] = g[k + 1]
    <3>1. /\ k + 1 \in 1..n /\ k + 1 - 1 = k
          /\ s[k + 1] = t[k + 1] /\ (k + 1 # 1 => f[k] = g[k])
      BY <1>2, <2>1 DEF Agree
    <3>2. /\ f[k + 1] = IF k + 1 = 1 THEN s[k + 1] ELSE f[k] \o s[k + 1]
          /\ g[k + 1] = IF k + 1 = 1 THEN t[k + 1] ELSE g[k] \o t[k + 1]
      BY <2>1, <3>1, FlattensAt
    <3> QED
      BY <3>1, <3>2
  <2> QED
    BY <2>1
<1>3. Nat \subseteq A
  <2> HIDE DEF A
  <2> QED
    BY <1>1, <1>2, SetInduction
<1> QED
  BY <1>3 DEF Agree

LEMMA FlattensType ==
  ASSUME NEW S, NEW s \in Seq(Seq(S)), NEW f, Flattens(f, s, Len(s))
  PROVE  \A i \in 1..Len(s) : f[i] \in Seq(S)
<1> DEFINE A == {k \in Nat : k \in 1..Len(s) => f[k] \in Seq(S)}
<1>1. 0 \in A
  OBVIOUS
<1>2. ASSUME NEW k \in Nat, k \in A PROVE k + 1 \in A
  <2>1. ASSUME k + 1 \in 1..Len(s) PROVE f[k + 1] \in Seq(S)
    <3>1. /\ k + 1 - 1 = k /\ s[k + 1] \in Seq(S) /\ (k + 1 # 1 => f[k] \in Seq(S))
      BY <1>2, <2>1
    <3>2. f[k + 1] = IF k + 1 = 1 THEN s[k + 1] ELSE f[k] \o s[k + 1]
      BY <2>1, <3>1, FlattensAt
    <3> QED
      BY <3>1, <3>2, ConcatProperties
  <2> QED
    BY <2>1
<1>3. Nat \subseteq A
  <2> HIDE DEF A
  <2> QED
    BY <1>1, <1>2, SetInduction
<1> QED
  BY <1>3

(* The sequences after the first, flattened, follow the first. *)
LEMMA FlattensShift ==
  ASSUME NEW S, NEW h \in Seq(S), NEW s \in Seq(Seq(S)), NEW t \in Seq(Seq(S)),
         Consists(s, h, t), NEW f, NEW g, Flattens(f, s, Len(s)), Flattens(g, t, Len(t))
  PROVE  Prefixed(f, h, g, Len(t))
<1>1. \A i \in 1..Len(t) : g[i] \in Seq(S)
  BY FlattensType
<1> DEFINE A == {k \in Nat : k \in 1..Len(t) => f[k + 1] = h \o g[k]}
<1>2. 0 \in A
  OBVIOUS
<1>3. ASSUME NEW k \in Nat, k \in A PROVE k + 1 \in A
  <2>1. ASSUME k + 1 \in 1..Len(t) PROVE f[k + 1 + 1] = h \o g[k + 1]
    <3>1. /\ k + 1 + 1 \in 1..Len(s) /\ k + 1 + 1 # 1 /\ k + 1 + 1 - 1 = k + 1 /\ k + 1 - 1 = k
          /\ s[k + 1 + 1] = t[k + 1] /\ t[k + 1] \in Seq(S) /\ 1 \in 1..Len(s) /\ s[1] = h
      BY SMTT(40), <2>1 DEF Consists
    <3>2. f[k + 1 + 1] = f[k + 1] \o t[k + 1]
      <4>1. PICK i \in 1..Len(s) : i = k + 1 + 1
        BY <3>1
      <4>2. f[i] = IF i = 1 THEN s[i] ELSE f[i - 1] \o s[i]
        BY FlattensAt
      <4>3. i # 1 /\ i - 1 = k + 1 /\ s[i] = t[k + 1]
        BY <3>1, <4>1
      <4> QED
        BY <4>1, <4>2, <4>3
    <3>3. g[k + 1] = IF k + 1 = 1 THEN t[k + 1] ELSE g[k] \o t[k + 1]
      BY <2>1, <3>1, FlattensAt
    <3>4. CASE k = 0
      <4>1. f[1] = h
        BY <3>1, FlattensAt
      <4>2. f[k + 1] = h /\ g[k + 1] = t[k + 1]
        <5>1. k + 1 = 1
          BY <3>4
        <5> QED
          BY <3>3, <4>1, <5>1
      <4> QED
        BY <3>2, <4>2
    <3>5. CASE k # 0
      <4>1. k \in 1..Len(t) /\ k + 1 # 1
        BY <2>1, <3>5
      <4>2. f[k + 1] = h \o g[k] /\ g[k] \in Seq(S)
        BY <1>1, <1>3, <4>1
      <4>3. (h \o g[k]) \o t[k + 1] = h \o (g[k] \o t[k + 1])
        <5>1. PICK u \in Seq(S), v \in Seq(S) : u = g[k] /\ v = t[k + 1]
          BY <3>1, <4>2
        <5>2. (h \o u) \o v = h \o (u \o v)
          BY SMTT(40), ConcatAssociative
        <5> QED
          BY <5>1, <5>2
      <4> QED
        BY <3>2, <3>3, <4>1, <4>2, <4>3
    <3> QED
      BY <3>4, <3>5
  <2> QED
    BY <2>1
<1>4. Nat \subseteq A
  <2> HIDE DEF A
  <2> QED
    BY <1>2, <1>3, SetInduction
<1> QED
  BY <1>4 DEF Prefixed

LEMMA FlattenIs ==
  ASSUME NEW S, NEW s \in Seq(Seq(S)), s # <<>>
  PROVE  \E f : Flattens(f, s, Len(s)) /\ FlattenSeq(s) = f[Len(s)]
<1>1. Len(s) \in Nat /\ Len(s) # 0
  OBVIOUS
<1>2. \E f : Flattens(f, s, Len(s))
  BY <1>1, FlattensExists
<1>3. Flattens(CHOOSE f : Flattens(f, s, Len(s)), s, Len(s))
  BY <1>2
<1>4. FlattenSeq(s) = (CHOOSE f : Flattens(f, s, Len(s)))[Len(s)]
  BY <1>1 DEF FlattenSeq, Flattens
<1> QED
  BY <1>3, <1>4

----------------------------------------------------------------------------
LEMMA FlattenEmpty == FlattenSeq(<<>>) = <<>>
BY DEF FlattenSeq

LEMMA FlattenType ==
  ASSUME NEW S, NEW s \in Seq(Seq(S))
  PROVE  FlattenSeq(s) \in Seq(S)
<1>1. CASE s = <<>>
  BY <1>1, FlattenEmpty, EmptySeq
<1>2. CASE s # <<>>
  <2>1. Len(s) \in 1..Len(s)
    BY <1>2
  <2> QED
    BY <1>2, <2>1, FlattenIs, FlattensType
<1> QED
  BY <1>1, <1>2

(* A sequence that is added comes last. *)
LEMMA FlattenAppend ==
  ASSUME NEW S, NEW s \in Seq(Seq(S)), NEW x \in Seq(S)
  PROVE  FlattenSeq(Append(s, x)) = FlattenSeq(s) \o x
<1>1. PICK t : t = Append(s, x)
  OBVIOUS
<1>2. /\ t \in Seq(Seq(S)) /\ t # <<>> /\ Len(t) = Len(s) + 1 /\ t[Len(s) + 1] = x
      /\ Len(s) \in Nat /\ \A i \in 1..Len(s) : t[i] = s[i]
  BY <1>1, AppendProperties
<1>3. PICK g : Flattens(g, t, Len(t)) /\ FlattenSeq(t) = g[Len(t)]
  BY <1>2, FlattenIs
<1>4. Len(s) + 1 \in 1..Len(t) /\ Len(s) + 1 - 1 = Len(s)
  BY <1>2
<1>5. CASE s = <<>>
  <2>1. Len(s) = 0
    BY <1>5
  <2>2. FlattenSeq(t) = x
    BY <1>2, <1>3, <1>4, <2>1, FlattensAt
  <2> QED
    BY <1>1, <1>5, <2>2, FlattenEmpty, ConcatEmptySeq
<1>6. CASE s # <<>>
  <2>1. PICK f : Flattens(f, s, Len(s)) /\ FlattenSeq(s) = f[Len(s)]
    BY <1>6, FlattenIs
  <2>2. Len(s) \in 1..Len(s) /\ Len(s) + 1 # 1 /\ Len(t) \in Nat /\ Len(s) <= Len(t)
    BY <1>2, <1>6
  <2>3. g[Len(s)] = f[Len(s)]
    <3>1. PICK n \in Nat, m \in Nat : n = Len(t) /\ m = Len(s) /\ m <= n /\ m \in 1..m
      BY <1>2, <2>2
    <3>2. Flattens(g, t, n) /\ Flattens(f, s, m) /\ Agree(t, s, m)
      BY <1>2, <1>3, <2>1, <3>1 DEF Agree
    <3>3. Agree(g, f, m)
      BY <3>1, <3>2, FlattensSame
    <3> QED
      BY <3>1, <3>3 DEF Agree
  <2>4. g[Len(s) + 1] = g[Len(s)] \o x
    <3>1. PICK i \in 1..Len(t) : i = Len(s) + 1
      BY <1>4
    <3>2. g[i] = IF i = 1 THEN t[i] ELSE g[i - 1] \o t[i]
      BY <1>3, FlattensAt
    <3>3. i # 1 /\ i - 1 = Len(s) /\ t[i] = x
      BY <1>2, <1>4, <2>2, <3>1
    <3> QED
      BY <3>1, <3>2, <3>3
  <2> QED
    BY <1>1, <1>2, <1>3, <2>1, <2>3, <2>4
<1> QED
  BY <1>5, <1>6

(* The first sequence comes first. *)
LEMMA FlattenHead ==
  ASSUME NEW S, NEW s \in Seq(Seq(S)), s # <<>>
  PROVE  FlattenSeq(s) = Head(s) \o FlattenSeq(Tail(s))
<1>1. PICK t : t = Tail(s)
  OBVIOUS
<1>2. PICK h : h = Head(s)
  OBVIOUS
<1>3. /\ t \in Seq(Seq(S)) /\ Len(s) \in Nat /\ Len(t) \in Nat /\ Len(s) = Len(t) + 1
      /\ h = s[1] /\ h \in Seq(S) /\ \A i \in 1..Len(t) : t[i] = s[i + 1]
  BY <1>1, <1>2
<1>4. PICK f : Flattens(f, s, Len(s)) /\ FlattenSeq(s) = f[Len(s)]
  BY FlattenIs
<1>5. CASE t = <<>>
  <2>1. Len(s) = 1
    BY <1>3, <1>5
  <2>2. FlattenSeq(s) = h
    BY <1>3, <1>4, <2>1, FlattensAt
  <2> QED
    BY <1>1, <1>2, <1>3, <1>5, <2>2, FlattenEmpty, ConcatEmptySeq
<1>6. CASE t # <<>>
  <2>1. PICK g : Flattens(g, t, Len(t)) /\ FlattenSeq(t) = g[Len(t)]
    BY <1>3, <1>6, FlattenIs
  <2>2. Len(t) \in 1..Len(t)
    BY <1>3, <1>6
  <2>3. f[Len(t) + 1] = h \o g[Len(t)]
    <3>1. Flattens(f, s, Len(s)) /\ Flattens(g, t, Len(t)) /\ Consists(s, h, t)
      BY <1>3, <1>4, <2>1 DEF Consists
    <3>2. Prefixed(f, h, g, Len(t))
      BY <1>3, <3>1, FlattensShift
    <3> QED
      BY <2>2, <3>2 DEF Prefixed
  <2> QED
    BY <1>1, <1>2, <1>3, <1>4, <2>1, <2>3
<1> QED
  BY <1>5, <1>6

----------------------------------------------------------------------------
(* What Only selects. *)

IfIn(x, S) == IF x \in S THEN <<x>> ELSE <<>>

LEMMA IfInType ==
  ASSUME NEW X, NEW x \in X, NEW S
  PROVE  IfIn(x, S) \in Seq(X \intersect S) /\ IfIn(x, S) \in Seq(X) /\ <<x>> \in Seq(X)
<1>1. CASE x \in S
  <2>1. x \in X \intersect S
    BY <1>1
  <2>2. <<x>> \in Seq(X \intersect S) /\ <<x>> \in Seq(X)
    BY <2>1
  <2> QED
    BY <1>1, <2>2 DEF IfIn
<1>2. CASE x \notin S
  BY <1>2, EmptySeq DEF IfIn
<1> QED
  BY <1>1, <1>2

(* Concatenation under a name of its own, which the provers do not look into. *)
Cat(a, b) == a \o b

LEMMA Regroup ==
  ASSUME NEW X, NEW a, NEW b, NEW c, a \in Seq(X), b \in Seq(X), c \in Seq(X)
  PROVE  Cat(Cat(a, b), c) = Cat(a, Cat(b, c))
<1>1. (a \o b) \o c = a \o (b \o c)
  BY ConcatAssociative
<1> QED
  BY <1>1 DEF Cat

LEMMA ConcatAppend ==
  ASSUME NEW X, NEW q \in Seq(X), NEW u \in Seq(X), NEW x \in X
  PROVE  /\ q \o Append(u, x) = Append(q \o u, x)
         /\ q \o u \in Seq(X) /\ Append(u, x) \in Seq(X)
<1>1. <<x>> \in Seq(X) /\ q \o u \in Seq(X) /\ Append(u, x) \in Seq(X)
  BY ConcatProperties, AppendProperties
<1>2. Append(q \o u, x) = Cat(Cat(q, u), <<x>>) /\ q \o Append(u, x) = Cat(q, Cat(u, <<x>>))
  <2>1. \A v \in Seq(X) : Append(v, x) = Cat(v, <<x>>)
    BY AppendIsConcat DEF Cat
  <2>2. Append(Cat(q, u), x) = Cat(Cat(q, u), <<x>>) /\ Append(u, x) = Cat(u, <<x>>)
    BY <1>1, <2>1 DEF Cat
  <2> QED
    BY <2>2 DEF Cat
<1>3. Cat(Cat(q, u), <<x>>) = Cat(q, Cat(u, <<x>>))
  <2>1. \A y \in Seq(X) : Cat(Cat(q, u), y) = Cat(q, Cat(u, y))
    BY Regroup
  <2> QED
    BY <1>1, <2>1
<1> QED
  BY <1>1, <1>2, <1>3

LEMMA OnlyIs == \A q, S : Only(q, S) = FlattenSeq([i \in DOMAIN q |-> IfIn(q[i], S)])
BY DEF Only, IfIn

LEMMA IfInsType ==
  ASSUME NEW X, NEW q \in Seq(X), NEW S
  PROVE  [i \in DOMAIN q |-> IfIn(q[i], S)] \in Seq(Seq(X \intersect S))
<1>1. \A i \in 1..Len(q) : IfIn(q[i], S) \in Seq(X \intersect S)
  <2> TAKE i \in 1..Len(q)
  <2>1. q[i] \in X
    BY ElementOfSeq
  <2> QED
    BY <2>1, IfInType
<1> QED
  BY <1>1, IsASeq

LEMMA OnlyType ==
  ASSUME NEW X, NEW q \in Seq(X), NEW S
  PROVE  Only(q, S) \in Seq(X \intersect S) /\ Only(q, S) \in Seq(X)
<1>1. Only(q, S) \in Seq(X \intersect S)
  BY IfInsType, FlattenType, OnlyIs
<1> QED
  BY <1>1, SeqMonotonic

LEMMA OnlyEmpty == \A S : Only(<<>>, S) = <<>>
<1> TAKE S
<1>1. [i \in DOMAIN <<>> |-> IfIn(<<>>[i], S)] = <<>>
  OBVIOUS
<1> QED
  BY <1>1, OnlyIs, FlattenEmpty

LEMMA OnlyAppend ==
  ASSUME NEW X, NEW q \in Seq(X), NEW x \in X, NEW S
  PROVE  Only(Append(q, x), S) = Only(q, S) \o IfIn(x, S)
<1> DEFINE p == [i \in DOMAIN q |-> IfIn(q[i], S)]
           r == Append(q, x)
<1>1. p \in Seq(Seq(X \intersect S)) /\ IfIn(x, S) \in Seq(X \intersect S)
  BY IfInsType, IfInType
<1>2. [i \in DOMAIN r |-> IfIn(r[i], S)] = Append(p, IfIn(x, S))
  <2>1. /\ r \in Seq(X) /\ Len(r) = Len(q) + 1 /\ Len(q) \in Nat
        /\ \A i \in 1..Len(q) : r[i] = q[i]
        /\ r[Len(q) + 1] = x
    BY AppendProperties
  <2>2. Len(p) = Len(q) /\ \A i \in 1..Len(q) : p[i] = IfIn(q[i], S)
    OBVIOUS
  <2> DEFINE u == [i \in DOMAIN r |-> IfIn(r[i], S)]
             v == Append(p, IfIn(x, S))
  <2>3. u \in Seq(Seq(X \intersect S)) /\ v \in Seq(Seq(X \intersect S))
    BY <1>1, <2>1, IfInsType, AppendProperties
  <2>4. Len(u) = Len(q) + 1 /\ \A i \in 1..(Len(q) + 1) : u[i] = IfIn(r[i], S)
    BY <2>1
  <2>5. Len(v) = Len(q) + 1 /\ v[Len(q) + 1] = IfIn(x, S) /\ \A i \in 1..Len(q) : v[i] = p[i]
    BY <1>1, <2>2, AppendProperties
  <2> HIDE DEF u, v, p, r
  <2>6. \A i \in 1..(Len(q) + 1) : u[i] = v[i]
    BY <2>1, <2>2, <2>4, <2>5
  <2>7. u = v
    BY <2>3, <2>4, <2>5, <2>6, SeqEqual
  <2> QED
    BY <2>7 DEF u, v, p, r
<1>3. FlattenSeq(Append(p, IfIn(x, S))) = FlattenSeq(p) \o IfIn(x, S)
  BY <1>1, FlattenAppend
<1> QED
  BY <1>2, <1>3, OnlyIs

LEMMA OnlyConcat ==
  ASSUME NEW X, NEW q \in Seq(X), NEW r \in Seq(X), NEW S
  PROVE  Only(q \o r, S) = Only(q, S) \o Only(r, S)
<1> DEFINE A == {u \in Seq(X) : Only(q \o u, S) = Only(q, S) \o Only(u, S)}
<1>1. <<>> \in A
  <2>1. q \o <<>> = q /\ Only(q, S) \o <<>> = Only(q, S) /\ <<>> \in Seq(X)
    BY OnlyType, ConcatEmptySeq, EmptySeq
  <2> QED
    BY <2>1, OnlyEmpty
<1>2. ASSUME NEW u \in Seq(X), NEW x \in X, u \in A PROVE Append(u, x) \in A
  <2>1. q \o Append(u, x) = Append(q \o u, x) /\ q \o u \in Seq(X) /\ Append(u, x) \in Seq(X)
    BY ConcatAppend
  <2>2. Only(q \o Append(u, x), S) = Only(q \o u, S) \o IfIn(x, S)
    <3>1. \A v \in Seq(X) : Only(Append(v, x), S) = Only(v, S) \o IfIn(x, S)
      BY OnlyAppend
    <3> QED
      BY <2>1, <3>1
  <2>3. Only(q \o u, S) = Only(q, S) \o Only(u, S)
    BY <1>2
  <2>4. Only(Append(u, x), S) = Only(u, S) \o IfIn(x, S)
    BY OnlyAppend
  <2>5. Only(q, S) \in Seq(X) /\ Only(u, S) \in Seq(X) /\ IfIn(x, S) \in Seq(X)
    BY OnlyType, IfInType
  <2>6. (Only(q, S) \o Only(u, S)) \o IfIn(x, S) = Only(q, S) \o (Only(u, S) \o IfIn(x, S))
    <3>1. Cat(Cat(Only(q, S), Only(u, S)), IfIn(x, S)) = Cat(Only(q, S), Cat(Only(u, S), IfIn(x, S)))
      BY <2>5, Regroup
    <3> QED
      BY <3>1 DEF Cat
  <2> QED
    BY <2>1, <2>2, <2>3, <2>4, <2>6
<1>3. Seq(X) \subseteq A
  <2> HIDE DEF A
  <2> QED
    BY <1>1, <1>2, SeqInduction
<1> QED
  BY <1>3

LEMMA ToSetConcat ==
  ASSUME NEW X, NEW a, NEW b, a \in Seq(X), b \in Seq(X)
  PROVE  ToSet(a \o b) = ToSet(a) \union ToSet(b)
<1>1. /\ Len(a \o b) = Len(a) + Len(b) /\ Len(a) \in Nat /\ Len(b) \in Nat
      /\ \A i \in 1..Len(a) : (a \o b)[i] = a[i]
      /\ \A i \in 1..Len(b) : (a \o b)[Len(a) + i] = b[i]
  OBVIOUS
<1>2. /\ ToSet(a) = {a[i] : i \in 1..Len(a)} /\ ToSet(b) = {b[i] : i \in 1..Len(b)}
      /\ ToSet(a \o b) = {(a \o b)[i] : i \in 1..(Len(a) + Len(b))}
  BY <1>1 DEF ToSet
<1>3. \A i \in 1..(Len(a) + Len(b)) : i \in 1..Len(a) \/ \E j \in 1..Len(b) : i = Len(a) + j
  <2> TAKE i \in 1..(Len(a) + Len(b))
  <2>1. i \notin 1..Len(a) => i - Len(a) \in 1..Len(b) /\ i = Len(a) + (i - Len(a))
    BY <1>1
  <2> QED
    BY <2>1
<1>4. /\ \A i \in 1..Len(a) : i \in 1..(Len(a) + Len(b))
      /\ \A i \in 1..Len(b) : Len(a) + i \in 1..(Len(a) + Len(b))
  BY <1>1
<1>5. ToSet(a \o b) \subseteq ToSet(a) \union ToSet(b)
  <2> SUFFICES ASSUME NEW i \in 1..(Len(a) + Len(b))
               PROVE  (a \o b)[i] \in ToSet(a) \union ToSet(b)
    BY <1>2
  <2>1. CASE i \in 1..Len(a)
    BY <1>1, <1>2, <2>1
  <2>2. CASE \E j \in 1..Len(b) : i = Len(a) + j
    BY <1>1, <1>2, <2>2
  <2> QED
    BY <1>3, <2>1, <2>2
<1>6. ToSet(a) \subseteq ToSet(a \o b) /\ ToSet(b) \subseteq ToSet(a \o b)
  <2>1. \A i \in 1..Len(a) : a[i] \in ToSet(a \o b)
    BY <1>1, <1>2, <1>4
  <2>2. \A i \in 1..Len(b) : b[i] \in ToSet(a \o b)
    BY <1>1, <1>2, <1>4
  <2> QED
    BY <1>2, <2>1, <2>2
<1> QED
  BY <1>5, <1>6

(* All of a sequence, or nothing of it. *)
LEMMA OnlyAll ==
  ASSUME NEW X, NEW q \in Seq(X), NEW S, X \subseteq S
  PROVE  Only(q, S) = q
<1> DEFINE A == {u \in Seq(X) : Only(u, S) = u}
<1>1. <<>> \in A
  BY OnlyEmpty, EmptySeq
<1>2. ASSUME NEW u \in Seq(X), NEW x \in X, u \in A PROVE Append(u, x) \in A
  <2>1. x \in S
    OBVIOUS
  <2>2. Only(Append(u, x), S) = Only(u, S) \o <<x>>
    BY <2>1, OnlyAppend DEF IfIn
  <2>3. Append(u, x) = u \o <<x>> /\ Append(u, x) \in Seq(X)
    BY AppendProperties, AppendIsConcat
  <2> QED
    BY <1>2, <2>2, <2>3
<1>3. Seq(X) \subseteq A
  <2> HIDE DEF A
  <2> QED
    BY <1>1, <1>2, SeqInduction
<1> QED
  BY <1>3

LEMMA OnlyNone ==
  ASSUME NEW X, NEW q \in Seq(X), NEW S, X \intersect S = {}
  PROVE  Only(q, S) = <<>>
<1> DEFINE A == {u \in Seq(X) : Only(u, S) = <<>>}
<1>1. <<>> \in A
  BY OnlyEmpty, EmptySeq
<1>2. ASSUME NEW u \in Seq(X), NEW x \in X, u \in A PROVE Append(u, x) \in A
  <2>1. IfIn(x, S) = <<>>
    BY DEF IfIn
  <2> QED
    BY <1>2, <2>1, OnlyAppend, AppendProperties, ConcatEmptySeq, EmptySeq
<1>3. Seq(X) \subseteq A
  <2> HIDE DEF A
  <2> QED
    BY <1>1, <1>2, SeqInduction
<1> QED
  BY <1>3

(* It depends on what the sequence has of S only. *)
LEMMA OnlySame ==
  ASSUME NEW X, NEW q \in Seq(X), NEW S, NEW T, X \intersect S = X \intersect T
  PROVE  Only(q, S) = Only(q, T)
<1> DEFINE A == {u \in Seq(X) : Only(u, S) = Only(u, T)}
<1>1. <<>> \in A
  BY OnlyEmpty, EmptySeq
<1>2. ASSUME NEW u \in Seq(X), NEW x \in X, u \in A PROVE Append(u, x) \in A
  <2>1. IfIn(x, S) = IfIn(x, T)
    BY DEF IfIn
  <2>2. /\ Only(Append(u, x), S) = Only(u, S) \o IfIn(x, S)
        /\ Only(Append(u, x), T) = Only(u, T) \o IfIn(x, T)
    BY OnlyAppend
  <2> QED
    BY <1>2, <2>1, <2>2, AppendProperties
<1>3. Seq(X) \subseteq A
  <2> HIDE DEF A
  <2> QED
    BY <1>1, <1>2, SeqInduction
<1> QED
  BY <1>3

LEMMA OnlyKeeps ==
  ASSUME NEW X, NEW q \in Seq(X), NEW S, NEW y \in S
  PROVE  y \in ToSet(q) => y \in ToSet(Only(q, S))
<1> DEFINE A == {u \in Seq(X) : y \in ToSet(u) => y \in ToSet(Only(u, S))}
<1>1. <<>> \in A
  BY EmptySeq DEF ToSet
<1>2. ASSUME NEW u \in Seq(X), NEW x \in X, u \in A PROVE Append(u, x) \in A
  <2>1. Only(Append(u, x), S) = Only(u, S) \o IfIn(x, S)
    BY OnlyAppend
  <2>2. Only(u, S) \in Seq(X) /\ IfIn(x, S) \in Seq(X) /\ <<x>> \in Seq(X)
    BY OnlyType, IfInType
  <2>3. ToSet(Append(u, x)) = ToSet(u) \union {x}
    BY AppendProperties DEF ToSet
  <2>4. ToSet(Only(u, S) \o IfIn(x, S)) = ToSet(Only(u, S)) \union ToSet(IfIn(x, S))
    BY <2>2, ToSetConcat
  <2>5. x = y => y \in ToSet(IfIn(x, S))
    BY DEF IfIn, ToSet
  <2> QED
    BY <1>2, <2>1, <2>3, <2>4, <2>5, AppendProperties
<1>3. Seq(X) \subseteq A
  <2> HIDE DEF A
  <2> QED
    BY <1>1, <1>2, SeqInduction
<1> QED
  BY <1>3

----------------------------------------------------------------------------
(* Prefixes. *)

LEMMA PrefixIs ==
  ASSUME NEW X, NEW a, NEW b, a \in Seq(X), b \in Seq(X)
  PROVE  IsPrefix(a, b) <=> Len(a) <= Len(b) /\ \A i \in 1..Len(a) : a[i] = b[i]
<1>1. Len(a) \in Nat /\ Len(b) \in Nat
  OBVIOUS
<1>2. ASSUME Len(a) <= Len(b)
      PROVE  SubSeq(a, 1, Len(a)) = SubSeq(b, 1, Len(a)) <=> \A i \in 1..Len(a) : a[i] = b[i]
  <2>1. /\ SubSeq(a, 1, Len(a)) = [i \in 1..Len(a) |-> a[i]]
        /\ SubSeq(b, 1, Len(a)) = [i \in 1..Len(a) |-> b[i]]
    BY <1>1, <1>2
  <2>2. \A i \in 1..Len(a) : /\ [j \in 1..Len(a) |-> a[j]][i] = a[i]
                             /\ [j \in 1..Len(a) |-> b[j]][i] = b[i]
    OBVIOUS
  <2> QED
    BY <2>1, <2>2
<1> QED
  BY <1>2 DEF IsPrefix

LEMMA PrefixTrans ==
  ASSUME NEW X, NEW a, NEW b, NEW c, a \in Seq(X), b \in Seq(X), c \in Seq(X),
         IsPrefix(a, b), IsPrefix(b, c)
  PROVE  IsPrefix(a, c)
<1>1. Len(a) <= Len(b) /\ \A i \in 1..Len(a) : a[i] = b[i]
  BY PrefixIs
<1>2. Len(b) <= Len(c) /\ \A i \in 1..Len(b) : b[i] = c[i]
  BY PrefixIs
<1>3. Len(a) \in Nat /\ Len(b) \in Nat /\ Len(c) \in Nat
  OBVIOUS
<1>4. Len(a) <= Len(c) /\ \A i \in 1..Len(a) : a[i] = c[i]
  BY <1>1, <1>2, <1>3
<1> QED
  BY <1>4, PrefixIs

LEMMA PrefixGrows ==
  ASSUME NEW X, NEW a, NEW b, NEW c, a \in Seq(X), b \in Seq(X), c \in Seq(X)
  PROVE  /\ IsPrefix(a, a) /\ IsPrefix(a, a \o c)
         /\ IsPrefix(a, b) => IsPrefix(a, b \o c)
<1>1. a \o c \in Seq(X) /\ b \o c \in Seq(X)
  OBVIOUS
<1>2. /\ Len(a \o c) = Len(a) + Len(c) /\ Len(b \o c) = Len(b) + Len(c)
      /\ Len(a) \in Nat /\ Len(b) \in Nat /\ Len(c) \in Nat
      /\ \A i \in 1..Len(a) : (a \o c)[i] = a[i]
      /\ \A i \in 1..Len(b) : (b \o c)[i] = b[i]
  OBVIOUS
<1>3. IsPrefix(a, a)
  BY <1>2, PrefixIs
<1>4. IsPrefix(a, a \o c)
  <2>1. Len(a) <= Len(a \o c) /\ \A i \in 1..Len(a) : a[i] = (a \o c)[i]
    BY <1>2
  <2> QED
    BY <1>1, <2>1, PrefixIs
<1>5. IsPrefix(a, b) => IsPrefix(a, b \o c)
  <2>1. ASSUME IsPrefix(a, b) PROVE IsPrefix(a, b \o c)
    <3>1. Len(a) <= Len(b) /\ \A i \in 1..Len(a) : a[i] = b[i]
      BY <2>1, PrefixIs
    <3>2. Len(a) <= Len(b \o c) /\ \A i \in 1..Len(a) : a[i] = (b \o c)[i]
      BY <1>2, <3>1
    <3> QED
      BY <1>1, <3>2, PrefixIs
  <2> QED
    BY <2>1
<1> QED
  BY <1>3, <1>4, <1>5

=============================================================================
