--------------------------- MODULE PortLogProofs ---------------------------
(***************************************************************************)
(* Proofs about PortLog: for every set of chunks and every number of days,  *)
(* bytes, notes and failed flushes.                                        *)
(***************************************************************************)
EXTENDS PortLog, FlattenProofs

(* The writers there are, and the files. *)
Disks == [Days -> Seq(Item)]
Writers == [cur : Days \union {Closed}, disk : Disks, buf : Seq(Item)]

(* Sequence s has byte n, at place i. *)
ByteAt(s, i, n) == s[i].kind = "byte" /\ s[i].n = n
In(s, n) == \E i \in 1..Len(s) : ByteAt(s, i, n)

(* Byte m is in a file of dk, before place i of day d's. *)
OnFile(dk, m) == \E d \in Days : In(dk[d], m)
Earlier(dk, d, i, m) ==
  \E e \in Days : \E j \in 1..Len(dk[e]) : (e < d \/ (e = d /\ j < i)) /\ ByteAt(dk[e], j, m)

(* Bytes come in order, but for those in L. *)
Whole(dk, L) ==
  \A d \in Days : \A i \in 1..Len(dk[d]) : dk[d][i].kind = "byte" =>
    \A m \in (1..(dk[d][i].n - 1)) \ L : Earlier(dk, d, i, m)

(* Nothing is written ahead of the date, what was lost does not come back. *)
Sound(dk, t, L) ==
  /\ \A d \in Days : d > t => dk[d] = <<>>
  /\ \A m \in L : ~OnFile(dk, m)
  /\ Whole(dk, L)

(* What the writer was given is on disk or in the buffer, there in order.  *)
Buffered(dk, b, H, L) ==
  /\ \A m \in (1..H) \ L : OnFile(dk, m) \/ In(b, m)
  /\ \A i \in 1..Len(b) : b[i].kind = "byte" =>
       /\ b[i].n \in (1..H) \ L
       /\ \A m \in (1..(b[i].n - 1)) \ L :
            OnFile(dk, m) \/ \E j \in 1..(i - 1) : ByteAt(b, j, m)

(* A line ends with s. *)
Ends(s) == s # <<>> /\ s[Len(s)].nl /\ s[Len(s)].kind # "header"

(* A line that begins in s begins with a stamp. *)
Fresh(s) ==
  \A i \in 2..Len(s) : s[i].kind = "byte" => ~(s[i - 1].nl /\ s[i - 1].kind # "header")

(* Headers are where they belong, and an open file has one. *)
Headed(w) ==
  /\ \A d \in Days : \A i \in 1..Len(w.disk[d]) : w.disk[d][i].kind = "header" <=> i = 1
  /\ \A i \in 1..Len(w.buf) : w.buf[i].kind # "header"
  /\ w.cur \in Days => w.disk[w.cur] # <<>>

(* Begun lines go on, and lines that begin are stamped: in the files, in   *)
(* the buffer, from the files to the buffer and from there to what comes.  *)
Stamped(w, t, bol) ==
  /\ \A d \in Days : Fresh(w.disk[d])
  /\ Fresh(w.buf)
  /\ w.buf # <<>> /\ w.buf[1].kind = "byte" => \A d \in Days : d >= t => ~Ends(w.disk[d])
  /\ ~bol => IF w.buf = <<>> THEN \A d \in Days : d >= t => ~Ends(w.disk[d])
                             ELSE ~Ends(w.buf)

(* All that holds of a writer w that is not quiet, on the date t, after H   *)
(* bytes of which L are lost, with a line begun unless bol, after f failed  *)
(* flushes and the lines X.                                                *)
Fine(w, t, H, L, bol, f, X) ==
  /\ Sound(w.disk, t, L) /\ Buffered(w.disk, w.buf, H, L)
  /\ f = 0 => /\ Headed(w) /\ (Stamps => Stamped(w, t, bol))
              /\ \A e \in X : In(w.disk[e.day], e.n)

(* The inductive invariant. *)
LogInv ==
  /\ TypeOK
  /\ Sound(disk, day, lost)
  /\ err => faults # 0
  /\ ~err => Fine(Writer, day, handed, lost, atBOL, faults, ended)

(* Day t's file grows by s. *)
Put(dk, t, s) == [dk EXCEPT ![t] = @ \o s]

----------------------------------------------------------------------------
(* Files that grow. *)

LEMMA PutIs ==
  ASSUME NEW dk \in Disks, NEW t \in Days, NEW s \in Seq(Item)
  PROVE  /\ Put(dk, t, s) \in Disks
         /\ Put(dk, t, s)[t] = dk[t] \o s
         /\ \A d \in Days \ {t} : Put(dk, t, s)[d] = dk[d]
<1>1. dk[t] \in Seq(Item)
  BY DEF Disks
<1>2. dk[t] \o s \in Seq(Item)
  BY <1>1, ConcatProperties
<1> QED
  BY <1>2 DEF Put, Disks

(* What was at a place stays there. *)
LEMMA PutKeeps ==
  ASSUME NEW dk \in Disks, NEW t \in Days, NEW s \in Seq(Item), NEW d \in Days
  PROVE  /\ Len(dk[d]) \in Nat /\ Len(Put(dk, t, s)[d]) \in Nat
         /\ Len(dk[d]) <= Len(Put(dk, t, s)[d])
         /\ \A i \in 1..Len(dk[d]) : Put(dk, t, s)[d][i] = dk[d][i]
<1>1. dk[d] \in Seq(Item) /\ Len(dk[d]) \in Nat /\ Len(s) \in Nat
  BY DEF Disks
<1>2. PICK u \in Seq(Item) : u = dk[d]
  BY <1>1
<1>3. CASE d = t
  <2>1. /\ Len(u \o s) = Len(u) + Len(s) /\ Len(u) \in Nat
        /\ \A i \in 1..(Len(u) + Len(s)) : (u \o s)[i] = IF i <= Len(u) THEN u[i] ELSE s[i - Len(u)]
    BY ConcatProperties
  <2>2. /\ Len(u \o s) \in Nat /\ Len(u) <= Len(u \o s)
        /\ \A i \in 1..Len(u) : (u \o s)[i] = u[i]
    BY <1>1, <2>1
  <2>3. Put(dk, t, s)[d] = u \o s
    BY <1>2, <1>3, PutIs
  <2> QED
    BY <1>1, <1>2, <2>2, <2>3
<1>4. CASE d # t
  <2>1. Put(dk, t, s)[d] = u
    BY <1>2, <1>4, PutIs
  <2>2. Len(u) <= Len(u)
    BY <1>1, <1>2
  <2> QED
    BY <1>1, <1>2, <2>1, <2>2
<1> QED
  BY <1>3, <1>4

(* What is added comes after it. *)
LEMMA PutAdds ==
  ASSUME NEW dk \in Disks, NEW t \in Days, NEW s \in Seq(Item)
  PROVE  /\ Len(Put(dk, t, s)[t]) = Len(dk[t]) + Len(s)
         /\ Len(dk[t]) \in Nat /\ Len(s) \in Nat
         /\ \A i \in 1..Len(s) : Put(dk, t, s)[t][Len(dk[t]) + i] = s[i]
         /\ \A i \in 1..Len(Put(dk, t, s)[t]) : i > Len(dk[t]) =>
              i - Len(dk[t]) \in 1..Len(s) /\ Put(dk, t, s)[t][i] = s[i - Len(dk[t])]
<1>1. PICK u \in Seq(Item) : u = dk[t]
  BY DEF Disks
<1>2. /\ Len(u \o s) = Len(u) + Len(s)
      /\ \A i \in 1..(Len(u) + Len(s)) : (u \o s)[i] = IF i <= Len(u) THEN u[i] ELSE s[i - Len(u)]
  BY <1>1, ConcatProperties
<1>3. Put(dk, t, s)[t] = u \o s
  BY <1>1, PutIs
<1>4. Len(u) \in Nat /\ Len(s) \in Nat
  BY <1>1
<1>5. \A i \in 1..Len(s) : (u \o s)[Len(u) + i] = s[i]
  BY <1>2, <1>4
<1>6. \A i \in 1..Len(u \o s) : i > Len(u) =>
        i - Len(u) \in 1..Len(s) /\ (u \o s)[i] = s[i - Len(u)]
  BY <1>2, <1>4
<1> QED
  BY <1>1, <1>2, <1>3, <1>4, <1>5, <1>6

LEMMA PutAt ==
  ASSUME NEW dk \in Disks, NEW t \in Days, NEW s \in Seq(Item),
         NEW i \in 1..Len(Put(dk, t, s)[t]), i > Len(dk[t])
  PROVE  \E k \in 1..Len(s) : i = Len(dk[t]) + k /\ Put(dk, t, s)[t][i] = s[k]
<1>1. PICK k : k = i - Len(dk[t])
  OBVIOUS
<1>2. k \in 1..Len(s) /\ Put(dk, t, s)[t][i] = s[k]
  BY <1>1, PutAdds
<1>3. Len(dk[t]) \in Nat /\ i \in Int
  BY PutAdds
<1>4. i = Len(dk[t]) + k
  BY <1>1, <1>3
<1> QED
  BY <1>2, <1>4

LEMMA PutOnFile ==
  ASSUME NEW dk \in Disks, NEW t \in Days, NEW s \in Seq(Item), NEW m
  PROVE  OnFile(Put(dk, t, s), m) <=> OnFile(dk, m) \/ In(s, m)
<1>1. ASSUME OnFile(dk, m) PROVE OnFile(Put(dk, t, s), m)
  <2>1. PICK d, i : d \in Days /\ i \in 1..Len(dk[d]) /\ ByteAt(dk[d], i, m)
    BY <1>1 DEF OnFile, In
  <2>2. i \in 1..Len(Put(dk, t, s)[d]) /\ Put(dk, t, s)[d][i] = dk[d][i]
    BY <2>1, PutKeeps
  <2> QED
    BY <2>1, <2>2 DEF OnFile, In, ByteAt
<1>2. ASSUME In(s, m) PROVE OnFile(Put(dk, t, s), m)
  <2>1. PICK i \in 1..Len(s) : ByteAt(s, i, m)
    BY <1>2 DEF In
  <2>2. PICK j : j = Len(dk[t]) + i
    OBVIOUS
  <2>3. j \in 1..Len(Put(dk, t, s)[t]) /\ Put(dk, t, s)[t][j] = s[i]
    BY <2>2, PutAdds
  <2> QED
    BY <2>1, <2>3 DEF OnFile, In, ByteAt
<1>3. ASSUME OnFile(Put(dk, t, s), m) PROVE OnFile(dk, m) \/ In(s, m)
  <2>1. PICK d, i : d \in Days /\ i \in 1..Len(Put(dk, t, s)[d]) /\ ByteAt(Put(dk, t, s)[d], i, m)
    BY <1>3 DEF OnFile, In
  <2>2. CASE d # t
    <3>1. Put(dk, t, s)[d] = dk[d]
      BY <2>1, <2>2, PutIs
    <3> QED
      BY <2>1, <3>1 DEF OnFile, In
  <2>3. CASE d = t /\ i <= Len(dk[t])
    <3>1. i \in 1..Len(dk[t]) /\ Put(dk, t, s)[t][i] = dk[t][i]
      BY <2>1, <2>3, PutKeeps
    <3> QED
      BY <2>1, <2>3, <3>1 DEF OnFile, In, ByteAt
  <2>4. CASE d = t /\ ~(i <= Len(dk[t]))
    <3>1. i > Len(dk[t])
      BY <2>1, <2>4, PutKeeps
    <3>2. PICK j \in 1..Len(s) : j = i - Len(dk[t]) /\ Put(dk, t, s)[t][i] = s[j]
      BY <2>1, <2>4, <3>1, PutAdds
    <3> QED
      BY <2>1, <2>4, <3>2 DEF In, ByteAt
  <2> QED
    BY <2>2, <2>3, <2>4
<1> QED
  BY <1>1, <1>2, <1>3

(* s goes on with what is in the files: no byte of it was lost, and before  *)
(* each come all earlier ones that were not.                               *)
GoesOn(dk, s, L) ==
  \A i \in 1..Len(s) : s[i].kind = "byte" =>
    /\ s[i].n \notin L
    /\ \A m \in (1..(s[i].n - 1)) \ L : OnFile(dk, m) \/ \E j \in 1..(i - 1) : ByteAt(s, j, m)

LEMMA PutSound ==
  ASSUME NEW dk \in Disks, NEW t0 \in Days, NEW t \in Days, t0 <= t, NEW s \in Seq(Item),
         NEW L, Sound(dk, t0, L), GoesOn(dk, s, L)
  PROVE  Sound(Put(dk, t, s), t, L)
<1> DEFINE dq == Put(dk, t, s)
<1>0. t0 \in Int /\ t \in Int /\ \A d \in Days : d \in Int
  BY PortLogAssumption DEF Days
<1>1. \A d \in Days : d > t => dq[d] = <<>>
  <2> TAKE d \in Days
  <2>1. ASSUME d > t PROVE dq[d] = <<>>
    <3>1. d # t /\ d > t0
      BY <1>0, <2>1
    <3>2. dk[d] = <<>>
      BY <3>1 DEF Sound
    <3>3. dq[d] = dk[d]
      BY <3>1, PutIs
    <3> QED
      BY <3>2, <3>3
  <2> QED
    BY <2>1
<1>2. \A m \in L : ~OnFile(dq, m)
  <2> SUFFICES ASSUME NEW m \in L, In(s, m) PROVE FALSE
    BY PutOnFile DEF Sound
  <2>1. PICK i \in 1..Len(s) : s[i].kind = "byte" /\ s[i].n = m
    BY DEF In, ByteAt
  <2> QED
    BY <2>1 DEF GoesOn
<1>3. ASSUME NEW d \in Days, NEW i, NEW m, Earlier(dk, d, i, m) PROVE Earlier(dq, d, i, m)
  <2>1. PICK e, j : e \in Days /\ j \in 1..Len(dk[e]) /\ (e < d \/ (e = d /\ j < i)) /\ ByteAt(dk[e], j, m)
    BY <1>3 DEF Earlier
  <2>2. j \in 1..Len(dq[e]) /\ dq[e][j] = dk[e][j]
    BY <2>1, PutKeeps
  <2> QED
    BY <2>1, <2>2 DEF Earlier, ByteAt
<1>4. ASSUME NEW d \in Days, NEW i, i \in 1..Len(dq[d]), dq[d][i].kind = "byte",
             NEW m, m \in (1..(dq[d][i].n - 1)) \ L
      PROVE  Earlier(dq, d, i, m)
  <2>1. CASE d # t \/ i <= Len(dk[t])
    <3>1. i \in 1..Len(dk[d]) /\ dq[d][i] = dk[d][i]
      <4>1. CASE d # t
        BY <1>4, <4>1, PutIs
      <4>2. CASE d = t
        BY <1>4, <2>1, <4>2, PutKeeps
      <4> QED
        BY <4>1, <4>2
    <3>2. Earlier(dk, d, i, m)
      BY <1>4, <3>1 DEF Sound, Whole
    <3> QED
      BY <1>3, <3>2
  <2>2. CASE d = t /\ i > Len(dk[t])
    <3>0. i \in 1..Len(dq[t]) /\ i > Len(dk[t])
      BY <1>4, <2>2
    <3>1. PICK k \in 1..Len(s) : i = Len(dk[t]) + k /\ dq[t][i] = s[k]
      BY <3>0, PutAt
    <3>2. OnFile(dk, m) \/ \E j \in 1..(k - 1) : ByteAt(s, j, m)
      BY <1>4, <2>2, <3>1 DEF GoesOn
    <3>3. ASSUME OnFile(dk, m) PROVE Earlier(dq, d, i, m)
      <4>1. PICK e, j : e \in Days /\ j \in 1..Len(dk[e]) /\ ByteAt(dk[e], j, m)
        BY <3>3 DEF OnFile, In
      <4>2. dk[e] # <<>>
        <5>1. Len(dk[e]) # 0
          BY <4>1, PutKeeps
        <5> QED
          BY <5>1
      <4>3. ~(e > t0)
        BY <4>1, <4>2 DEF Sound
      <4>4. e < t \/ (e = t /\ j < i)
        <5>1. e <= t
          BY <1>0, <4>1, <4>3
        <5>2. e = t => j < i
          BY <3>0, <4>1, PutKeeps, PutAdds
        <5> QED
          BY <1>0, <4>1, <5>1, <5>2
      <4>5. j \in 1..Len(dq[e]) /\ dq[e][j] = dk[e][j]
        BY <4>1, PutKeeps
      <4> QED
        BY <2>2, <4>1, <4>4, <4>5 DEF Earlier, ByteAt
    <3>4. ASSUME NEW j \in 1..(k - 1), ByteAt(s, j, m) PROVE Earlier(dq, d, i, m)
      <4>1. PICK p : p = Len(dk[t]) + j
        OBVIOUS
      <4>2. p \in 1..Len(dq[t]) /\ dq[t][p] = s[j] /\ p < i
        <5>1. Len(dk[t]) \in Nat /\ Len(s) \in Nat /\ Len(dq[t]) = Len(dk[t]) + Len(s)
          BY PutAdds
        <5>2. j \in 1..Len(s) /\ j < k
          BY <5>1
        <5>3. p \in 1..Len(dq[t]) /\ p < i
          <6>1. PICK a \in Nat, b \in Nat : a = Len(dk[t]) /\ b = Len(s)
            BY <5>1
          <6>2. p = a + j /\ i = a + k /\ j \in 1..b /\ k \in Int /\ j < k
            BY <3>1, <4>1, <5>2, <6>1
          <6>3. p \in 1..(a + b) /\ p < i
            BY <6>1, <6>2
          <6> QED
            BY <5>1, <6>1, <6>3
        <5>4. dq[t][p] = s[j]
          BY <4>1, <5>2, PutAdds
        <5> QED
          BY <5>3, <5>4
      <4> QED
        BY <2>2, <3>4, <4>2 DEF Earlier, ByteAt
    <3> QED
      BY <3>2, <3>3, <3>4
  <2> QED
    BY <1>4, <2>1, <2>2, PutKeeps
<1>5. Whole(dq, L)
  BY <1>4 DEF Whole
<1> QED
  BY <1>1, <1>2, <1>5 DEF Sound

----------------------------------------------------------------------------
(* What a flush comes to. *)

LEMMA SpecialItems ==
  /\ Header \in Item /\ Torn \in Item
  /\ <<Header>> \in Seq(Item) /\ <<Torn>> \in Seq(Item)
<1>1. 0 \in Days
  BY PortLogAssumption DEF Days
<1>2. Header \in Item /\ Torn \in Item
  BY <1>1 DEF Header, Torn, Item
<1> QED
  BY <1>2

(* The file of the call's date is open and has a header if it is new. *)
LEMMA EnsuredIs ==
  ASSUME NEW w \in Writers, NEW t \in Days
  PROVE  /\ Ensured(w, t).cur = t
         /\ IF w.cur # t /\ w.disk[t] = <<>>
              THEN Ensured(w, t).disk = Put(w.disk, t, <<Header>>)
              ELSE Ensured(w, t).disk = w.disk
         /\ Ensured(w, t).disk \in Disks
         /\ Ensured(w, t) \in [cur : Days, disk : Disks]
<1>0. w.disk \in Disks
  BY DEF Writers
<1>1. Put(w.disk, t, <<Header>>) \in Disks
  BY <1>0, SpecialItems, PutIs
<1>2. ASSUME w.disk[t] = <<>>
      PROVE  [w.disk EXCEPT ![t] = <<Header>>] = Put(w.disk, t, <<Header>>)
  <2>1. <<>> \o <<Header>> = <<Header>>
    BY SpecialItems, ConcatEmptySeq
  <2>2. Put(w.disk, t, <<Header>>) = [w.disk EXCEPT ![t] = w.disk[t] \o <<Header>>]
    BY <1>0 DEF Put, Disks
  <2> QED
    BY <1>2, <2>1, <2>2
<1> QED
  BY <1>0, <1>1, <1>2 DEF Ensured

LEMMA EnsuredAt ==
  ASSUME NEW w \in Writers, NEW t \in Days
  PROVE  /\ \A d \in Days \ {t} : Ensured(w, t).disk[d] = w.disk[d]
         /\ \/ w.cur # t /\ w.disk[t] = <<>> /\ Ensured(w, t).disk[t] = <<Header>>
            \/ (w.cur = t \/ w.disk[t] # <<>>) /\ Ensured(w, t).disk[t] = w.disk[t]
<1>1. PICK dk \in Disks : dk = w.disk
  BY DEF Writers
<1>2. dk \in [Days -> Seq(Item)]
  BY DEF Disks
<1>3. CASE w.cur # t /\ dk[t] = <<>>
  <2>1. Ensured(w, t).disk = [dk EXCEPT ![t] = <<Header>>]
    BY <1>1, <1>3 DEF Ensured
  <2>2. /\ \A d \in Days \ {t} : [dk EXCEPT ![t] = <<Header>>][d] = dk[d]
        /\ [dk EXCEPT ![t] = <<Header>>][t] = <<Header>>
    BY <1>2
  <2> QED
    BY <1>1, <1>3, <2>1, <2>2
<1>4. CASE ~(w.cur # t /\ dk[t] = <<>>)
  <2>1. Ensured(w, t).disk = dk
    BY <1>1, <1>4 DEF Ensured
  <2> QED
    BY <1>1, <1>4, <2>1
<1> QED
  BY <1>3, <1>4

LEMMA WrittenIs ==
  ASSUME NEW w \in Writers, NEW t \in Days, NEW s \in Seq(Item)
  PROVE  /\ Written(w, t, s).cur = t
         /\ Written(w, t, s).disk = Put(Ensured(w, t).disk, t, s)
         /\ Put(Ensured(w, t).disk, t, s) \in Disks
<1>1. PICK e \in [cur : Days, disk : Disks] : e = Ensured(w, t) /\ e.cur = t
  BY EnsuredIs
<1>2. Written(w, t, s) = [e EXCEPT !.disk = [e.disk EXCEPT ![t] = @ \o s]]
  BY <1>1 DEF Written
<1>3. e.disk \in Disks /\ Put(e.disk, t, s) \in Disks
  BY <1>1, PutIs
<1> QED
  BY <1>1, <1>2, <1>3 DEF Put

(* The buffer is in the day's file, after what was there. *)
Succeeds(w, t, r) ==
  r.to = [cur |-> t, disk |-> Put(Ensured(w, t).disk, t, w.buf), buf |-> <<>>]

(* No file is open or the day's, and it holds what it held, a torn header   *)
(* if it was empty, or in addition the beginning of the buffer.            *)
FailsWith(w, t, r) ==
  /\ r.to.buf = w.buf /\ r.to.cur \in {t, Closed}
  /\ \/ r.to.disk = w.disk
     \/ w.disk[t] = <<>> /\ r.to.disk = Put(w.disk, t, <<Torn>>)
     \/ \E k \in 0..(Len(w.buf) - 1) :
          r.to.disk = Put(Ensured(w, t).disk, t, SubSeq(w.buf, 1, k))

LEMMA OutcomeIs ==
  ASSUME NEW w \in Writers, NEW t \in Days, NEW r \in Outcomes(w, t)
  PROVE  /\ r.to \in Writers
         /\ \/ r.ok = TRUE /\ Succeeds(w, t, r)
            \/ r.ok = FALSE /\ faults < MaxFaults /\ FailsWith(w, t, r)
<1>0. /\ w.disk \in Disks /\ w.buf \in Seq(Item) /\ w.cur \in Days \union {Closed}
      /\ <<>> \in Seq(Item)
  BY DEF Writers
<1>1. CASE r = [to |-> Flushed(w, t), ok |-> TRUE]
  <2>1. Flushed(w, t) = [cur |-> t, disk |-> Put(Ensured(w, t).disk, t, w.buf), buf |-> <<>>]
    BY <1>0, WrittenIs DEF Flushed
  <2>2. Put(Ensured(w, t).disk, t, w.buf) \in Disks
    BY <1>0, WrittenIs
  <2>3. r.to = [cur |-> t, disk |-> Put(Ensured(w, t).disk, t, w.buf), buf |-> <<>>]
        /\ r.ok = TRUE
    BY <1>1, <2>1
  <2>4. r.to \in Writers
    BY <1>0, <2>2, <2>3 DEF Writers
  <2> QED
    BY <2>3, <2>4 DEF Succeeds
<1>2. ASSUME NEW x \in OpenFailures(w, t), r = [to |-> x, ok |-> FALSE], faults < MaxFaults
      PROVE  r.to \in Writers /\ r.ok = FALSE /\ FailsWith(w, t, r)
  <2>1. r.to = x /\ r.ok = FALSE
    BY <1>2
  <2>2. PICK y : /\ x = [cur |-> Closed, disk |-> y, buf |-> w.buf]
                 /\ y = w.disk \/ (w.disk[t] = <<>> /\ y = [w.disk EXCEPT ![t] = <<Torn>>])
    BY <1>2 DEF OpenFailures
  <2>3. ASSUME w.disk[t] = <<>>
        PROVE  [w.disk EXCEPT ![t] = <<Torn>>] = Put(w.disk, t, <<Torn>>)
    <3>1. <<>> \o <<Torn>> = <<Torn>>
      BY SpecialItems, ConcatEmptySeq
    <3>2. Put(w.disk, t, <<Torn>>) = [w.disk EXCEPT ![t] = w.disk[t] \o <<Torn>>]
      BY <1>0 DEF Put, Disks
    <3> QED
      BY <2>3, <3>1, <3>2
  <2>4. y = w.disk \/ (w.disk[t] = <<>> /\ y = Put(w.disk, t, <<Torn>>))
    BY <2>2, <2>3
  <2>5. y \in Disks
    BY <1>0, <2>4, SpecialItems, PutIs
  <2>6. x.cur = Closed /\ x.disk = y /\ x.buf = w.buf
    BY <2>2
  <2>7. x \in Writers
    BY <1>0, <2>2, <2>5 DEF Writers
  <2> QED
    BY <2>1, <2>4, <2>6, <2>7 DEF FailsWith
<1>3. ASSUME NEW x \in WriteFailures(w, t), r = [to |-> x, ok |-> FALSE], faults < MaxFaults
      PROVE  r.to \in Writers /\ r.ok = FALSE /\ FailsWith(w, t, r)
  <2>1. r.to = x /\ r.ok = FALSE
    BY <1>3
  <2>2. PICK k \in 0..(Len(w.buf) - 1) :
          x = [cur |-> Written(w, t, <<>>).cur, disk |-> Written(w, t, SubSeq(w.buf, 1, k)).disk,
               buf |-> w.buf]
    BY <1>3 DEF WriteFailures
  <2>3. SubSeq(w.buf, 1, k) \in Seq(Item)
    <3>1. \A i \in 1..k : w.buf[i] \in Item
      BY <1>0
    <3> QED
      BY <3>1, SubSeqProperties
  <2>4. /\ x.cur = t /\ x.buf = w.buf
        /\ x.disk = Put(Ensured(w, t).disk, t, SubSeq(w.buf, 1, k)) /\ x.disk \in Disks
    <3>1. PICK b \in Seq(Item) : b = SubSeq(w.buf, 1, k)
      BY <2>3
    <3>2. /\ Written(w, t, b).disk = Put(Ensured(w, t).disk, t, b)
          /\ Put(Ensured(w, t).disk, t, b) \in Disks
      BY WrittenIs
    <3>3. Written(w, t, <<>>).cur = t
      BY <1>0, WrittenIs
    <3>4. x = [cur |-> t, disk |-> Written(w, t, b).disk, buf |-> w.buf]
      BY <2>2, <3>1, <3>3
    <3> QED
      BY <3>1, <3>2, <3>4
  <2>5. x \in Writers
    BY <1>0, <2>2, <2>4 DEF Writers
  <2> QED
    BY <2>1, <2>4, <2>5 DEF FailsWith
<1>4. \/ r = [to |-> Flushed(w, t), ok |-> TRUE]
      \/ faults < MaxFaults /\ \E x \in OpenFailures(w, t) \union WriteFailures(w, t) :
                                 r = [to |-> x, ok |-> FALSE]
  BY DEF Outcomes
<1> QED
  BY <1>1, <1>2, <1>3, <1>4

----------------------------------------------------------------------------
(* The order of the bytes. *)

LEMMA LaterSound ==
  ASSUME NEW dk, NEW t0 \in Days, NEW t \in Days, t0 <= t, NEW L, Sound(dk, t0, L)
  PROVE  Sound(dk, t, L)
<1>1. t0 \in Int /\ t \in Int /\ \A d \in Days : d \in Int
  BY PortLogAssumption DEF Days
<1>2. \A d \in Days : d > t => d > t0
  BY <1>1
<1> QED
  BY <1>2 DEF Sound

LEMMA BufferedOn ==
  ASSUME NEW dk \in Disks, NEW t \in Days, NEW s \in Seq(Item), NEW b, NEW H, NEW L,
         Buffered(dk, b, H, L)
  PROVE  Buffered(Put(dk, t, s), b, H, L)
<1>1. \A m : OnFile(dk, m) => OnFile(Put(dk, t, s), m)
  BY PutOnFile
<1> QED
  BY <1>1 DEF Buffered

(* An item that is no byte is no matter. *)
LEMMA SpecialSound ==
  ASSUME NEW dk \in Disks, NEW t \in Days, NEW x \in {Header, Torn}, NEW L, Sound(dk, t, L)
  PROVE  Sound(Put(dk, t, <<x>>), t, L)
<1>1. <<x>> \in Seq(Item) /\ Len(<<x>>) = 1 /\ <<x>>[1] = x
  BY SpecialItems
<1>2. x.kind # "byte"
  BY DEF Header, Torn
<1>3. GoesOn(dk, <<x>>, L)
  <2>1. PICK s : s = <<x>>
    OBVIOUS
  <2>2. \A i \in 1..Len(s) : s[i].kind # "byte"
    BY <1>1, <1>2, <2>1
  <2>3. GoesOn(dk, s, L)
    BY <2>2 DEF GoesOn
  <2> QED
    BY <2>1, <2>3
<1>4. t <= t
  BY PortLogAssumption DEF Days
<1> QED
  BY <1>1, <1>3, <1>4, PutSound

(* What has to follow is what is buffered, or a beginning of it. *)
LEMMA BufferGoesOn ==
  ASSUME NEW dk, NEW b \in Seq(Item), NEW k \in 0..Len(b), NEW H, NEW L, Buffered(dk, b, H, L)
  PROVE  /\ SubSeq(b, 1, k) \in Seq(Item)
         /\ GoesOn(dk, SubSeq(b, 1, k), L)
<1>1. k \in Nat /\ Len(b) \in Nat /\ \A i \in 1..k : i \in 1..Len(b) /\ b[i] \in Item
  OBVIOUS
<1>2. PICK s : s = SubSeq(b, 1, k)
  OBVIOUS
<1>3. s \in Seq(Item) /\ Len(s) = k /\ \A i \in 1..k : s[i] = b[i]
  <2>1. /\ s \in Seq(Item) /\ Len(s) = (IF 1 <= k THEN k - 1 + 1 ELSE 0)
        /\ \A i \in 1..(k - 1 + 1) : s[i] = b[1 + i - 1]
    BY <1>1, <1>2, SubSeqProperties
  <2> QED
    BY <1>1, <2>1
<1>4. ASSUME NEW i, i \in 1..Len(s), s[i].kind = "byte"
      PROVE  /\ s[i].n \notin L
             /\ \A m \in (1..(s[i].n - 1)) \ L :
                  OnFile(dk, m) \/ \E j \in 1..(i - 1) : ByteAt(s, j, m)
  <2>1. i \in 1..Len(b) /\ s[i] = b[i]
    BY <1>1, <1>3, <1>4
  <2>2. /\ b[i].n \in (1..H) \ L
        /\ \A m \in (1..(b[i].n - 1)) \ L :
             OnFile(dk, m) \/ \E j \in 1..(i - 1) : ByteAt(b, j, m)
    BY <1>4, <2>1 DEF Buffered
  <2>3. \A j \in 1..(i - 1) : s[j] = b[j]
    BY <1>1, <1>3, <1>4
  <2>4. \A m : \A j \in 1..(i - 1) : ByteAt(b, j, m) => ByteAt(s, j, m)
    BY <2>3 DEF ByteAt
  <2> QED
    BY <2>1, <2>2, <2>4
<1>5. GoesOn(dk, s, L)
  BY <1>4 DEF GoesOn
<1> QED
  BY <1>2, <1>3, <1>5

(* A flush keeps the files sound, and what it does not write stays buffered. *)
LEMMA OutcomeSound ==
  ASSUME NEW w \in Writers, NEW t0 \in Days, NEW t \in Days, t0 <= t, NEW r \in Outcomes(w, t),
         NEW L, NEW H, Sound(w.disk, t0, L), Buffered(w.disk, w.buf, H, L)
  PROVE  Sound(r.to.disk, t, L) /\ Buffered(r.to.disk, r.to.buf, H, L)
<1>0. w.disk \in Disks /\ w.buf \in Seq(Item)
  BY DEF Writers
<1>1. Sound(w.disk, t, L)
  BY LaterSound
<1>2. PICK dk \in Disks : dk = Ensured(w, t).disk
  BY EnsuredIs
<1>3. Sound(dk, t, L) /\ Buffered(dk, w.buf, H, L)
  <2>1. CASE dk = w.disk
    BY <1>1, <2>1
  <2>2. CASE dk = Put(w.disk, t, <<Header>>)
    <3>1. Sound(dk, t, L)
      BY <1>0, <1>1, <2>2, SpecialSound
    <3>2. Buffered(dk, w.buf, H, L)
      BY <1>0, <2>2, SpecialItems, BufferedOn
    <3> QED
      BY <3>1, <3>2
  <2> QED
    BY <1>2, <2>1, <2>2, EnsuredIs
<1>4. ASSUME NEW k \in 0..Len(w.buf)
      PROVE  /\ Sound(Put(dk, t, SubSeq(w.buf, 1, k)), t, L)
             /\ Buffered(Put(dk, t, SubSeq(w.buf, 1, k)), w.buf, H, L)
  <2>1. PICK s \in Seq(Item) : s = SubSeq(w.buf, 1, k) /\ GoesOn(dk, s, L)
    BY <1>0, <1>3, BufferGoesOn
  <2>2. t <= t
    BY PortLogAssumption DEF Days
  <2>3. Sound(Put(dk, t, s), t, L)
    BY <1>3, <2>1, <2>2, PutSound
  <2>4. Buffered(Put(dk, t, s), w.buf, H, L)
    BY <1>3, BufferedOn
  <2> QED
    BY <2>1, <2>3, <2>4
<1>5. CASE Succeeds(w, t, r)
  <2>1. r.to.disk = Put(dk, t, w.buf) /\ r.to.buf = <<>>
    BY <1>2, <1>5 DEF Succeeds
  <2>2. SubSeq(w.buf, 1, Len(w.buf)) = w.buf /\ Len(w.buf) \in 0..Len(w.buf)
    BY <1>0, SubSeqFull
  <2>3. Sound(r.to.disk, t, L)
    BY <1>4, <2>1, <2>2
  <2>4. \A m \in (1..H) \ L : OnFile(r.to.disk, m)
    BY <1>0, <1>3, <2>1, PutOnFile DEF Buffered
  <2>5. Len(<<>>) = 0 /\ 1..0 = {}
    OBVIOUS
  <2>6. Buffered(r.to.disk, <<>>, H, L)
    BY <2>4, <2>5 DEF Buffered
  <2> QED
    BY <2>1, <2>3, <2>6
<1>6. CASE FailsWith(w, t, r)
  <2>1. r.to.buf = w.buf
    BY <1>6 DEF FailsWith
  <2>2. CASE r.to.disk = w.disk
    BY <1>1, <2>1, <2>2
  <2>3. CASE r.to.disk = Put(w.disk, t, <<Torn>>)
    <3>1. Sound(r.to.disk, t, L)
      BY <1>0, <1>1, <2>3, SpecialSound
    <3>2. Buffered(r.to.disk, w.buf, H, L)
      BY <1>0, <2>3, SpecialItems, BufferedOn
    <3> QED
      BY <2>1, <3>1, <3>2
  <2>4. ASSUME NEW k \in 0..(Len(w.buf) - 1),
               r.to.disk = Put(Ensured(w, t).disk, t, SubSeq(w.buf, 1, k))
        PROVE  Sound(r.to.disk, t, L) /\ Buffered(r.to.disk, r.to.buf, H, L)
    <3>1. k \in 0..Len(w.buf)
      BY <1>0
    <3> QED
      BY <1>2, <1>4, <2>1, <2>4, <3>1
  <2> QED
    BY <1>6, <2>2, <2>3, <2>4 DEF FailsWith
<1> QED
  BY <1>5, <1>6, OutcomeIs

----------------------------------------------------------------------------
(* Headers and stamps. *)

LEMMA JoinIs ==
  ASSUME NEW s \in Seq(Item), NEW u \in Seq(Item)
  PROVE  /\ s \o u \in Seq(Item) /\ Len(s \o u) = Len(s) + Len(u)
         /\ Len(s) \in Nat /\ Len(u) \in Nat
         /\ \A i \in 1..Len(s) : (s \o u)[i] = s[i]
         /\ \A i \in 1..Len(u) : (s \o u)[Len(s) + i] = u[i]
<1>1. /\ s \o u \in Seq(Item) /\ Len(s \o u) = Len(s) + Len(u)
      /\ \A i \in 1..(Len(s) + Len(u)) : (s \o u)[i] = IF i <= Len(s) THEN s[i] ELSE u[i - Len(s)]
  BY ConcatProperties
<1>2. Len(s) \in Nat /\ Len(u) \in Nat
  OBVIOUS
<1>3. \A i \in 1..Len(s) : (s \o u)[i] = s[i]
  BY <1>1, <1>2
<1>4. \A i \in 1..Len(u) : (s \o u)[Len(s) + i] = u[i]
  BY <1>1, <1>2
<1> QED
  BY <1>1, <1>2, <1>3, <1>4

(* A place is in the one or the other. *)
LEMMA JoinAt ==
  ASSUME NEW s \in Seq(Item), NEW u \in Seq(Item), NEW i \in 1..Len(s \o u)
  PROVE  \/ i \in 1..Len(s) /\ (s \o u)[i] = s[i]
         \/ \E j \in 1..Len(u) : i = Len(s) + j /\ (s \o u)[i] = u[j]
<1>1. Len(s) \in Nat /\ Len(u) \in Nat /\ Len(s \o u) = Len(s) + Len(u)
  BY JoinIs
<1>2. CASE i <= Len(s)
  <2>1. i \in 1..Len(s)
    BY <1>1, <1>2
  <2> QED
    BY <2>1, JoinIs
<1>3. CASE i > Len(s)
  <2>1. PICK j : j = i - Len(s)
    OBVIOUS
  <2>2. j \in 1..Len(u) /\ i = Len(s) + j
    BY <1>1, <1>3, <2>1
  <2> QED
    BY <2>2, JoinIs
<1> QED
  BY <1>1, <1>2, <1>3

LEMMA JoinEnds ==
  ASSUME NEW s \in Seq(Item), NEW u \in Seq(Item), u # <<>>
  PROVE  Ends(s \o u) <=> Ends(u)
<1>1. Len(u) \in 1..Len(u) /\ Len(s) \in Nat
  OBVIOUS
<1>2. (s \o u)[Len(s \o u)] = u[Len(u)]
  BY <1>1, JoinIs
<1>3. s \o u # <<>>
  <2>1. Len(s \o u) # 0
    BY <1>1, JoinIs
  <2> QED
    BY <2>1
<1> QED
  BY <1>2, <1>3 DEF Ends

LEMMA JoinFresh ==
  ASSUME NEW s \in Seq(Item), NEW u \in Seq(Item), Fresh(s), Fresh(u),
         u # <<>> /\ u[1].kind = "byte" => ~Ends(s)
  PROVE  Fresh(s \o u)
<1>1. Len(s) \in Nat /\ Len(u) \in Nat /\ Len(s \o u) = Len(s) + Len(u)
  BY JoinIs
<1>2. ASSUME NEW i, i \in 2..Len(s \o u), (s \o u)[i].kind = "byte"
      PROVE  ~((s \o u)[i - 1].nl /\ (s \o u)[i - 1].kind # "header")
  <2>1. CASE i \in 1..Len(s)
    <3>1. i \in 2..Len(s) /\ i - 1 \in 1..Len(s)
      BY <1>1, <1>2, <2>1
    <3>2. (s \o u)[i] = s[i] /\ (s \o u)[i - 1] = s[i - 1]
      BY <3>1, <2>1, JoinIs
    <3> QED
      BY <1>2, <3>1, <3>2 DEF Fresh
  <2>2. ASSUME NEW j \in 1..Len(u), i = Len(s) + j, (s \o u)[i] = u[j]
        PROVE  ~((s \o u)[i - 1].nl /\ (s \o u)[i - 1].kind # "header")
    <3>1. CASE j = 1
      <4>1. i - 1 = Len(s) /\ Len(s) \in 1..Len(s)
        BY <1>1, <1>2, <2>2, <3>1
      <4>2. (s \o u)[i - 1] = s[Len(s)] /\ s # <<>> /\ u # <<>>
        BY <4>1, <2>2, JoinIs
      <4>3. ~Ends(s)
        BY <1>2, <2>2, <3>1, <4>2
      <4> QED
        BY <4>2, <4>3 DEF Ends
    <3>2. CASE j # 1
      <4>1. j - 1 \in 1..Len(u) /\ j \in 2..Len(u) /\ i - 1 = Len(s) + (j - 1)
        BY <1>1, <2>2, <3>2
      <4>2. (s \o u)[i - 1] = u[j - 1]
        BY <4>1, JoinIs
      <4> QED
        BY <1>2, <2>2, <4>1, <4>2 DEF Fresh
    <3> QED
      BY <3>1, <3>2
  <2>3. i \in 1..Len(s \o u)
    BY <1>1, <1>2
  <2>4. \/ i \in 1..Len(s) /\ (s \o u)[i] = s[i]
        \/ \E j \in 1..Len(u) : i = Len(s) + j /\ (s \o u)[i] = u[j]
    BY <2>3, JoinAt
  <2> QED
    BY <2>1, <2>2, <2>4
<1> QED
  BY <1>2 DEF Fresh

LEMMA FreshSmall == Fresh(<<>>) /\ \A x \in Item : Fresh(<<x>>)
<1>1. Len(<<>>) = 0 /\ \A x \in Item : Len(<<x>>) = 1
  OBVIOUS
<1>2. 2..0 = {} /\ 2..1 = {}
  OBVIOUS
<1> QED
  BY <1>1, <1>2 DEF Fresh

LEMMA HeaderBegins == ~Ends(<<Header>>) /\ ~Ends(<<>>)
<1>1. <<Header>>[Len(<<Header>>)] = Header
  BY SpecialItems
<1> QED
  BY <1>1 DEF Ends, Header

LEMMA OutcomeHeaded ==
  ASSUME NEW w \in Writers, NEW t \in Days, NEW r, Succeeds(w, t, r), Headed(w)
  PROVE  Headed(r.to)
<1>0. w.disk \in Disks /\ w.buf \in Seq(Item)
  BY DEF Writers
<1>1. PICK dk \in Disks : dk = Ensured(w, t).disk
  BY EnsuredIs
<1>2. r.to.cur = t /\ r.to.disk = Put(dk, t, w.buf) /\ r.to.buf = <<>>
  BY <1>1 DEF Succeeds
<1>3. /\ dk[t] # <<>>
      /\ \A d \in Days : \A i \in 1..Len(dk[d]) : dk[d][i].kind = "header" <=> i = 1
  <2>1. \A d \in Days \ {t} : \A i \in 1..Len(dk[d]) : dk[d][i].kind = "header" <=> i = 1
    <3>1. \A d \in Days \ {t} : dk[d] = w.disk[d]
      BY <1>1, EnsuredAt
    <3> QED
      BY <3>1 DEF Headed
  <2>2. CASE dk[t] = <<Header>>
    <3>1. Header.kind = "header"
      BY DEF Header
    <3>2. \A i \in 1..Len(dk[t]) : dk[t][i].kind = "header" <=> i = 1
      BY <2>2, <3>1
    <3>3. dk[t] # <<>>
      BY <2>2
    <3> QED
      BY <2>1, <3>2, <3>3
  <2>3. CASE dk[t] = w.disk[t] /\ (w.cur = t \/ w.disk[t] # <<>>)
    <3>1. dk[t] # <<>>
      BY <2>3 DEF Headed
    <3>2. \A i \in 1..Len(dk[t]) : dk[t][i].kind = "header" <=> i = 1
      BY <2>3 DEF Headed
    <3> QED
      BY <2>1, <3>1, <3>2
  <2> QED
    BY <1>1, <2>2, <2>3, EnsuredAt
<1>4. ASSUME NEW d \in Days, NEW i, i \in 1..Len(Put(dk, t, w.buf)[d])
      PROVE  Put(dk, t, w.buf)[d][i].kind = "header" <=> i = 1
  <2>1. CASE d # t
    BY <1>0, <1>3, <1>4, <2>1, PutIs
  <2>2. CASE d = t
    <3>1. PICK s \in Seq(Item) : s = dk[t] /\ Put(dk, t, w.buf)[t] = s \o w.buf
      <4>1. Put(dk, t, w.buf)[t] = dk[t] \o w.buf
        BY <1>0, PutIs
      <4>2. dk[t] \in Seq(Item)
        BY DEF Disks
      <4> QED
        BY <4>1, <4>2
    <3>2. Len(s) \in Nat /\ Len(s) # 0
      BY <1>3, <3>1
    <3>3. CASE i \in 1..Len(s) /\ (s \o w.buf)[i] = s[i]
      BY <1>3, <2>2, <3>1, <3>3
    <3>4. ASSUME NEW j \in 1..Len(w.buf), i = Len(s) + j, (s \o w.buf)[i] = w.buf[j]
          PROVE  Put(dk, t, w.buf)[d][i].kind = "header" <=> i = 1
      <4>1. i # 1
        BY <3>2, <3>4
      <4> QED
        BY <2>2, <3>1, <3>4, <4>1 DEF Headed
    <3>5. i \in 1..Len(s \o w.buf)
      BY <1>4, <2>2, <3>1
    <3> QED
      BY <1>0, <3>3, <3>4, <3>5, JoinAt
  <2> QED
    BY <2>1, <2>2
<1>5. Put(dk, t, w.buf)[t] # <<>>
  <2>0. dk[t] \in Seq(Item)
    BY DEF Disks
  <2>1. /\ Len(dk[t]) \in Nat /\ Len(dk[t]) # 0 /\ Len(dk[t]) <= Len(Put(dk, t, w.buf)[t])
        /\ Len(Put(dk, t, w.buf)[t]) \in Nat
    <3>1. Len(dk[t]) # 0
      BY <1>3, <2>0
    <3> QED
      BY <1>0, <3>1, PutKeeps
  <2>2. Len(Put(dk, t, w.buf)[t]) # 0
    BY <2>1
  <2> QED
    BY <2>2
<1>6. \A i \in 1..Len(<<>>) : <<>>[i].kind # "header"
  OBVIOUS
<1> QED
  BY <1>2, <1>4, <1>5, <1>6 DEF Headed

LEMMA OutcomeStamped ==
  ASSUME NEW w \in Writers, NEW t0 \in Days, NEW t \in Days, t0 <= t, NEW r,
         Succeeds(w, t, r), NEW L, Sound(w.disk, t0, L), NEW bol, Stamped(w, t0, bol)
  PROVE  Stamped(r.to, t, bol)
<1>0. /\ w.disk \in Disks /\ w.buf \in Seq(Item)
      /\ t0 \in Int /\ t \in Int /\ \A d \in Days : d \in Int
  BY PortLogAssumption DEF Writers, Days
<1>1. PICK dk \in Disks : dk = Ensured(w, t).disk
  BY EnsuredIs
<1>2. r.to.disk = Put(dk, t, w.buf) /\ r.to.buf = <<>>
  BY <1>1 DEF Succeeds
<1>3. \A d \in Days : dk[d] = w.disk[d] \/ (d = t /\ dk[d] = <<Header>>)
  BY <1>1, EnsuredAt
<1>4. \A d \in Days : dk[d] \in Seq(Item) /\ Fresh(dk[d])
  BY <1>3, SpecialItems, FreshSmall DEF Stamped, Disks
<1>5. ASSUME NEW d \in Days, d >= t,
             (w.buf # <<>> /\ w.buf[1].kind = "byte") \/ (w.buf = <<>> /\ ~bol)
      PROVE  ~Ends(dk[d])
  <2>1. d >= t0
    BY <1>0, <1>5
  <2>2. ~Ends(w.disk[d])
    BY <1>5, <2>1 DEF Stamped
  <2> QED
    BY <1>3, <2>2, HeaderBegins
<1>6. t >= t
  BY <1>0
<1>7. \A d \in Days : Fresh(Put(dk, t, w.buf)[d])
  <2> TAKE d \in Days
  <2>1. CASE d # t
    BY <1>0, <1>4, <2>1, PutIs
  <2>2. CASE d = t
    <3>1. w.buf # <<>> /\ w.buf[1].kind = "byte" => ~Ends(dk[t])
      BY <1>5, <1>6
    <3>2. Fresh(dk[t] \o w.buf)
      BY <1>0, <1>4, <3>1, JoinFresh DEF Stamped
    <3> QED
      BY <1>0, <2>2, <3>2, PutIs
  <2> QED
    BY <2>1, <2>2
<1>8. ASSUME ~bol, NEW d \in Days, d >= t PROVE ~Ends(Put(dk, t, w.buf)[d])
  <2>1. CASE w.buf = <<>>
    <3>1. Put(dk, t, w.buf)[d] = dk[d]
      <4>1. dk[t] \o w.buf = dk[t]
        BY <1>4, <2>1, ConcatEmptySeq
      <4>2. CASE d = t
        BY <1>0, <4>1, <4>2, PutIs
      <4>3. CASE d # t
        <5>1. \A c \in Days \ {t} : Put(dk, t, w.buf)[c] = dk[c]
          BY <1>0, PutIs
        <5> QED
          BY <4>3, <5>1
      <4> QED
        BY <4>2, <4>3
    <3> QED
      BY <1>5, <1>8, <2>1, <3>1
  <2>2. CASE w.buf # <<>> /\ d = t
    <3>1. ~Ends(w.buf)
      BY <1>8, <2>2 DEF Stamped
    <3>2. ~Ends(dk[t] \o w.buf)
      BY <1>0, <1>4, <2>2, <3>1, JoinEnds
    <3> QED
      BY <1>0, <2>2, <3>2, PutIs
  <2>3. CASE w.buf # <<>> /\ d # t
    <3>1. d > t0
      BY <1>0, <1>8, <2>3
    <3>2. w.disk[d] = <<>>
      BY <3>1 DEF Sound
    <3>3. Put(dk, t, w.buf)[d] = <<>>
      <4>1. dk[d] = <<>>
        BY <1>3, <2>3, <3>2
      <4>2. \A c \in Days \ {t} : Put(dk, t, w.buf)[c] = dk[c]
        BY <1>0, PutIs
      <4> QED
        BY <2>3, <4>1, <4>2
    <3> QED
      BY <3>3, HeaderBegins
  <2> QED
    BY <2>1, <2>2, <2>3
<1> QED
  BY <1>2, <1>7, <1>8, FreshSmall DEF Stamped

----------------------------------------------------------------------------
(* What is buffered in addition. *)

(* s has the bytes after H, up to K, in order. *)
Advances(s, H, K) ==
  /\ \A i \in 1..Len(s) : s[i].kind = "byte" =>
       /\ s[i].n \in (H + 1)..K
       /\ \A m \in (H + 1)..(s[i].n - 1) : \E j \in 1..(i - 1) : ByteAt(s, j, m)
  /\ \A m \in (H + 1)..K : In(s, m)

LEMMA JoinIn ==
  ASSUME NEW b \in Seq(Item), NEW s \in Seq(Item), NEW m, In(b, m) \/ In(s, m)
  PROVE  In(b \o s, m)
<1>0. /\ Len(b) \in Nat /\ Len(s) \in Nat /\ b \o s \in Seq(Item)
      /\ Len(b \o s) = Len(b) + Len(s)
  BY JoinIs
<1>1. ASSUME NEW i \in 1..Len(b), ByteAt(b, i, m) PROVE In(b \o s, m)
  <2>1. i \in 1..Len(b \o s) /\ (b \o s)[i] = b[i]
    BY <1>0, JoinIs
  <2> QED
    BY <1>1, <2>1 DEF In, ByteAt
<1>2. ASSUME NEW i \in 1..Len(s), ByteAt(s, i, m) PROVE In(b \o s, m)
  <2>1. PICK j : j = Len(b) + i
    OBVIOUS
  <2>2. j \in 1..Len(b \o s)
    BY <1>0, <2>1
  <2>3. (b \o s)[j] = s[i]
    BY <2>1, JoinIs
  <2> QED
    BY <1>2, <2>2, <2>3 DEF In, ByteAt
<1> QED
  BY <1>1, <1>2 DEF In

LEMMA JoinBuffered ==
  ASSUME NEW dk, NEW b \in Seq(Item), NEW s \in Seq(Item), NEW H \in Nat, NEW K \in Nat, H <= K,
         NEW L, L \subseteq 1..H, Buffered(dk, b, H, L), Advances(s, H, K)
  PROVE  Buffered(dk, b \o s, K, L)
<1>0. /\ Len(b) \in Nat /\ Len(s) \in Nat /\ b \o s \in Seq(Item)
      /\ Len(b \o s) = Len(b) + Len(s)
  BY JoinIs
<1>2. ASSUME NEW m, m \in (1..K) \ L PROVE OnFile(dk, m) \/ In(b \o s, m)
  <2>1. m \in (1..H) \ L \/ m \in (H + 1)..K
    BY <1>2
  <2> QED
    BY <2>1, JoinIn DEF Buffered, Advances
<1>3. ASSUME NEW i, i \in 1..Len(b \o s), (b \o s)[i].kind = "byte"
      PROVE  /\ (b \o s)[i].n \in (1..K) \ L
             /\ \A m \in (1..((b \o s)[i].n - 1)) \ L :
                  OnFile(dk, m) \/ \E j \in 1..(i - 1) : ByteAt(b \o s, j, m)
  <2>1. CASE i \in 1..Len(b) /\ (b \o s)[i] = b[i]
    <3>1. /\ b[i].n \in (1..H) \ L
          /\ \A m \in (1..(b[i].n - 1)) \ L :
               OnFile(dk, m) \/ \E j \in 1..(i - 1) : ByteAt(b, j, m)
      BY <1>3, <2>1 DEF Buffered
    <3>2. \A j \in 1..(i - 1) : (b \o s)[j] = b[j]
      <4>1. \A j \in 1..(i - 1) : j \in 1..Len(b)
        BY <1>0, <2>1
      <4> QED
        BY <4>1, JoinIs
    <3>3. \A m : \A j \in 1..(i - 1) : ByteAt(b, j, m) => ByteAt(b \o s, j, m)
      BY <3>2 DEF ByteAt
    <3>4. b[i].n \in (1..K) \ L
      BY <3>1
    <3> QED
      BY <2>1, <3>1, <3>3, <3>4
  <2>2. ASSUME NEW k, k \in 1..Len(s), i = Len(b) + k, (b \o s)[i] = s[k]
        PROVE  /\ (b \o s)[i].n \in (1..K) \ L
               /\ \A m \in (1..((b \o s)[i].n - 1)) \ L :
                    OnFile(dk, m) \/ \E j \in 1..(i - 1) : ByteAt(b \o s, j, m)
    <3>1. /\ s[k].n \in (H + 1)..K
          /\ \A m \in (H + 1)..(s[k].n - 1) : \E j \in 1..(k - 1) : ByteAt(s, j, m)
      BY <1>3, <2>2 DEF Advances
    <3>2. s[k].n \in (1..K) \ L
      BY <3>1
    <3>3. ASSUME NEW m, m \in (1..(s[k].n - 1)) \ L
          PROVE  OnFile(dk, m) \/ \E j \in 1..(i - 1) : ByteAt(b \o s, j, m)
      <4>1. CASE m \in (1..H) \ L
        <5>1. CASE In(b, m)
          <6>1. PICK j \in 1..Len(b) : ByteAt(b, j, m)
            BY <5>1 DEF In
          <6>2. j \in 1..(i - 1)
            BY <1>0, <2>2
          <6>3. ByteAt(b \o s, j, m)
            BY <6>1, JoinIs DEF ByteAt
          <6> QED
            BY <6>2, <6>3
        <5> QED
          BY <4>1, <5>1 DEF Buffered
      <4>2. CASE m \in (H + 1)..(s[k].n - 1)
        <5>1. PICK j \in 1..(k - 1) : ByteAt(s, j, m)
          BY <3>1, <4>2
        <5>2. PICK p : p = Len(b) + j
          OBVIOUS
        <5>3. j \in 1..Len(s) /\ p \in 1..(i - 1)
          BY <1>0, <2>2, <5>2
        <5>4. (b \o s)[p] = s[j]
          BY <5>2, <5>3, JoinIs
        <5> QED
          BY <5>1, <5>3, <5>4 DEF ByteAt
      <4>3. m \in (1..H) \ L \/ m \in (H + 1)..(s[k].n - 1)
        BY <3>1, <3>3
      <4> QED
        BY <4>1, <4>2, <4>3
    <3> QED
      BY <2>2, <3>2, <3>3
  <2>3. \/ i \in 1..Len(b) /\ (b \o s)[i] = b[i]
        \/ \E k \in 1..Len(s) : i = Len(b) + k /\ (b \o s)[i] = s[k]
    BY <1>3, JoinAt
  <2> QED
    BY <2>1, <2>2, <2>3
<1> QED
  BY <1>2, <1>3 DEF Buffered

Joined(w, s) == [w EXCEPT !.buf = @ \o s]

LEMMA JoinedIs ==
  ASSUME NEW w \in Writers, NEW s \in Seq(Item)
  PROVE  /\ Joined(w, s) \in Writers
         /\ Joined(w, s).cur = w.cur /\ Joined(w, s).disk = w.disk
         /\ Joined(w, s).buf = w.buf \o s
<1>1. PICK b \in Seq(Item) : b = w.buf
  BY DEF Writers
<1>2. b \o s \in Seq(Item)
  BY JoinIs
<1> QED
  BY <1>1, <1>2 DEF Joined, Writers

LEMMA JoinHeaded ==
  ASSUME NEW w \in Writers, NEW s \in Seq(Item), Headed(w),
         \A i \in 1..Len(s) : s[i].kind # "header"
  PROVE  Headed(Joined(w, s))
<1>1. PICK b \in Seq(Item) : b = w.buf
  BY DEF Writers
<1>2. \A i \in 1..Len(b \o s) : (b \o s)[i].kind # "header"
  <2> TAKE i \in 1..Len(b \o s)
  <2>1. \A j \in 1..Len(b) : b[j].kind # "header"
    BY <1>1 DEF Headed
  <2>2. \/ i \in 1..Len(b) /\ (b \o s)[i] = b[i]
        \/ \E k \in 1..Len(s) : i = Len(b) + k /\ (b \o s)[i] = s[k]
    BY JoinAt
  <2> QED
    BY <2>1, <2>2
<1>3. PICK v : v = Joined(w, s)
  OBVIOUS
<1>4. v.cur = w.cur /\ v.disk = w.disk /\ v.buf = b \o s
  BY <1>1, <1>3, JoinedIs
<1>5. Headed(v)
  BY <1>2, <1>4 DEF Headed
<1> QED
  BY <1>3, <1>5

LEMMA JoinStamped ==
  ASSUME NEW w \in Writers, NEW s \in Seq(Item), s # <<>>, Fresh(s), NEW t, NEW bol, NEW bol2,
         Stamped(w, t, bol), s[1].kind = "byte" => ~bol, ~bol2 => ~Ends(s)
  PROVE  Stamped(Joined(w, s), t, bol2)
<1>1. PICK b \in Seq(Item) : b = w.buf
  BY DEF Writers
<1>2. s[1].kind = "byte" => ~Ends(b)
  <2>1. CASE b = <<>>
    BY <2>1, HeaderBegins
  <2>2. CASE b # <<>>
    BY <1>1, <2>2 DEF Stamped
  <2> QED
    BY <2>1, <2>2
<1>3. Fresh(b \o s)
  BY <1>1, <1>2, JoinFresh DEF Stamped
<1>4. ASSUME (b \o s)[1].kind = "byte"
      PROVE  \A d \in Days : d >= t => ~Ends(w.disk[d])
  <2>1. CASE b = <<>>
    <3>1. b \o s = s
      BY <2>1, ConcatEmptySeq
    <3> QED
      BY <1>1, <1>4, <2>1, <3>1 DEF Stamped
  <2>2. CASE b # <<>>
    <3>1. 1 \in 1..Len(b)
      BY <2>2
    <3>2. (b \o s)[1] = b[1]
      BY <3>1, JoinIs
    <3> QED
      BY <1>1, <1>4, <2>2, <3>2 DEF Stamped
  <2> QED
    BY <2>1, <2>2
<1>5. b \o s # <<>>
  <2>1. Len(b \o s) # 0
    <3>1. Len(s) \in Nat /\ Len(s) # 0
      OBVIOUS
    <3> QED
      BY <3>1, JoinIs
  <2> QED
    BY <2>1
<1>6. ~bol2 => ~Ends(b \o s)
  BY JoinEnds
<1> QED
  BY <1>1, <1>3, <1>4, <1>5, <1>6, JoinedIs DEF Stamped

----------------------------------------------------------------------------
(* What Write appends to the buffer. *)

(* What comes of one byte, and of the first k. *)
Piece(c, i) ==
  IF Stamps /\ Begins(c, i) THEN <<Stamp, Byte(handed + i, c[i])>>
                            ELSE <<Byte(handed + i, c[i])>>
Built(c, k) == FlattenSeq([i \in 1..k |-> Piece(c, i)])

NoFiles == [d \in Days |-> <<>>]

LEMMA NothingOnFile == ASSUME NEW m PROVE ~OnFile(NoFiles, m)
<1>1. Len(<<>>) = 0 /\ 1..0 = {}
  OBVIOUS
<1>2. \A d \in Days : NoFiles[d] = <<>>
  BY DEF NoFiles
<1> QED
  BY <1>1, <1>2 DEF OnFile, In

LEMMA AdvancesIs ==
  ASSUME NEW s, NEW H \in Nat, NEW K \in Nat
  PROVE  Advances(s, H, K) <=> Buffered(NoFiles, s, K, 1..H)
<1>1. ASSUME NEW n PROVE (1..n) \ (1..H) = {m \in 1..n : m > H}
  OBVIOUS
<1>2. (1..K) \ (1..H) = (H + 1)..K
  OBVIOUS
<1>3. ASSUME NEW n, n \in (H + 1)..K PROVE (1..(n - 1)) \ (1..H) = (H + 1)..(n - 1)
  BY <1>3
<1>4. Buffered(NoFiles, s, K, 1..H) <=>
        /\ \A m \in (H + 1)..K : In(s, m)
        /\ \A i \in 1..Len(s) : s[i].kind = "byte" =>
             /\ s[i].n \in (H + 1)..K
             /\ \A m \in (1..(s[i].n - 1)) \ (1..H) : \E j \in 1..(i - 1) : ByteAt(s, j, m)
  BY <1>2, NothingOnFile DEF Buffered
<1> QED
  BY <1>3, <1>4 DEF Advances

(* What the first k bytes of a chunk add. *)
GoodItems(s, c, k) ==
  /\ s \in Seq(Item)
  /\ \A i \in 1..Len(s) : s[i].kind \in {"byte", "stamp"}
  /\ Advances(s, handed, handed + k)
  /\ k > 0 => s # <<>> /\ s[Len(s)].nl = c[k]
  /\ k = 0 => s = <<>>
  /\ Stamps => Fresh(s) /\ (k > 0 /\ s[1].kind = "byte" => ~atBOL)

LEMMA PieceGood ==
  ASSUME NEW c \in Seq(BOOLEAN), NEW k \in Nat, k + 1 \in 1..Len(c),
         day \in Days, handed \in Nat, atBOL \in BOOLEAN
  PROVE  /\ Piece(c, k + 1) \in Seq(Item) /\ Piece(c, k + 1) # <<>>
         /\ \A i \in 1..Len(Piece(c, k + 1)) : Piece(c, k + 1)[i].kind \in {"byte", "stamp"}
         /\ Advances(Piece(c, k + 1), handed + k, handed + k + 1)
         /\ Piece(c, k + 1)[Len(Piece(c, k + 1))].nl = c[k + 1]
         /\ Fresh(Piece(c, k + 1))
         /\ Stamps /\ Piece(c, k + 1)[1].kind = "byte" => ~Begins(c, k + 1)
<1>1. PICK b : b = Byte(handed + (k + 1), c[k + 1])
  OBVIOUS
<1>2. PICK h \in Nat : h = handed + k /\ handed + (k + 1) = h + 1 /\ handed + k + 1 = h + 1
  OBVIOUS
<1>3. c[k + 1] \in BOOLEAN
  BY ElementOfSeq
<1>4. b \in Item /\ b.kind = "byte" /\ b.n = h + 1 /\ b.nl = c[k + 1]
  BY <1>1, <1>2, <1>3 DEF Byte, Item
<1>5. Stamp \in Item /\ Stamp.kind = "stamp" /\ Stamp.nl = FALSE
  BY DEF Stamp, Item
<1>6. (h + 1)..(h + 1) = {h + 1} /\ (h + 1)..(h + 1 - 1) = {}
  BY <1>2
<1>7. ASSUME Stamps, Begins(c, k + 1)
      PROVE  /\ Piece(c, k + 1) = <<Stamp, b>>
             /\ <<Stamp, b>> \in Seq(Item) /\ Len(<<Stamp, b>>) = 2
             /\ <<Stamp, b>>[1] = Stamp /\ <<Stamp, b>>[2] = b
  BY <1>1, <1>4, <1>5, <1>7 DEF Piece
<1>8. ASSUME ~(Stamps /\ Begins(c, k + 1))
      PROVE  /\ Piece(c, k + 1) = <<b>>
             /\ <<b>> \in Seq(Item) /\ Len(<<b>>) = 1 /\ <<b>>[1] = b
  BY <1>1, <1>4, <1>8 DEF Piece
<1>9. CASE Stamps /\ Begins(c, k + 1)
  <2>1. PICK u : u = Piece(c, k + 1)
    OBVIOUS
  <2>2. u \in Seq(Item) /\ Len(u) = 2 /\ u[1] = Stamp /\ u[2] = b
    BY <1>7, <1>9, <2>1
  <2>3. u # <<>> /\ \A i \in 1..Len(u) : u[i].kind \in {"byte", "stamp"}
    <3>1. u # <<>>
      <4>1. Len(u) # 0
        BY <2>2
      <4>2. Len(<<>>) = 0
        OBVIOUS
      <4> QED
        BY <4>1, <4>2
    <3>2. \A i \in 1..Len(u) : i = 1 \/ i = 2
      BY <2>2
    <3>3. \A i \in 1..Len(u) : u[i] = Stamp \/ u[i] = b
      BY <2>2, <3>2
    <3> QED
      BY <1>4, <1>5, <3>1, <3>3
  <2>4. Advances(u, h, h + 1)
    <3>1. In(u, h + 1)
      <4>1. 2 \in 1..Len(u)
        BY <2>2
      <4> QED
        BY <1>4, <2>2, <4>1 DEF In, ByteAt
    <3>2. \A i \in 1..Len(u) : u[i].kind = "byte" => u[i].n = h + 1
      BY <1>4, <1>5, <2>2
    <3> QED
      BY <1>6, <3>1, <3>2 DEF Advances
  <2>5. Fresh(u)
    <3>1. \A i \in 2..Len(u) : u[i - 1].nl = FALSE
      BY <1>5, <2>2
    <3> QED
      BY <3>1 DEF Fresh
  <2>6. u[Len(u)].nl = c[k + 1] /\ u[1].kind # "byte"
    BY <1>4, <1>5, <2>2
  <2> QED
    BY <1>2, <2>1, <2>2, <2>3, <2>4, <2>5, <2>6
<1>10. CASE ~(Stamps /\ Begins(c, k + 1))
  <2>1. PICK u : u = Piece(c, k + 1)
    OBVIOUS
  <2>2. u \in Seq(Item) /\ Len(u) = 1 /\ u[1] = b /\ u = <<b>>
    BY <1>8, <1>10, <2>1
  <2>3. u # <<>> /\ \A i \in 1..Len(u) : u[i].kind \in {"byte", "stamp"}
    BY <1>4, <2>2
  <2>4. Advances(u, h, h + 1)
    <3>1. In(u, h + 1)
      <4>1. 1 \in 1..Len(u)
        BY <2>2
      <4> QED
        BY <1>4, <2>2, <4>1 DEF In, ByteAt
    <3>2. \A i \in 1..Len(u) : u[i].kind = "byte" => u[i].n = h + 1
      BY <1>4, <2>2
    <3> QED
      BY <1>6, <3>1, <3>2 DEF Advances
  <2>5. Fresh(u)
    BY <1>4, <2>2, FreshSmall
  <2>6. u[Len(u)].nl = c[k + 1]
    BY <1>4, <2>2
  <2> QED
    BY <1>2, <1>10, <2>1, <2>2, <2>3, <2>4, <2>5, <2>6
<1> QED
  BY <1>9, <1>10

LEMMA BuiltIs ==
  ASSUME NEW c \in Seq(BOOLEAN), day \in Days, handed \in Nat, atBOL \in BOOLEAN
  PROVE  /\ Built(c, 0) = <<>>
         /\ Built(c, Len(c)) = Items(c)
         /\ \A k \in Nat : k + 1 \in 1..Len(c) =>
              Built(c, k + 1) = Built(c, k) \o Piece(c, k + 1)
<1>1. Built(c, 0) = <<>>
  <2>1. [i \in 1..0 |-> Piece(c, i)] = <<>>
    OBVIOUS
  <2> QED
    BY <2>1, FlattenEmpty DEF Built
<1>2. Built(c, Len(c)) = Items(c)
  BY DEF Built, Items, Piece
<1>3. ASSUME NEW i \in 1..Len(c) PROVE Piece(c, i) \in Seq(Item)
  <2>1. PICK k \in Nat : i = k + 1
    <3>1. i - 1 \in Nat /\ i = (i - 1) + 1
      OBVIOUS
    <3> QED
      BY <3>1
  <2> QED
    BY <2>1, PieceGood
<1>4. ASSUME NEW k \in Nat, k + 1 \in 1..Len(c)
      PROVE  Built(c, k + 1) = Built(c, k) \o Piece(c, k + 1)
  <2>1. PICK s : s = [i \in 1..k |-> Piece(c, i)]
    OBVIOUS
  <2>2. \A i \in 1..k : i \in 1..Len(c) /\ Piece(c, i) \in Seq(Item)
    BY <1>3, <1>4
  <2>3. s \in [1..k -> Seq(Item)]
    BY <2>1, <2>2
  <2>4. s \in Seq(Seq(Item)) /\ Len(s) = k
    BY <2>3
  <2>5. PICK x \in Seq(Item) : x = Piece(c, k + 1)
    BY <1>3, <1>4
  <2>6. [i \in 1..(k + 1) |-> Piece(c, i)] = Append(s, x)
    <3>1. PICK p : p = [i \in 1..(k + 1) |-> Piece(c, i)]
      OBVIOUS
    <3>2. p \in [1..(k + 1) -> Seq(Item)]
      BY <1>3, <1>4, <2>2, <3>1
    <3>3. p \in Seq(Seq(Item)) /\ Len(p) = k + 1
      BY <3>2
    <3>4. /\ Append(s, x) \in Seq(Seq(Item)) /\ Len(Append(s, x)) = k + 1
          /\ \A i \in 1..k : Append(s, x)[i] = s[i] /\ Append(s, x)[k + 1] = x
      BY <2>4, AppendProperties
    <3>5. \A i \in 1..k : p[i] = s[i]
      BY <2>1, <3>1
    <3>6. p[k + 1] = x
      BY <2>5, <3>1
    <3>7. Append(s, x)[k + 1] = x
      BY <2>4, AppendProperties
    <3>8. \A i \in 1..Len(p) : p[i] = Append(s, x)[i]
      BY <3>3, <3>4, <3>5, <3>6, <3>7
    <3>9. p = Append(s, x)
      BY <3>3, <3>4, <3>8, SeqEqual
    <3> QED
      BY <3>1, <3>9
  <2>7. FlattenSeq(Append(s, x)) = FlattenSeq(s) \o x
    BY <2>4, FlattenAppend
  <2> QED
    BY <2>1, <2>5, <2>6, <2>7 DEF Built
<1> QED
  BY <1>1, <1>2, <1>4

LEMMA ItemsGood ==
  ASSUME NEW c \in Seq(BOOLEAN), day \in Days, handed \in Nat, atBOL \in BOOLEAN
  PROVE  GoodItems(Items(c), c, Len(c))
<1> DEFINE A == {k \in Nat : k <= Len(c) => GoodItems(Built(c, k), c, k)}
<1>1. 0 \in A
  <2>1. Advances(<<>>, handed, handed + 0)
    <3>1. Len(<<>>) = 0 /\ 1..0 = {} /\ (handed + 1)..(handed + 0) = {}
      OBVIOUS
    <3> QED
      BY <3>1 DEF Advances
  <2>2. GoodItems(<<>>, c, 0)
    BY <2>1, FreshSmall, EmptySeq DEF GoodItems
  <2> QED
    BY <2>2, BuiltIs
<1>2. ASSUME NEW k \in Nat, k \in A PROVE k + 1 \in A
  <2>1. ASSUME k + 1 <= Len(c) PROVE GoodItems(Built(c, k + 1), c, k + 1)
    <3>1. k + 1 \in 1..Len(c) /\ k <= Len(c)
      BY <2>1
    <3>2. PICK s : s = Built(c, k) /\ GoodItems(s, c, k)
      BY <1>2, <3>1
    <3>3. PICK u : u = Piece(c, k + 1)
      OBVIOUS
    <3>4. /\ u \in Seq(Item) /\ u # <<>>
          /\ \A i \in 1..Len(u) : u[i].kind \in {"byte", "stamp"}
          /\ Advances(u, handed + k, handed + k + 1)
          /\ u[Len(u)].nl = c[k + 1] /\ Fresh(u)
          /\ Stamps /\ u[1].kind = "byte" => ~Begins(c, k + 1)
      BY <3>1, <3>3, PieceGood
    <3>5. Built(c, k + 1) = s \o u
      BY <3>1, <3>2, <3>3, BuiltIs
    <3>6. s \in Seq(Item) /\ s \o u \in Seq(Item) /\ Len(u) \in 1..Len(u) /\ Len(s) \in Nat
      BY <3>2, <3>4, JoinIs DEF GoodItems
    <3>7. \A i \in 1..Len(s \o u) : (s \o u)[i].kind \in {"byte", "stamp"}
      <4> TAKE i \in 1..Len(s \o u)
      <4>1. \/ i \in 1..Len(s) /\ (s \o u)[i] = s[i]
            \/ \E j \in 1..Len(u) : i = Len(s) + j /\ (s \o u)[i] = u[j]
        BY <3>4, <3>6, JoinAt
      <4> QED
        BY <3>2, <3>4, <4>1 DEF GoodItems
    <3>8. Advances(s \o u, handed, handed + (k + 1))
      <4>1. Buffered(NoFiles, s, handed + k, 1..handed)
        BY <3>2, AdvancesIs DEF GoodItems
      <4>2. Buffered(NoFiles, s \o u, handed + k + 1, 1..handed)
        <5>1. PICK h \in Nat : h = handed + k
          OBVIOUS
        <5>2. h + 1 \in Nat /\ h <= h + 1 /\ 1..handed \subseteq 1..h
          BY <5>1
        <5>3. Advances(u, h, h + 1) /\ Buffered(NoFiles, s, h, 1..handed)
          BY <3>4, <4>1, <5>1
        <5>4. Buffered(NoFiles, s \o u, h + 1, 1..handed)
          BY <3>4, <3>6, <5>2, <5>3, JoinBuffered
        <5> QED
          BY <5>1, <5>4
      <4>3. handed + k + 1 = handed + (k + 1) /\ handed + (k + 1) \in Nat
        OBVIOUS
      <4> QED
        BY <4>2, <4>3, AdvancesIs
    <3>9. s \o u # <<>> /\ (s \o u)[Len(s \o u)].nl = c[k + 1]
      <4>1. Len(s \o u) = Len(s) + Len(u) /\ (s \o u)[Len(s) + Len(u)] = u[Len(u)]
        BY <3>4, <3>6, JoinIs
      <4>2. Len(s \o u) # 0
        BY <3>6, <4>1
      <4> QED
        BY <3>4, <4>1, <4>2
    <3>10. ASSUME Stamps PROVE Fresh(s \o u)
      <4>1. Fresh(s)
        BY <3>2, <3>10 DEF GoodItems
      <4>2. ASSUME u[1].kind = "byte" PROVE ~Ends(s)
        <5>1. ~Begins(c, k + 1)
          BY <3>4, <3>10, <4>2
        <5>2. CASE k = 0
          BY <3>2, <5>2, HeaderBegins DEF GoodItems
        <5>3. CASE k # 0
          <6>1. k > 0 /\ k + 1 # 1 /\ k + 1 - 1 = k
            BY <5>3
          <6>2. ~c[k]
            BY <5>1, <6>1 DEF Begins
          <6>3. s[Len(s)].nl = c[k]
            BY <3>2, <6>1 DEF GoodItems
          <6> QED
            BY <6>2, <6>3 DEF Ends
        <5> QED
          BY <5>2, <5>3
      <4> QED
        BY <3>4, <3>6, <4>1, <4>2, JoinFresh
    <3>11. ASSUME Stamps, (s \o u)[1].kind = "byte" PROVE ~atBOL
      <4>1. CASE k = 0
        <5>1. s = <<>> /\ s \o u = u
          BY <3>2, <3>4, <4>1, ConcatEmptySeq DEF GoodItems
        <5>2. ~Begins(c, k + 1)
          BY <3>4, <3>11, <5>1
        <5> QED
          BY <4>1, <5>2 DEF Begins
      <4>2. CASE k # 0
        <5>1. s # <<>> /\ k > 0
          BY <3>2, <4>2 DEF GoodItems
        <5>2. 1 \in 1..Len(s)
          BY <3>6, <5>1
        <5>3. (s \o u)[1] = s[1]
          BY <3>4, <3>6, <5>2, JoinIs
        <5> QED
          BY <3>2, <3>11, <5>1, <5>3 DEF GoodItems
      <4> QED
        BY <4>1, <4>2
    <3>12. k + 1 > 0 /\ k + 1 # 0
      OBVIOUS
    <3>13. GoodItems(s \o u, c, k + 1)
      BY <3>6, <3>7, <3>8, <3>9, <3>10, <3>11, <3>12 DEF GoodItems
    <3> QED
      BY <3>5, <3>13
  <2> QED
    BY <2>1
<1>3. Nat \subseteq A
  <2> HIDE DEF A
  <2> QED
    BY <1>1, <1>2, SetInduction
<1>4. Len(c) \in Nat /\ Len(c) <= Len(c)
  OBVIOUS
<1>5. GoodItems(Built(c, Len(c)), c, Len(c))
  BY <1>3, <1>4
<1> QED
  BY <1>5, BuiltIs

----------------------------------------------------------------------------
(* The calls. *)

LEMMA SucceedsKeeps ==
  ASSUME NEW w \in Writers, NEW t \in Days, NEW r, Succeeds(w, t, r)
  PROVE  /\ \A d \in Days : \A m : In(w.disk[d], m) => In(r.to.disk[d], m)
         /\ \A m : In(w.buf, m) => In(r.to.disk[t], m)
<1>0. PICK b \in Seq(Item) : b = w.buf
  BY DEF Writers
<1>1. PICK dk \in Disks : dk = Ensured(w, t).disk
  BY EnsuredIs
<1>2. r.to.disk = Put(dk, t, b)
  BY <1>0, <1>1 DEF Succeeds
<1>3. ASSUME NEW d \in Days, NEW m, In(w.disk[d], m) PROVE In(r.to.disk[d], m)
  <2>1. PICK i : i \in 1..Len(w.disk[d]) /\ ByteAt(w.disk[d], i, m)
    BY <1>3 DEF In
  <2>2. dk[d] = w.disk[d]
    <3>1. CASE d # t
      BY <1>1, <3>1, EnsuredAt
    <3>2. CASE d = t
      <4>1. w.disk[t] # <<>>
        BY <2>1, <3>2
      <4> QED
        BY <1>1, <3>2, <4>1, EnsuredAt
    <3> QED
      BY <3>1, <3>2
  <2>3. i \in 1..Len(dk[d]) /\ ByteAt(dk[d], i, m)
    BY <2>1, <2>2
  <2>4. i \in 1..Len(Put(dk, t, b)[d]) /\ Put(dk, t, b)[d][i] = dk[d][i]
    BY <2>3, PutKeeps
  <2> QED
    BY <1>2, <2>3, <2>4 DEF In, ByteAt
<1>4. ASSUME NEW m, In(b, m) PROVE In(r.to.disk[t], m)
  <2>1. PICK i \in 1..Len(b) : ByteAt(b, i, m)
    BY <1>4 DEF In
  <2>2. PICK j : j = Len(dk[t]) + i
    OBVIOUS
  <2>3. j \in 1..Len(Put(dk, t, b)[t]) /\ Put(dk, t, b)[t][j] = b[i]
    BY <2>2, PutAdds
  <2> QED
    BY <1>2, <2>1, <2>3 DEF In, ByteAt
<1> QED
  BY <1>0, <1>3, <1>4

(* A flush, at a later date. *)
LEMMA FineOutcome ==
  ASSUME NEW w \in Writers, NEW t0 \in Days, NEW t \in Days, t0 <= t, NEW r \in Outcomes(w, t),
         faults \in Nat, NEW L, NEW H, NEW bol, NEW X \in SUBSET [n : Nat, day : Days],
         Fine(w, t0, H, L, bol, faults, X)
  PROVE  /\ r.ok = TRUE => /\ Fine(r.to, t, H, L, bol, faults, X)
                           /\ r.to.buf = <<>>
                           /\ \A m : In(w.buf, m) => In(r.to.disk[t], m)
         /\ r.ok = FALSE => Fine(r.to, t, H, L, bol, faults + 1, X)
<1>1. Sound(r.to.disk, t, L) /\ Buffered(r.to.disk, r.to.buf, H, L)
  BY OutcomeSound DEF Fine
<1>2. ASSUME r.ok = TRUE
      PROVE  /\ Fine(r.to, t, H, L, bol, faults, X) /\ r.to.buf = <<>>
             /\ \A m : In(w.buf, m) => In(r.to.disk[t], m)
  <2>1. Succeeds(w, t, r)
    BY <1>2, OutcomeIs
  <2>2. ASSUME faults = 0
        PROVE  /\ Headed(r.to) /\ (Stamps => Stamped(r.to, t, bol))
               /\ \A e \in X : In(r.to.disk[e.day], e.n)
    <3>1. Headed(r.to)
      BY <2>1, <2>2, OutcomeHeaded DEF Fine
    <3>2. Stamps => Stamped(r.to, t, bol)
      BY <2>1, <2>2, OutcomeStamped DEF Fine
    <3>3. \A e \in X : In(r.to.disk[e.day], e.n)
      BY <2>1, <2>2, SucceedsKeeps DEF Fine
    <3> QED
      BY <3>1, <3>2, <3>3
  <2>3. r.to.buf = <<>>
    BY <2>1 DEF Succeeds
  <2>4. \A m : In(w.buf, m) => In(r.to.disk[t], m)
    BY <2>1, SucceedsKeeps
  <2> QED
    BY <1>1, <2>2, <2>3, <2>4 DEF Fine
<1>3. faults + 1 # 0
  OBVIOUS
<1> QED
  BY <1>1, <1>2, <1>3 DEF Fine

(* Nothing but the date passes. *)
LEMMA FineLater ==
  ASSUME NEW w, NEW t0 \in Days, NEW t \in Days, t0 <= t, NEW L, NEW H, NEW bol, NEW f, NEW X,
         Fine(w, t0, H, L, bol, f, X)
  PROVE  Fine(w, t, H, L, bol, f, X)
<1>1. t0 \in Int /\ t \in Int /\ \A d \in Days : d \in Int
  BY PortLogAssumption DEF Days
<1>2. \A d \in Days : d >= t => d >= t0
  BY <1>1
<1>3. Sound(w.disk, t, L)
  BY LaterSound DEF Fine
<1>4. Stamped(w, t0, bol) => Stamped(w, t, bol)
  BY <1>2 DEF Stamped
<1> QED
  BY <1>3, <1>4 DEF Fine

(* More is buffered. *)
LEMMA FineJoined ==
  ASSUME NEW w \in Writers, NEW s \in Seq(Item), s # <<>>, NEW t, NEW H \in Nat, NEW K \in Nat,
         H <= K, NEW L, L \subseteq 1..H, NEW bol, NEW bol2, NEW f, NEW X,
         Fine(w, t, H, L, bol, f, X),
         Advances(s, H, K), \A i \in 1..Len(s) : s[i].kind # "header",
         Stamps => Fresh(s) /\ (s[1].kind = "byte" => ~bol), ~bol2 => ~Ends(s)
  PROVE  Fine(Joined(w, s), t, K, L, bol2, f, X)
<1>1. PICK b \in Seq(Item) : b = w.buf
  BY DEF Writers
<1>2. Buffered(w.disk, b \o s, K, L)
  BY <1>1, JoinBuffered DEF Fine
<1>3. Headed(w) => Headed(Joined(w, s))
  BY JoinHeaded
<1>4. Stamps /\ Stamped(w, t, bol) => Stamped(Joined(w, s), t, bol2)
  BY JoinStamped
<1>5. PICK v : v = Joined(w, s)
  OBVIOUS
<1>6. v.disk = w.disk /\ v.buf = b \o s
  BY <1>1, <1>5, JoinedIs
<1>7. Fine(v, t, K, L, bol2, f, X)
  BY <1>2, <1>3, <1>4, <1>5, <1>6 DEF Fine
<1> QED
  BY <1>5, <1>7

(* The file is closed. *)
LEMMA FineClosed ==
  ASSUME NEW w \in Writers, NEW v \in Writers, v.cur = Closed, v.disk = w.disk, v.buf = w.buf,
         NEW t, NEW H, NEW L, NEW bol, NEW f, NEW X, Fine(w, t, H, L, bol, f, X)
  PROVE  Fine(v, t, H, L, bol, f, X)
<1>1. Closed \notin Days
  BY PortLogAssumption
<1>2. Headed(w) => Headed(v)
  BY <1>1 DEF Headed
<1>3. Stamped(w, t, bol) => Stamped(v, t, bol)
  BY DEF Stamped
<1> QED
  BY <1>2, <1>3 DEF Fine

LEMMA WriterIs ==
  ASSUME TypeOK
  PROVE  /\ Writer \in Writers /\ Writer.cur = cur /\ Writer.disk = disk /\ Writer.buf = buf
         /\ day \in Days /\ handed \in Nat /\ faults \in Nat /\ notes \in Nat /\ atBOL \in BOOLEAN
         /\ lost \subseteq 1..handed /\ ended \in SUBSET [n : Nat, day : Days]
<1>1. handed \in Nat /\ faults \in Nat /\ notes \in Nat
  BY PortLogAssumption DEF TypeOK
<1>2. ended \in SUBSET [n : Nat, day : Days]
  BY <1>1 DEF TypeOK
<1> QED
  BY <1>1, <1>2 DEF TypeOK, Writer, Writers, Disks

(* What a flush makes of the writer. *)
LEMMA BecomeIs ==
  ASSUME TypeOK, NEW w \in Writers, NEW t \in Days, NEW r \in Outcomes(w, t), Become(r)
  PROVE  /\ Writer' = r.to
         /\ cur' \in Days \union {Closed} /\ disk' \in [Days -> Seq(Item)] /\ buf' \in Seq(Item)
         /\ faults' \in 0..MaxFaults
         /\ \/ r.ok = TRUE /\ faults' = faults /\ buf' = <<>>
            \/ r.ok = FALSE /\ faults' = faults + 1 /\ faults' # 0
<1>1. /\ r.to \in Writers
      /\ \/ r.ok = TRUE /\ r.to.buf = <<>>
         \/ r.ok = FALSE /\ faults < MaxFaults
  <2>1. Succeeds(w, t, r) => r.to.buf = <<>>
    BY DEF Succeeds
  <2> QED
    BY <2>1, OutcomeIs
<1>2. cur' = r.to.cur /\ disk' = r.to.disk /\ buf' = r.to.buf
  BY DEF Become
<1>3. Writer' = r.to
  BY <1>1, <1>2 DEF Writer, Writers
<1>4. /\ cur' \in Days \union {Closed} /\ disk' \in [Days -> Seq(Item)] /\ buf' \in Seq(Item)
  BY <1>1, <1>2 DEF Writers, Disks
<1>5. MaxFaults \in Nat /\ faults \in 0..MaxFaults
  BY PortLogAssumption DEF TypeOK
<1>6. CASE r.ok = TRUE /\ r.to.buf = <<>>
  BY <1>2, <1>3, <1>4, <1>5, <1>6 DEF Become
<1>7. CASE r.ok = FALSE /\ faults < MaxFaults
  <2>1. faults' = faults + 1
    BY <1>7 DEF Become
  <2>2. faults' \in 0..MaxFaults /\ faults' # 0
    BY <1>5, <1>7, <2>1
  <2> QED
    BY <1>3, <1>4, <1>7, <2>1, <2>2
<1> QED
  BY <1>1, <1>6, <1>7

----------------------------------------------------------------------------
(* Every step keeps the invariant. *)

LEMMA NowIs ==
  ASSUME day \in Days, NEW t \in Now
  PROVE  t \in Days /\ day <= t
<1>1. day \in Int
  BY PortLogAssumption DEF Days
<1> QED
  BY <1>1 DEF Now

LEMMA ItemsNext ==
  ASSUME TypeOK, NEW c \in Chunks
  PROVE  /\ c \in Seq(BOOLEAN) /\ c # <<>> /\ Len(c) \in Nat \ {0} /\ Last(c) \in BOOLEAN
         /\ Items(c) \in Seq(Item) /\ Items(c) # <<>>
         /\ \A i \in 1..Len(Items(c)) : Items(c)[i].kind # "header"
         /\ Advances(Items(c), handed, handed + Len(c))
         /\ Stamps => Fresh(Items(c)) /\ (Items(c)[1].kind = "byte" => ~atBOL)
         /\ ~Last(c) => ~Ends(Items(c))
<1>1. c \in Seq(BOOLEAN) /\ c # <<>>
  BY PortLogAssumption
<1>2. Len(c) \in Nat /\ Len(c) > 0 /\ Len(c) \in 1..Len(c)
  BY <1>1
<1>3. Last(c) = c[Len(c)] /\ Last(c) \in BOOLEAN
  BY <1>1, <1>2, ElementOfSeq DEF Last
<1>4. GoodItems(Items(c), c, Len(c))
  BY <1>1, ItemsGood, WriterIs
<1>5. \A i \in 1..Len(Items(c)) : Items(c)[i].kind # "header"
  BY <1>4 DEF GoodItems
<1>6. ~Last(c) => ~Ends(Items(c))
  BY <1>2, <1>3, <1>4 DEF GoodItems, Ends
<1> QED
  BY <1>1, <1>2, <1>3, <1>4, <1>5, <1>6 DEF GoodItems

(* The writer after a chunk is buffered. *)
LEMMA ChunkFine ==
  ASSUME LogInv, ~err, NEW c \in Chunks
  PROVE  /\ Joined(Writer, Items(c)) \in Writers
         /\ Joined(Writer, Items(c)).cur = cur /\ Joined(Writer, Items(c)).disk = disk
         /\ Joined(Writer, Items(c)).buf = buf \o Items(c)
         /\ Fine(Joined(Writer, Items(c)), day, handed + Len(c), lost, Last(c), faults, ended)
<1>1. TypeOK /\ Fine(Writer, day, handed, lost, atBOL, faults, ended)
  BY DEF LogInv
<1>2. handed + Len(c) \in Nat /\ handed <= handed + Len(c)
  BY <1>1, WriterIs, ItemsNext
<1>3. PICK s \in Seq(Item) : s = Items(c)
  BY <1>1, ItemsNext
<1>4. /\ s # <<>> /\ Advances(s, handed, handed + Len(c))
      /\ \A i \in 1..Len(s) : s[i].kind # "header"
      /\ Stamps => Fresh(s) /\ (s[1].kind = "byte" => ~atBOL)
      /\ ~Last(c) => ~Ends(s)
  BY <1>1, <1>3, ItemsNext
<1>5. Fine(Joined(Writer, s), day, handed + Len(c), lost, Last(c), faults, ended)
  BY <1>1, <1>2, <1>4, FineJoined, WriterIs
<1>6. /\ Joined(Writer, s) \in Writers
      /\ Joined(Writer, s).cur = cur /\ Joined(Writer, s).disk = disk
      /\ Joined(Writer, s).buf = buf \o s
  BY <1>1, WriterIs, JoinedIs
<1> QED
  BY <1>3, <1>5, <1>6

LEMMA QuietStep ==
  ASSUME LogInv, NEW c \in Chunks, WriteQuiet(c)
  PROVE  LogInv'
<1>1. TypeOK /\ Sound(disk, day, lost) /\ err /\ faults # 0
  BY DEF LogInv, WriteQuiet
<1>2. handed' \in 0..MaxBytes /\ handed <= handed'
  BY <1>1, WriterIs, ItemsNext, PortLogAssumption DEF WriteQuiet, Hand, TypeOK
<1>3. TypeOK'
  <2>1. 1..handed \subseteq 1..handed'
    BY <1>1, <1>2, WriterIs
  <2>2. ended' \subseteq [n : 1..handed', day : Days] /\ lost' \subseteq 1..handed'
    BY <1>1, <2>1 DEF TypeOK, WriteQuiet
  <2> QED
    BY <1>1, <1>2, <2>2 DEF TypeOK, WriteQuiet
<1>4. Sound(disk, day, lost)'
  BY <1>1 DEF WriteQuiet
<1>5. err' /\ faults' # 0
  BY <1>1 DEF WriteQuiet
<1> QED
  BY <1>3, <1>4, <1>5 DEF LogInv

LEMMA BuffersStep ==
  ASSUME LogInv, NEW c \in Chunks, WriteBuffers(c)
  PROVE  LogInv'
<1>1. TypeOK /\ ~err
  BY DEF LogInv, WriteBuffers
<1>2. handed' = handed + Len(c) /\ handed' \in 0..MaxBytes /\ handed <= handed'
  BY <1>1, WriterIs, ItemsNext, PortLogAssumption DEF WriteBuffers, Hand
<1>3. buf' = buf \o Items(c) /\ buf' \in Seq(Item) /\ Len(buf') < FlushAt
  <2>1. buf' = buf \o Items(c)
    BY DEF WriteBuffers
  <2>2. buf' \in Seq(Item)
    BY <1>1, <2>1, ItemsNext, JoinIs DEF TypeOK
  <2>3. ~(Len(buf') >= FlushAt)
    BY <2>1 DEF WriteBuffers, Due
  <2>4. FlushAt \in Nat /\ Len(buf') \in Nat
    BY <2>2, PortLogAssumption
  <2> QED
    BY <2>1, <2>2, <2>3, <2>4
<1>4. TypeOK'
  <2>1. 1..handed \subseteq 1..handed'
    BY <1>1, <1>2, WriterIs
  <2>2. ended' \subseteq [n : 1..handed', day : Days] /\ lost' \subseteq 1..handed'
    BY <1>1, <2>1 DEF TypeOK, WriteBuffers
  <2>3. atBOL' \in BOOLEAN
    BY <1>1, ItemsNext DEF WriteBuffers
  <2> QED
    BY <1>1, <1>2, <1>3, <2>2, <2>3 DEF TypeOK, WriteBuffers
<1>5. Writer' = Joined(Writer, Items(c))
  <2>1. /\ Joined(Writer, Items(c)) \in Writers
        /\ Joined(Writer, Items(c)).cur = cur' /\ Joined(Writer, Items(c)).disk = disk'
        /\ Joined(Writer, Items(c)).buf = buf'
    BY <1>1, <1>3, ChunkFine DEF WriteBuffers
  <2> QED
    BY <2>1 DEF Writer, Writers
<1>6. Fine(Joined(Writer, Items(c)), day, handed + Len(c), lost, Last(c), faults, ended)
  BY <1>1, ChunkFine
<1>7. /\ day' = day /\ lost' = lost /\ atBOL' = Last(c) /\ faults' = faults /\ ended' = ended
      /\ err' = err /\ disk' = disk
  BY DEF WriteBuffers
<1>8. Fine(Writer, day, handed, lost, atBOL, faults, ended)'
  BY <1>2, <1>5, <1>6, <1>7
<1>9. Sound(disk, day, lost)'
  BY <1>7 DEF LogInv
<1> QED
  BY <1>1, <1>4, <1>7, <1>8, <1>9 DEF LogInv

LEMMA FlushesStep ==
  ASSUME LogInv, NEW c \in Chunks, WriteFlushes(c)
  PROVE  LogInv'
<1>1. TypeOK /\ ~err
  BY DEF LogInv, WriteFlushes
<1>2. PICK w \in Writers : w = Joined(Writer, Items(c))
  BY <1>1, ChunkFine
<1>3. PICK t \in Now :
        /\ day' = t
        /\ \E r \in Outcomes(w, t) : Become(r) /\ err' = ~r.ok
        /\ ended' = ended \union
             {[n |-> handed + i, day |-> t] : i \in {j \in 1..Len(c) : c[j]}}
  BY <1>2 DEF WriteFlushes, Joined
<1>4. PICK r \in Outcomes(w, t) : Become(r) /\ err' = ~r.ok
  BY <1>3
<1>5. /\ atBOL' = Last(c) /\ notes' = notes /\ lost' = lost
      /\ Hand(c)
  BY DEF WriteFlushes
<1>6. t \in Days /\ day <= t /\ day \in Days
  BY <1>1, NowIs, WriterIs
<1>7. handed' = handed + Len(c) /\ handed' \in 0..MaxBytes /\ handed <= handed'
  BY <1>1, <1>5, WriterIs, ItemsNext, PortLogAssumption DEF Hand
<1>8. /\ Writer' = r.to
      /\ cur' \in Days \union {Closed} /\ disk' \in [Days -> Seq(Item)] /\ buf' \in Seq(Item)
      /\ faults' \in 0..MaxFaults
      /\ \/ r.ok = TRUE /\ faults' = faults /\ buf' = <<>>
         \/ r.ok = FALSE /\ faults' = faults + 1 /\ faults' # 0
  BY <1>1, <1>4, <1>6, BecomeIs
<1>9. TypeOK'
  <2>1. 1..handed \subseteq 1..handed'
    BY <1>1, <1>7, WriterIs
  <2>2. \A i \in 1..Len(c) : handed + i \in 1..handed'
    BY <1>1, <1>7, WriterIs, ItemsNext
  <2>3. ended' \subseteq [n : 1..handed', day : Days]
    BY <1>1, <1>3, <1>6, <2>1, <2>2 DEF TypeOK
  <2>4. lost' \subseteq 1..handed'
    BY <1>1, <1>5, <2>1 DEF TypeOK
  <2>5. atBOL' \in BOOLEAN /\ err' \in BOOLEAN
    BY <1>1, <1>4, <1>5, <1>8, ItemsNext
  <2>6. faults' = 0 => Len(buf') < FlushAt
    <3>1. Len(<<>>) < FlushAt
      BY PortLogAssumption
    <3> QED
      BY <1>8, <3>1
  <2> QED
    BY <1>1, <1>3, <1>5, <1>6, <1>7, <1>8, <2>3, <2>4, <2>5, <2>6 DEF TypeOK
<1>10. /\ w.buf = buf \o Items(c)
       /\ Fine(w, day, handed', lost, Last(c), faults, ended)
  BY <1>1, <1>2, <1>7, ChunkFine
<1>11. /\ r.ok = TRUE => /\ Fine(r.to, t, handed', lost, Last(c), faults, ended)
                         /\ \A m : In(w.buf, m) => In(r.to.disk[t], m)
       /\ r.ok = FALSE => Fine(r.to, t, handed', lost, Last(c), faults + 1, ended)
  BY <1>1, <1>6, <1>10, FineOutcome, WriterIs
<1>12. Writer'.disk = disk'
  BY DEF Writer
<1>13. CASE r.ok = TRUE
  <2>1. ASSUME NEW e \in ended', faults = 0 PROVE In(r.to.disk[e.day], e.n)
    <3>1. CASE e \in ended
      BY <1>11, <1>13, <2>1, <3>1 DEF Fine
    <3>2. ASSUME NEW i \in 1..Len(c), e = [n |-> handed + i, day |-> t]
          PROVE  In(r.to.disk[e.day], e.n)
      <4>1. handed + i \in (handed + 1)..(handed + Len(c))
        BY <1>1, WriterIs, ItemsNext
      <4>2. In(Items(c), handed + i)
        BY <1>1, <4>1, ItemsNext DEF Advances
      <4>3. In(w.buf, handed + i)
        <5>1. buf \in Seq(Item) /\ Items(c) \in Seq(Item)
          BY <1>1, ItemsNext DEF TypeOK
        <5>2. In(buf \o Items(c), handed + i)
          BY <4>2, <5>1, JoinIn
        <5> QED
          BY <1>10, <5>2
      <4>4. e.day = t /\ e.n = handed + i
        BY <3>2
      <4> QED
        BY <1>11, <1>13, <4>3, <4>4
    <3> QED
      BY <1>3, <3>1, <3>2
  <2>2. Fine(r.to, t, handed', lost, Last(c), faults, ended')
    BY <1>11, <1>13, <2>1 DEF Fine
  <2>3. ~err' /\ faults' = faults
    BY <1>4, <1>8, <1>13
  <2>4. Fine(Writer, day, handed, lost, atBOL, faults, ended)'
    BY <1>3, <1>5, <1>8, <2>2, <2>3
  <2>5. Sound(disk, day, lost)'
    BY <1>12, <2>4 DEF Fine
  <2> QED
    BY <1>9, <2>3, <2>4, <2>5 DEF LogInv
<1>14. CASE r.ok = FALSE
  <2>1. Sound(r.to.disk, t, lost)
    BY <1>11, <1>14 DEF Fine
  <2>2. Sound(disk, day, lost)'
    BY <1>3, <1>5, <1>8, <1>12, <2>1
  <2>3. err' /\ faults' # 0
    BY <1>4, <1>8, <1>14
  <2> QED
    BY <1>9, <2>2, <2>3 DEF LogInv
<1> QED
  BY <1>8, <1>13, <1>14

(* The marker of a note ends the line. *)
LEMMA MarkerFine ==
  ASSUME TypeOK, NEW w \in Writers, NEW k \in Nat, NEW t,
         Fine(w, t, handed, lost, atBOL, faults, ended)
  PROVE  /\ [w EXCEPT !.buf = Append(@, Marker(k))] \in Writers
         /\ Fine([w EXCEPT !.buf = Append(@, Marker(k))], t, handed, lost, TRUE, faults, ended)
<1>1. PICK x : x = Marker(k)
  OBVIOUS
<1>2. x \in Item /\ x.kind = "note"
  BY <1>1, WriterIs DEF Marker, Item
<1>3. <<x>> \in Seq(Item) /\ <<x>> # <<>> /\ Len(<<x>>) = 1 /\ <<x>>[1] = x
  BY <1>2
<1>4. PICK s \in Seq(Item) : s = <<x>>
  BY <1>3
<1>5. /\ s # <<>> /\ \A i \in 1..Len(s) : s[i].kind = "note"
      /\ s[1].kind = "note" /\ Fresh(s)
  BY <1>2, <1>3, <1>4, FreshSmall
<1>6. Advances(s, handed, handed)
  <2>1. (handed + 1)..handed = {}
    BY WriterIs
  <2> QED
    BY <1>5, <2>1 DEF Advances
<1>7. [w EXCEPT !.buf = Append(@, Marker(k))] = Joined(w, s)
  <2>1. w.buf \in Seq(Item)
    BY DEF Writers
  <2>2. Append(w.buf, x) = w.buf \o <<x>>
    BY <1>2, <2>1, AppendIsConcat
  <2> QED
    BY <1>1, <1>4, <2>2 DEF Joined
<1>8. handed <= handed /\ handed \in Nat /\ lost \subseteq 1..handed
  BY WriterIs
<1>9. \A i \in 1..Len(s) : s[i].kind # "header"
  BY <1>5
<1>10. Fine(Joined(w, s), t, handed, lost, TRUE, faults, ended)
  BY <1>5, <1>6, <1>8, <1>9, FineJoined
<1> QED
  BY <1>7, <1>10, JoinedIs

LEMMA NoteMarksStep ==
  ASSUME TypeOK, ~err, NEW w \in Writers, NEW since \in Days, day <= since,
         Fine(w, since, handed, lost, atBOL, faults, ended),
         notes' = notes + 1, notes < MaxNotes, UNCHANGED <<err, handed, ended, lost>>,
         NoteMarks(w, since)
  PROVE  LogInv'
<1>1. PICK t \in Now :
        /\ t >= since /\ day' = t /\ atBOL' = TRUE
        /\ \E r \in Outcomes([w EXCEPT !.buf = Append(@, Marker(notes'))], t) : Become(r)
  BY DEF NoteMarks
<1>2. PICK v \in Writers : /\ v = [w EXCEPT !.buf = Append(@, Marker(notes'))]
                           /\ Fine(v, since, handed, lost, TRUE, faults, ended)
  <2>1. PICK k \in Nat : k = notes'
    BY WriterIs
  <2> QED
    BY <2>1, MarkerFine
<1>3. PICK r \in Outcomes(v, t) : Become(r)
  BY <1>1, <1>2
<1>4. t \in Days /\ since <= t
  BY <1>1, NowIs, WriterIs, PortLogAssumption DEF Days
<1>5. /\ Writer' = r.to
      /\ cur' \in Days \union {Closed} /\ disk' \in [Days -> Seq(Item)] /\ buf' \in Seq(Item)
      /\ faults' \in 0..MaxFaults
      /\ \/ r.ok = TRUE /\ faults' = faults /\ buf' = <<>>
         \/ r.ok = FALSE /\ faults' = faults + 1 /\ faults' # 0
  BY <1>3, <1>4, BecomeIs
<1>6. TypeOK'
  <2>1. notes' \in 0..MaxNotes
    BY WriterIs, PortLogAssumption
  <2>2. faults' = 0 => Len(buf') < FlushAt
    <3>1. Len(<<>>) < FlushAt
      BY PortLogAssumption
    <3> QED
      BY <1>5, <3>1
  <2> QED
    BY <1>1, <1>4, <1>5, <2>1, <2>2 DEF TypeOK
<1>7. Fine(r.to, t, handed, lost, TRUE, faults', ended)
  <2>1. /\ r.ok = TRUE => Fine(r.to, t, handed, lost, TRUE, faults, ended)
        /\ r.ok = FALSE => Fine(r.to, t, handed, lost, TRUE, faults + 1, ended)
    <3>1. faults \in Nat /\ ended \in SUBSET [n : Nat, day : Days]
      BY WriterIs
    <3>2. Fine(v, since, handed, lost, TRUE, faults, ended)
      BY <1>2
    <3> QED
      BY <1>4, <3>1, <3>2, FineOutcome
  <2> QED
    BY <1>5, <2>1
<1>8. Fine(Writer, day, handed, lost, atBOL, faults, ended)'
  BY <1>1, <1>5, <1>7
<1>9. Writer'.disk = disk'
  BY DEF Writer
<1>10. Sound(disk, day, lost)' /\ ~err'
  BY <1>8, <1>9 DEF Fine
<1> QED
  BY <1>6, <1>8, <1>10 DEF LogInv

LEMMA NoteStep ==
  ASSUME LogInv, Note
  PROVE  LogInv'
<1>1. /\ TypeOK /\ ~err /\ Fine(Writer, day, handed, lost, atBOL, faults, ended)
      /\ notes < MaxNotes /\ notes' = notes + 1
      /\ UNCHANGED <<err, handed, ended, lost>>
  BY DEF LogInv, Note
<1>2. Writer \in Writers /\ day \in Days /\ faults \in Nat /\ ended \in SUBSET [n : Nat, day : Days]
  BY <1>1, WriterIs
<1>3. CASE buf = <<>>
  <2>1. NoteMarks(Writer, day)
    BY <1>3 DEF Note
  <2>2. day <= day
    BY <1>2, PortLogAssumption DEF Days
  <2> QED
    BY <1>1, <1>2, <2>1, <2>2, NoteMarksStep
<1>4. CASE buf # <<>>
  <2>0. PICK t \in Now : \E r \in Outcomes(Writer, t) :
          IF r.ok THEN NoteMarks(r.to, t)
                  ELSE Become(r) /\ day' = t /\ UNCHANGED atBOL
    BY <1>4 DEF Note
  <2>1. PICK r \in Outcomes(Writer, t) :
          IF r.ok THEN NoteMarks(r.to, t)
                  ELSE Become(r) /\ day' = t /\ UNCHANGED atBOL
    BY <2>0
  <2>2. t \in Days /\ day <= t
    BY <1>2, NowIs
  <2>3. /\ r.to \in Writers /\ r.ok \in BOOLEAN
        /\ r.ok = TRUE => Fine(r.to, t, handed, lost, atBOL, faults, ended)
        /\ r.ok = FALSE => Fine(r.to, t, handed, lost, atBOL, faults + 1, ended)
    <3>1. r.to \in Writers /\ r.ok \in BOOLEAN
      BY <1>2, <2>2, OutcomeIs
    <3> QED
      BY <1>1, <1>2, <2>2, <3>1, FineOutcome
  <2>4. CASE r.ok = TRUE
    <3>1. NoteMarks(r.to, t)
      BY <2>1, <2>4
    <3>2. Fine(r.to, t, handed, lost, atBOL, faults, ended)
      BY <2>3, <2>4
    <3> QED
      BY <1>1, <2>2, <2>3, <3>1, <3>2, NoteMarksStep
  <2>5. CASE r.ok = FALSE
    <3>1. Become(r) /\ day' = t /\ atBOL' = atBOL
      BY <2>1, <2>5
    <3>2. /\ Writer' = r.to
          /\ cur' \in Days \union {Closed} /\ disk' \in [Days -> Seq(Item)] /\ buf' \in Seq(Item)
          /\ faults' \in 0..MaxFaults /\ faults' = faults + 1 /\ faults' # 0
      BY <1>1, <1>2, <2>2, <2>5, <3>1, BecomeIs
    <3>3. notes' \in 0..MaxNotes
      BY <1>1, WriterIs, PortLogAssumption
    <3>4. TypeOK'
      BY <1>1, <2>2, <3>1, <3>2, <3>3 DEF TypeOK
    <3>5. Fine(r.to, t, handed, lost, atBOL, faults + 1, ended)
      BY <2>3, <2>5
    <3>6. Fine(Writer, day, handed, lost, atBOL, faults, ended)'
      BY <1>1, <3>1, <3>2, <3>5
    <3>7. Writer'.disk = disk'
      BY DEF Writer
    <3>8. Sound(disk, day, lost)' /\ ~err'
      BY <1>1, <3>6, <3>7 DEF Fine
    <3> QED
      BY <3>4, <3>6, <3>8 DEF LogInv
  <2> QED
    BY <2>3, <2>4, <2>5
<1> QED
  BY <1>3, <1>4

LEMMA CloseStep ==
  ASSUME LogInv, Close
  PROVE  LogInv'
<1>1. TypeOK /\ UNCHANGED <<atBOL, err, handed, notes, ended, lost>>
  BY DEF LogInv, Close
<1>2. /\ Writer \in Writers /\ Writer.disk = disk /\ Writer.buf = buf
      /\ day \in Days /\ faults \in Nat /\ ended \in SUBSET [n : Nat, day : Days]
  BY <1>1, WriterIs
<1>3. /\ Writer'.cur = cur' /\ Writer'.disk = disk' /\ Writer'.buf = buf'
      /\ Writer' = [cur |-> cur', disk |-> disk', buf |-> buf']
  BY DEF Writer
<1>4. CASE buf = <<>> \/ err
  <2>1. cur' = Closed /\ UNCHANGED <<day, disk, buf, faults>>
    BY <1>4 DEF Close
  <2>2. TypeOK'
    BY <1>1, <2>1 DEF TypeOK
  <2>3. Sound(disk, day, lost)' /\ (err => faults # 0)'
    BY <1>1, <2>1 DEF LogInv
  <2>4. ASSUME ~err PROVE Fine(Writer, day, handed, lost, atBOL, faults, ended)'
    <3>1. Fine(Writer, day, handed, lost, atBOL, faults, ended)
      BY <2>4 DEF LogInv
    <3>2. PICK v : v = Writer'
      OBVIOUS
    <3>3. v.cur = Closed /\ v.disk = Writer.disk /\ v.buf = Writer.buf
      BY <1>2, <1>3, <2>1, <3>2
    <3>4. v \in Writers
      BY <1>2, <1>3, <2>1, <3>2 DEF Writers
    <3>5. Fine(v, day, handed, lost, atBOL, faults, ended)
      BY <1>2, <3>1, <3>3, <3>4, FineClosed
    <3> QED
      BY <1>1, <2>1, <3>2, <3>5
  <2> QED
    BY <1>1, <2>2, <2>3, <2>4 DEF LogInv
<1>5. CASE buf # <<>> /\ ~err
  <2>0. PICK t \in Now : \E r \in Outcomes(Writer, t) :
          day' = t /\ Become([r EXCEPT !.to.cur = Closed])
    BY <1>5 DEF Close
  <2>1. PICK r \in Outcomes(Writer, t) :
          day' = t /\ Become([r EXCEPT !.to.cur = Closed])
    BY <2>0
  <2>2. t \in Days /\ day <= t
    BY <1>2, <2>1, NowIs
  <2>3. /\ r.to \in Writers
        /\ \/ r.ok = TRUE /\ r.to.buf = <<>>
           \/ r.ok = FALSE /\ faults < MaxFaults
    <3>1. Succeeds(Writer, t, r) => r.to.buf = <<>>
      BY DEF Succeeds
    <3> QED
      BY <1>2, <2>2, <3>1, OutcomeIs
  <2>4. /\ cur' = Closed /\ disk' = r.to.disk /\ buf' = r.to.buf
        /\ faults' = IF r.ok THEN faults ELSE faults + 1
    <3>1. r \in [to : Writers, ok : BOOLEAN]
      <4>1. \E x, b : r = [to |-> x, ok |-> b]
        BY DEF Outcomes
      <4> QED
        BY <2>3, <4>1
    <3>2. [r EXCEPT !.to.cur = Closed] = [to |-> [r.to EXCEPT !.cur = Closed], ok |-> r.ok]
      BY <3>1
    <3>3. PICK x : x = [r.to EXCEPT !.cur = Closed]
      OBVIOUS
    <3>4. x.cur = Closed /\ x.disk = r.to.disk /\ x.buf = r.to.buf
      BY <2>3, <3>3 DEF Writers
    <3>5. Become([to |-> x, ok |-> r.ok])
      BY <2>1, <3>2, <3>3
    <3> QED
      BY <3>4, <3>5 DEF Become
  <2>5. PICK v \in Writers : /\ v = Writer' /\ v.cur = Closed
                             /\ v.disk = r.to.disk /\ v.buf = r.to.buf
    BY <1>3, <2>3, <2>4 DEF Writers
  <2>6. \/ r.ok = TRUE /\ faults' = faults /\ buf' = <<>>
        \/ r.ok = FALSE /\ faults' = faults + 1 /\ faults' # 0 /\ faults < MaxFaults
    BY <1>2, <2>3, <2>4
  <2>7. /\ r.ok = TRUE => Fine(r.to, t, handed, lost, atBOL, faults, ended)
        /\ r.ok = FALSE => Fine(r.to, t, handed, lost, atBOL, faults + 1, ended)
    <3>1. Fine(Writer, day, handed, lost, atBOL, faults, ended)
      BY <1>5 DEF LogInv
    <3> QED
      BY <1>2, <2>2, <3>1, FineOutcome
  <2>8. Fine(r.to, t, handed, lost, atBOL, faults', ended)
    BY <2>6, <2>7
  <2>9. Fine(v, t, handed, lost, atBOL, faults', ended)
    BY <2>3, <2>5, <2>8, FineClosed
  <2>10. Fine(Writer, day, handed, lost, atBOL, faults, ended)'
    BY <1>1, <2>1, <2>5, <2>9
  <2>11. Sound(disk, day, lost)' /\ ~err'
    BY <1>1, <1>3, <1>5, <2>10 DEF Fine
  <2>12. TypeOK'
    <3>1. faults' \in 0..MaxFaults
      BY <1>1, <1>2, <2>6, PortLogAssumption DEF TypeOK
    <3>2. faults' = 0 => Len(buf') < FlushAt
      <4>1. Len(<<>>) < FlushAt
        BY PortLogAssumption
      <4> QED
        BY <2>6, <4>1
    <3>3. disk' \in [Days -> Seq(Item)] /\ buf' \in Seq(Item)
      BY <2>3, <2>4 DEF Writers, Disks
    <3> QED
      BY <1>1, <2>1, <2>2, <2>4, <3>1, <3>2, <3>3 DEF TypeOK
  <2> QED
    BY <2>10, <2>11, <2>12 DEF LogInv
<1> QED
  BY <1>4, <1>5

(* What dies with a daemon was on no disk. *)
LEMMA RestartStep ==
  ASSUME LogInv, Restart
  PROVE  LogInv'
<1>1. /\ TypeOK /\ Sound(disk, day, lost)
      /\ cur' = Closed /\ buf' = <<>> /\ atBOL' = TRUE /\ err' = FALSE
      /\ lost' = (1..handed) \ OnDisk
      /\ UNCHANGED <<day, disk, handed, notes, faults, ended>>
  BY DEF LogInv, Restart
<1>2. \A m \in 1..handed : m \in lost' <=> ~OnFile(disk, m)
  BY <1>1 DEF OnDisk, Holds, OnFile, In, ByteAt
<1>3. TypeOK'
  <2>1. Len(<<>>) < FlushAt /\ <<>> \in Seq(Item)
    BY PortLogAssumption
  <2> QED
    BY <1>1, <2>1 DEF TypeOK
<1>4. Sound(disk, day, lost')
  <2>1. \A d \in Days : d > day => disk[d] = <<>>
    BY <1>1 DEF Sound
  <2>2. \A m \in lost' : ~OnFile(disk, m)
    BY <1>1, <1>2
  <2>3. ASSUME NEW d \in Days, NEW i \in 1..Len(disk[d]), disk[d][i].kind = "byte",
               NEW m, m \in (1..(disk[d][i].n - 1)) \ lost'
        PROVE  Earlier(disk, d, i, m)
    <3>1. m \notin lost
      <4>1. ASSUME m \in lost PROVE FALSE
        <5>1. m \in 1..handed
          BY <1>1, <4>1 DEF TypeOK
        <5>2. ~OnFile(disk, m)
          BY <1>1, <4>1 DEF Sound
        <5> QED
          BY <1>2, <2>3, <5>1, <5>2
      <4> QED
        BY <4>1
    <3> QED
      BY <1>1, <2>3, <3>1 DEF Sound, Whole
  <2>4. Whole(disk, lost')
    BY <2>3 DEF Whole
  <2> QED
    BY <2>1, <2>2, <2>4 DEF Sound
<1>5. Buffered(disk, <<>>, handed, lost')
  <2>1. Len(<<>>) = 0 /\ 1..0 = {}
    OBVIOUS
  <2>2. \A m \in (1..handed) \ lost' : OnFile(disk, m)
    BY <1>2
  <2> QED
    BY <2>1, <2>2 DEF Buffered
<1>6. PICK v : /\ v = Writer' /\ v.cur = Closed /\ v.disk = disk /\ v.buf = <<>>
  <2>1. PICK v : v = Writer'
    OBVIOUS
  <2>2. v = [cur |-> cur', disk |-> disk', buf |-> buf']
    BY <2>1 DEF Writer
  <2>3. v.cur = Closed /\ v.disk = disk /\ v.buf = <<>>
    BY <1>1, <2>2
  <2> QED
    BY <2>1, <2>3
<1>7. ASSUME faults = 0
      PROVE  /\ Headed(v) /\ (Stamps => Stamped(v, day, TRUE))
             /\ \A e \in ended : In(v.disk[e.day], e.n)
  <2>1. Fine(Writer, day, handed, lost, atBOL, faults, ended)
    BY <1>7 DEF LogInv
  <2>2. Writer.disk = disk /\ Closed \notin Days
    BY <1>1, WriterIs, PortLogAssumption
  <2>3. Headed(v)
    BY <1>6, <1>7, <2>1, <2>2 DEF Fine, Headed
  <2>4. Stamps => Stamped(v, day, TRUE)
    BY <1>6, <1>7, <2>1, <2>2, FreshSmall DEF Fine, Stamped
  <2>5. \A e \in ended : In(v.disk[e.day], e.n)
    BY <1>6, <1>7, <2>1, <2>2 DEF Fine
  <2> QED
    BY <2>3, <2>4, <2>5
<1>8. Fine(v, day, handed, lost', TRUE, faults, ended)
  BY <1>4, <1>5, <1>6, <1>7 DEF Fine
<1>9. Fine(Writer, day, handed, lost, atBOL, faults, ended)'
  BY <1>1, <1>6, <1>8
<1>10. Sound(disk, day, lost)' /\ ~err'
  BY <1>1, <1>4
<1> QED
  BY <1>3, <1>9, <1>10 DEF LogInv

LEMMA MidnightStep ==
  ASSUME LogInv, Midnight
  PROVE  LogInv'
<1>1. /\ TypeOK /\ day < MaxDay /\ day' = day + 1
      /\ UNCHANGED <<cur, disk, buf, atBOL, err, handed, notes, faults, ended, lost>>
  BY DEF LogInv, Midnight
<1>2. day \in Days /\ day' \in Days /\ day <= day'
  BY <1>1, WriterIs, PortLogAssumption DEF Days
<1>3. PICK t \in Days : t = day' /\ day <= t
  BY <1>2
<1>4. Writer' = Writer
  BY <1>1 DEF Writer
<1>5. Sound(disk, t, lost)
  BY <1>2, <1>3, LaterSound DEF LogInv
<1>6. ~err => Fine(Writer, t, handed, lost, atBOL, faults, ended)
  BY <1>2, <1>3, FineLater DEF LogInv
<1>7. TypeOK'
  BY <1>1, <1>2 DEF TypeOK
<1>8. Sound(disk, day, lost)' /\ (err => faults # 0)'
  BY <1>1, <1>3, <1>5 DEF LogInv
<1>9. (~err => Fine(Writer, day, handed, lost, atBOL, faults, ended))'
  BY <1>1, <1>3, <1>4, <1>6
<1> QED
  BY <1>7, <1>8, <1>9 DEF LogInv

LEMMA InitLog == Init => LogInv
<1> SUFFICES ASSUME Init PROVE LogInv
  OBVIOUS
<1>1. /\ day = 0 /\ cur = Closed /\ disk = NoFiles /\ buf = <<>> /\ atBOL = TRUE /\ err = FALSE
      /\ handed = 0 /\ notes = 0 /\ faults = 0 /\ ended = {} /\ lost = {}
  BY DEF Init, NoFiles
<1>2. /\ 0 \in Days /\ Closed \notin Days /\ Len(<<>>) = 0 /\ 1..0 = {}
      /\ Len(<<>>) < FlushAt /\ <<>> \in Seq(Item)
  BY PortLogAssumption DEF Days
<1>3. NoFiles \in [Days -> Seq(Item)] /\ \A d \in Days : NoFiles[d] = <<>>
  BY <1>2 DEF NoFiles
<1>4. TypeOK
  BY <1>1, <1>2, <1>3, PortLogAssumption DEF TypeOK
<1>5. Sound(NoFiles, 0, {})
  <2>1. Whole(NoFiles, {})
    BY <1>2, <1>3 DEF Whole
  <2> QED
    BY <1>3, <2>1 DEF Sound
<1>6. Buffered(NoFiles, <<>>, 0, {})
  BY <1>2 DEF Buffered
<1>7. PICK w : w = Writer
  OBVIOUS
<1>8. w.cur = Closed /\ w.disk = NoFiles /\ w.buf = <<>>
  BY <1>1, <1>7 DEF Writer
<1>9. Headed(w)
  BY <1>2, <1>3, <1>8 DEF Headed
<1>10. Stamped(w, 0, TRUE)
  BY <1>3, <1>8, FreshSmall DEF Stamped
<1>11. Fine(w, 0, 0, {}, TRUE, 0, {})
  BY <1>5, <1>6, <1>8, <1>9, <1>10 DEF Fine
<1> QED
  BY <1>1, <1>4, <1>5, <1>7, <1>11 DEF LogInv

LEMMA StepLog == LogInv /\ [Next]_vars => LogInv'
<1> SUFFICES ASSUME LogInv, [Next]_vars PROVE LogInv'
  OBVIOUS
<1>1. CASE \E c \in Chunks : WriteQuiet(c) \/ WriteBuffers(c) \/ WriteFlushes(c)
  BY <1>1, QuietStep, BuffersStep, FlushesStep
<1>2. CASE Note
  BY <1>2, NoteStep
<1>3. CASE Close
  BY <1>3, CloseStep
<1>4. CASE Restart
  BY <1>4, RestartStep
<1>5. CASE Midnight
  BY <1>5, MidnightStep
<1>6. CASE UNCHANGED vars
  <2>1. TypeOK'
    BY <1>6 DEF LogInv, TypeOK, vars
  <2>2. Writer' = Writer
    BY <1>6 DEF Writer, vars
  <2>3. /\ day' = day /\ handed' = handed /\ lost' = lost /\ atBOL' = atBOL /\ faults' = faults
        /\ ended' = ended /\ disk' = disk /\ err' = err
    BY <1>6 DEF vars
  <2> QED
    BY <2>1, <2>2, <2>3 DEF LogInv
<1> QED
  BY <1>1, <1>2, <1>3, <1>4, <1>5, <1>6 DEF Next

LEMMA LogInvHolds == Spec => []LogInv
BY InitLog, StepLog, PTL DEF Spec

----------------------------------------------------------------------------
(* The types of all variables; and unless a flush has failed the buffer     *)
(* holds less than what makes Write flush it.                              *)
THEOREM TypeCorrect == Spec => []TypeOK
<1>1. LogInv => TypeOK
  BY DEF LogInv
<1> QED
  BY <1>1, LogInvHolds, PTL

(* Nothing that Write accepted is lost but with a daemon that dies: a line   *)
(* is in the file of the day on which the call returned as long as flushes  *)
(* succeed, and whatever fails the files have no hole.                      *)
THEOREM LinesKeptHolds == Spec => []LinesKept
<1>1. LogInv => LinesKept
  <2> SUFFICES ASSUME LogInv PROVE LinesKept
    OBVIOUS
  <2>1. NoHole
    <3>1. Whole(disk, lost)
      BY DEF LogInv, Sound
    <3> QED
      BY <3>1 DEF NoHole, Whole, Earlier, ByteAt
  <2>2. LineOnDisk
    <3> SUFFICES ASSUME faults = 0 PROVE \A e \in ended : Holds(e.day, e.n)
      BY DEF LineOnDisk
    <3>1. Fine(Writer, day, handed, lost, atBOL, faults, ended) /\ Writer.disk = disk
      BY WriterIs DEF LogInv
    <3>2. \A e \in ended : In(disk[e.day], e.n)
      BY <3>1 DEF Fine
    <3> QED
      BY <3>2 DEF Holds, In, ByteAt
  <2> QED
    BY <2>1, <2>2 DEF LinesKept
<1> QED
  BY <1>1, LogInvHolds, PTL

(* As long as flushes succeed every file begins with its one header, and    *)
(* with stamps every line that begins in a file begins with one.           *)
THEOREM FilesReadableHolds == Spec => []FilesReadable
<1>1. LogInv => FilesReadable
  <2> SUFFICES ASSUME LogInv, faults = 0 PROVE FilesReadable
    BY DEF FilesReadable, OneHeader, FreshLines
  <2>1. Fine(Writer, day, handed, lost, atBOL, faults, ended) /\ Writer.disk = disk
    BY WriterIs DEF LogInv
  <2>2. OneHeader
    BY <2>1 DEF Fine, Headed, OneHeader
  <2>3. FreshLines
    BY <2>1 DEF Fine, Stamped, Fresh, FreshLines
  <2> QED
    BY <2>2, <2>3 DEF FilesReadable
<1> QED
  BY <1>1, LogInvHolds, PTL

============================================================================
