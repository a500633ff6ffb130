---------------------------- MODULE StreamProofs ----------------------------
(***************************************************************************)
(* Proofs about Stream: what the ring and the log hold, and that the       *)
(* stream of every client is whole, for any number of clients, any ring,   *)
(* any queue, any size of the chunks a port returns and however long it    *)
(* sends.                                                                  *)
(***************************************************************************)
EXTENDS Stream, FlattenProofs, FiniteSetTheorems

Frames == Seq(1..MaxByte)

StreamTypes ==
  /\ next \in 0..MaxByte /\ wpc \in {"read", "fan", "log", "notice"}
  /\ chunk \in Frames /\ snap \subseteq Conns
  /\ ring \in Frames /\ log \in Frames /\ pconns \subseteq Conns
  /\ at \in [Conns -> {"out", "opened", "on", "closed", "off"}]
  /\ queue \in [Conns -> Seq(Frames)] /\ \A c \in Conns : Len(queue[c]) <= Depth
  /\ hand \in [Conns -> Frames \union {Nothing}]
  /\ got \in [Conns -> Frames] /\ done \in [Conns -> BOOLEAN]

(* s is the numbers up to last. *)
UpTo(s, last) == \A i \in 1..Len(s) : s[i] = last - Len(s) + i

(* What is in the ring, in the log and on its way to it. *)
WorkerHolds ==
  /\ UpTo(ring, next) /\ Len(ring) = IF next < RingSize THEN next ELSE RingSize
  /\ UpTo(chunk, next) /\ UpTo(log, Len(log)) /\ Len(log) + Len(chunk) = next
  /\ IF wpc \in {"fan", "log"} THEN Len(chunk) \in 1..MaxChunk ELSE chunk = <<>>

(* f counts upwards, but for one place after which it is d behind. *)
Runs(f, a, k, d) == \A i \in 1..Len(f) : f[i] = IF i <= k THEN a + i ELSE a + i - d
OneSeam(f) == \E a, k \in Nat, d \in 0..MaxChunk : Runs(f, a, k, d)
Seamless(f) == \E a \in Nat : Runs(f, a, Len(f), 0)

(* Where the stream f of an attached client stands when p is the last byte  *)
(* that was fanned out: there, or ahead of it, if the client has the chunk  *)
(* in flight, the bytes up to n, from the ring.  The seam is still to come  *)
(* then.                                                                   *)
StandsAt(f, p, flying, n) ==
  IF f = <<>> THEN p = 0
  ELSE f[Len(f)] = p \/ (flying /\ f[Len(f)] = n /\ Seamless(f))

Stands(c) == StandsAt(Flow(c), Published, wpc = "fan", next)

InStep(c) == c \in pconns /\ ~done[c] => Stands(c)

(* A connection that has not opened the port has been sent nothing. *)
Fresh(c) ==
  at[c] = "out" =>
    /\ c \notin pconns /\ c \notin snap /\ ~done[c]
    /\ queue[c] = <<>> /\ hand[c] = Nothing /\ got[c] = <<>>

Streams == \A c \in Conns : OneSeam(Flow(c)) /\ InStep(c) /\ Fresh(c)

(* The inductive invariant. *)
StreamInv == StreamTypes /\ WorkerHolds /\ Streams

----------------------------------------------------------------------------
(* The parts of a stream: received, in hand, queued. *)

Held(h) == IF h = Nothing THEN <<>> ELSE h
Whole(g, h, q) == g \o Held(h) \o FlattenSeq(q)

LEMMA FlowIs ==
  ASSUME NEW c
  PROVE  /\ Flow(c) = Whole(got[c], hand[c], queue[c])
         /\ Flow(c)' = Whole(got'[c], hand'[c], queue'[c])
BY DEF Flow, Whole, Held

LEMMA NoFrame == Nothing \notin Frames
<1>1. ASSUME Nothing \in Frames PROVE FALSE
  <2>1. Len(Nothing) = 1 /\ Nothing[1] = 0
    BY DEF Nothing
  <2>2. ASSUME NEW x \in Frames, Len(x) = 1 PROVE x[1] \in 1..MaxByte
    <3>1. 1 \in 1..Len(x)
      BY <2>2
    <3> QED
      BY <3>1, ElementOfSeq DEF Frames
  <2> QED
    BY <1>1, <2>1, <2>2
<1> QED
  BY <1>1

LEMMA FrameIs ==
  ASSUME NEW s \in Frames
  PROVE  Len(s) \in Nat /\ \A i \in 1..Len(s) : s[i] \in 1..MaxByte
BY LenProperties, ElementOfSeq DEF Frames

LEMMA FramesConcat ==
  ASSUME NEW s \in Frames, NEW t \in Frames
  PROVE  /\ s \o t \in Frames /\ Len(s) \in Nat /\ Len(t) \in Nat /\ Len(s \o t) = Len(s) + Len(t)
         /\ \A i \in 1..Len(s) + Len(t) :
              (s \o t)[i] = IF i <= Len(s) THEN s[i] ELSE t[i - Len(s)]
         /\ s \o <<>> = s /\ <<>> \o s = s
BY ConcatProperties, ConcatEmptySeq, LenProperties DEF Frames

LEMMA FramesAssociate ==
  ASSUME NEW s \in Frames, NEW t \in Frames, NEW u \in Frames
  PROVE  (s \o t) \o u = s \o (t \o u)
BY ConcatAssociative DEF Frames

LEMMA FrameFacts ==
  /\ Ctrl \in Frames /\ <<>> \in Frames
  /\ \A x \in Frames : Held(x) = x
  /\ \A h \in Frames \union {Nothing} : Held(h) \in Frames
  /\ Held(Nothing) = <<>>
<1>1. <<>> \in Frames
  BY EmptySeq DEF Frames
<1> QED
  BY <1>1, NoFrame DEF Ctrl, Held

LEMMA WholeType ==
  ASSUME NEW g \in Frames, NEW h \in Frames \union {Nothing}, NEW q \in Seq(Frames)
  PROVE  Whole(g, h, q) \in Frames
<1>1. Held(h) \in Frames /\ FlattenSeq(q) \in Frames
  BY FrameFacts, FlattenType DEF Frames
<1>2. g \o Held(h) \in Frames
  BY <1>1, FramesConcat
<1> QED
  BY <1>1, <1>2, FramesConcat DEF Whole

LEMMA WholeAppend ==
  ASSUME NEW g \in Frames, NEW h \in Frames \union {Nothing}, NEW q \in Seq(Frames),
         NEW x \in Frames
  PROVE  Whole(g, h, Append(q, x)) = Whole(g, h, q) \o x
<1>1. FlattenSeq(Append(q, x)) = FlattenSeq(q) \o x
  BY FlattenAppend DEF Frames
<1>2. Held(h) \in Frames /\ FlattenSeq(q) \in Frames
  BY FrameFacts, FlattenType DEF Frames
<1>3. g \o Held(h) \in Frames
  BY <1>2, FramesConcat
<1>4. (g \o Held(h)) \o (FlattenSeq(q) \o x) = ((g \o Held(h)) \o FlattenSeq(q)) \o x
  BY <1>2, <1>3, FramesAssociate
<1> QED
  BY <1>1, <1>4 DEF Whole

(* A control frame adds no serial byte. *)
LEMMA WholeCtrl ==
  ASSUME NEW g \in Frames, NEW h \in Frames \union {Nothing}, NEW q \in Seq(Frames)
  PROVE  Whole(g, h, Append(q, Ctrl)) = Whole(g, h, q)
<1>1. Whole(g, h, Append(q, Ctrl)) = Whole(g, h, q) \o <<>>
  BY WholeAppend, FrameFacts DEF Ctrl
<1>2. Whole(g, h, q) \in Frames
  BY WholeType
<1> QED
  BY <1>1, <1>2, FramesConcat

(* A frame that writeLoop takes, or writes, stays where it is in the stream. *)
LEMMA WholeTake ==
  ASSUME NEW g \in Frames, NEW q \in Seq(Frames), q # <<>>
  PROVE  Whole(g, Head(q), Tail(q)) = Whole(g, Nothing, q)
<1>1. Head(q) \in Frames /\ Tail(q) \in Seq(Frames)
  BY HeadTailProperties
<1>2. FlattenSeq(q) = Head(q) \o FlattenSeq(Tail(q))
  BY FlattenHead DEF Frames
<1>3. FlattenSeq(Tail(q)) \in Frames
  BY <1>1, FlattenType DEF Frames
<1>4. g \o (Head(q) \o FlattenSeq(Tail(q))) = (g \o Head(q)) \o FlattenSeq(Tail(q))
  BY <1>1, <1>3, FramesAssociate
<1>5. Held(Head(q)) = Head(q) /\ Held(Nothing) = <<>>
  BY <1>1, FrameFacts
<1>6. g \o <<>> = g
  BY FramesConcat
<1> QED
  BY <1>2, <1>4, <1>5, <1>6 DEF Whole

LEMMA WholeWrite ==
  ASSUME NEW g \in Frames, NEW h \in Frames, NEW q \in Seq(Frames)
  PROVE  Whole(g \o h, Nothing, q) = Whole(g, h, q)
<1>1. g \o h \in Frames
  BY FramesConcat
<1>2. (g \o h) \o <<>> = g \o h
  BY <1>1, FramesConcat
<1> QED
  BY <1>2, FrameFacts DEF Whole

LEMMA FlowType ==
  ASSUME StreamTypes, NEW c \in Conns
  PROVE  Flow(c) \in Frames
<1>1. got[c] \in Frames /\ hand[c] \in Frames \union {Nothing} /\ queue[c] \in Seq(Frames)
  BY DEF StreamTypes
<1>2. Whole(got[c], hand[c], queue[c]) \in Frames
  BY <1>1, WholeType
<1> QED
  BY <1>2, FlowIs

----------------------------------------------------------------------------
(* Sequences of numbers. *)

(* What is appended to a stream that stands at p is the chunk after p. *)
LEMMA Continues ==
  ASSUME NEW f \in Frames, OneSeam(f), NEW b \in Frames, NEW n \in Nat, Len(b) \in 1..MaxChunk,
         UpTo(b, n), Len(b) <= n, StandsAt(f, n - Len(b), TRUE, n)
  PROVE  OneSeam(f \o b) /\ f \o b # <<>> /\ (f \o b)[Len(f \o b)] = n
<1>m. PICK m : m = Len(f)
  OBVIOUS
<1>z. PICK z : z = Len(b)
  OBVIOUS
<1>h. PICK h : h = f \o b
  OBVIOUS
<1>1. /\ m \in Nat /\ z \in 1..MaxChunk /\ h \in Frames /\ Len(h) = m + z /\ z <= n
      /\ \A i \in 1..m + z : h[i] = IF i <= m THEN f[i] ELSE b[i - m]
  BY <1>m, <1>z, <1>h, FramesConcat
<1>0. m \in Nat /\ z \in Nat /\ z >= 1 /\ z <= MaxChunk /\ MaxChunk \in Nat
  BY <1>1, StreamAssumption
<1>2. ASSUME NEW i \in 1..m + z, i > m PROVE h[i] = n - z + (i - m)
  <2>1. i - m \in 1..z /\ h[i] = b[i - m]
    BY <1>0, <1>1, <1>2
  <2> QED
    BY <2>1, <1>z DEF UpTo
<1>3. h[Len(h)] = n
  BY <1>0, <1>1, <1>2
<1>4. h # <<>>
  BY <1>0, <1>1
<1> DEFINE Fits(a, k, d) ==
      /\ \A i \in 1..m : f[i] = IF i <= k THEN a + i ELSE a + i - d
      /\ \A i \in 1..m + z : i > m => h[i] = IF i <= k THEN a + i ELSE a + i - d
<1>5. ASSUME NEW a \in Nat, NEW k \in Nat, NEW d \in 0..MaxChunk, Fits(a, k, d)
      PROVE  OneSeam(h)
  <2>1. \A i \in 1..m + z : h[i] = IF i <= k THEN a + i ELSE a + i - d
    <3>1. TAKE i \in 1..m + z
    <3>2. CASE i <= m
      <4>1. i \in 1..m /\ h[i] = f[i]
        BY <3>2, <1>0, <1>1
      <4> QED
        BY <4>1, <1>5
    <3>3. CASE i > m
      BY <3>3, <1>5
    <3> QED
      BY <3>2, <3>3, <1>0
  <2>2. Runs(h, a, k, d)
    BY <2>1, <1>1 DEF Runs
  <2> QED
    BY <2>2 DEF OneSeam
<1>6. OneSeam(h)
  <2>1. CASE f = <<>>
    <3>1. m = 0 /\ n - z \in Nat
      BY <2>1, <1>0, <1>1, <1>m
    <3>2. \A i \in 1..m + z : i > m => h[i] = IF i <= m + z THEN n - z + i ELSE n - z + i - 0
      BY <3>1, <1>0, <1>2
    <3>3. Fits(n - z, m + z, 0)
      BY <3>1, <3>2
    <3> HIDE DEF Fits
    <3> QED
      BY <3>1, <3>3, <1>0, <1>5
  <2>2. CASE f # <<>> /\ f[m] = n - z
    <3>1. PICK a \in Nat, k \in Nat, d \in 0..MaxChunk : Runs(f, a, k, d)
      BY DEF OneSeam
    <3>2. \A i \in 1..m : f[i] = IF i <= k THEN a + i ELSE a + i - d
      BY <3>1, <1>m DEF Runs
    <3>3. m \in 1..m
      BY <2>2, <1>0, <1>m, EmptySeq DEF Frames
    <3>4. n - z = IF m <= k THEN a + m ELSE a + m - d
      BY <2>2, <3>2, <3>3
    <3>5. CASE k >= m
      <4>1. \A i \in 1..m : f[i] = IF i <= m + z THEN a + i ELSE a + i - 0
        BY <3>2, <3>5, <1>0
      <4>2. \A i \in 1..m + z : i > m => h[i] = IF i <= m + z THEN a + i ELSE a + i - 0
        BY <3>4, <3>5, <1>0, <1>2
      <4>3. Fits(a, m + z, 0)
        BY <4>1, <4>2
      <4> HIDE DEF Fits
      <4> QED
        BY <4>3, <1>0, <1>5
    <3>6. CASE k < m
      <4>1. \A i \in 1..m + z : i > m => h[i] = IF i <= k THEN a + i ELSE a + i - d
        BY <3>4, <3>6, <1>0, <1>2
      <4>2. Fits(a, k, d)
        BY <3>2, <4>1
      <4> HIDE DEF Fits
      <4> QED
        BY <4>2, <1>5
    <3> QED
      BY <3>5, <3>6, <1>0
  <2>3. CASE f # <<>> /\ f[m] = n /\ Seamless(f)
    <3>1. PICK a \in Nat : Runs(f, a, m, 0)
      BY <2>3, <1>m DEF Seamless
    <3>2. \A i \in 1..m : f[i] = a + i
      BY <3>1, <1>0, <1>m DEF Runs
    <3>3. m \in 1..m
      BY <2>3, <1>0, <1>m, EmptySeq DEF Frames
    <3>4. a + m = n
      BY <3>2, <3>3, <2>3
    <3>5. \A i \in 1..m + z : i > m => h[i] = IF i <= m THEN a + i ELSE a + i - z
      BY <3>4, <1>0, <1>2
    <3>6. z \in 0..MaxChunk /\ \A i \in 1..m : f[i] = IF i <= m THEN a + i ELSE a + i - z
      BY <3>2, <1>0
    <3>7. Fits(a, m, z)
      BY <3>5, <3>6
    <3> HIDE DEF Fits
    <3> QED
      BY <3>6, <3>7, <1>0, <1>5
  <2> QED
    BY <2>1, <2>2, <2>3, <1>m, <1>z DEF StandsAt
<1> QED
  BY <1>3, <1>4, <1>6, <1>h

(* The numbers up to n and those after n. *)
LEMMA UpToConcat ==
  ASSUME NEW s \in Frames, NEW b \in Frames, NEW n \in Nat, UpTo(s, n), UpTo(b, n + Len(b))
  PROVE  UpTo(s \o b, n + Len(b)) /\ Len(s \o b) = Len(s) + Len(b) /\ s \o b \in Frames
<1>1. /\ Len(s) \in Nat /\ Len(b) \in Nat /\ s \o b \in Frames /\ Len(s \o b) = Len(s) + Len(b)
      /\ \A i \in 1..Len(s) + Len(b) : (s \o b)[i] = IF i <= Len(s) THEN s[i] ELSE b[i - Len(s)]
  BY FramesConcat
<1>2. ASSUME NEW i \in 1..Len(s) + Len(b)
      PROVE  (s \o b)[i] = n + Len(b) - (Len(s) + Len(b)) + i
  <2>1. CASE i <= Len(s)
    BY <2>1, <1>1 DEF UpTo
  <2>2. CASE i > Len(s)
    <3>1. i - Len(s) \in 1..Len(b)
      BY <2>2, <1>1
    <3> QED
      BY <3>1, <2>2, <1>1 DEF UpTo
  <2> QED
    BY <2>1, <2>2, <1>1
<1> QED
  BY <1>1, <1>2 DEF UpTo

LEMMA UpToSubSeq ==
  ASSUME NEW s \in Frames, NEW n \in Nat, UpTo(s, n), NEW k \in 0..Len(s)
  PROVE  /\ SubSeq(s, Len(s) - k + 1, Len(s)) \in Frames
         /\ Len(SubSeq(s, Len(s) - k + 1, Len(s))) = k
         /\ UpTo(SubSeq(s, Len(s) - k + 1, Len(s)), n)
<1> DEFINE l == Len(s)
           t == SubSeq(s, l - k + 1, l)
<1>0. l \in Nat /\ \A i \in 1..l : s[i] \in 1..MaxByte
  BY FrameIs
<1>1. k \in Nat /\ k <= l
  BY <1>0
<1>2. /\ t \in Seq(1..MaxByte) /\ Len(t) = (IF l - k + 1 <= l THEN l - (l - k + 1) + 1 ELSE 0)
      /\ \A i \in 1..l - (l - k + 1) + 1 : t[i] = s[l - k + 1 + i - 1]
  <2>1. l - k + 1 \in Int /\ l \in Int /\ \A i \in l - k + 1..l : s[i] \in 1..MaxByte
    BY <1>0, <1>1
  <2> HIDE DEF l
  <2> QED
    BY <2>1, SubSeqProperties
<1>3. t \in Frames /\ Len(t) = k
  BY <1>0, <1>1, <1>2 DEF Frames
<1>4. ASSUME NEW i \in 1..k PROVE t[i] = n - k + i
  <2>1. i \in 1..l - (l - k + 1) + 1 /\ l - k + 1 + i - 1 = l - k + i /\ l - k + i \in 1..l
    BY <1>0, <1>1
  <2>2. t[i] = s[l - k + i]
    BY <1>2, <2>1
  <2>3. s[l - k + i] = n - l + (l - k + i)
    BY <2>1 DEF UpTo
  <2>4. n - l + (l - k + i) = n - k + i
    BY <1>0, <1>1
  <2> QED
    BY <2>2, <2>3, <2>4
<1>5. UpTo(t, n)
  <2> HIDE DEF t
  <2> QED
    BY <1>3, <1>4 DEF UpTo
<1> QED
  BY <1>3, <1>5

(* ring.Write keeps the last RingSize bytes. *)
LEMMA RingKeeps ==
  ASSUME NEW s \in Frames, NEW b \in Frames, NEW n \in Nat, UpTo(s, n), UpTo(b, n + Len(b)),
         Len(s) = IF n < RingSize THEN n ELSE RingSize
  PROVE  /\ RingWrite(s, b) \in Frames /\ UpTo(RingWrite(s, b), n + Len(b))
         /\ Len(RingWrite(s, b)) = IF n + Len(b) < RingSize THEN n + Len(b) ELSE RingSize
<1>1. Len(s) \in Nat /\ Len(b) \in Nat /\ RingSize \in Nat /\ RingSize >= 1
  BY LenProperties, StreamAssumption DEF Frames
<1>2. CASE Len(b) >= RingSize
  <2>1. RingWrite(s, b) = SubSeq(b, Len(b) - RingSize + 1, Len(b))
    BY <1>2 DEF RingWrite
  <2>2. RingSize \in 0..Len(b) /\ n + Len(b) \in Nat
    BY <1>1, <1>2
  <2> QED
    BY <2>1, <2>2, <1>1, UpToSubSeq
<1>3. CASE Len(b) < RingSize /\ Len(s) + Len(b) > RingSize
  <2> DEFINE k == RingSize - Len(b)
             t == SubSeq(s, Len(s) - k + 1, Len(s))
  <2>1. k \in 0..Len(s)
    BY <1>1, <1>3
  <2>2. t \in Frames /\ Len(t) = k /\ UpTo(t, n)
    BY <2>1, UpToSubSeq
  <2>3. RingWrite(s, b) = t \o b
    <3>1. Len(s) + Len(b) - RingSize + 1 = Len(s) - k + 1
      BY <1>1
    <3>2. ~(Len(b) >= RingSize) /\ Len(s) + Len(b) > RingSize
      BY <1>1, <1>3
    <3>3. RingWrite(s, b) = SubSeq(s, Len(s) + Len(b) - RingSize + 1, Len(s)) \o b
      BY <3>2, Zenon DEF RingWrite
    <3> QED
      BY <3>1, <3>3, Zenon
  <2>4. UpTo(t \o b, n + Len(b)) /\ Len(t \o b) = k + Len(b) /\ t \o b \in Frames
    BY <2>2, UpToConcat
  <2>5. n + Len(b) >= RingSize /\ k + Len(b) = RingSize
    BY <1>1, <1>3
  <2> QED
    BY <2>3, <2>4, <2>5, <1>1
<1>4. CASE Len(b) < RingSize /\ Len(s) + Len(b) <= RingSize
  <2>1. RingWrite(s, b) = s \o b
    <3>1. ~(Len(b) >= RingSize) /\ ~(Len(s) + Len(b) > RingSize)
      BY <1>1, <1>4
    <3> QED
      BY <3>1, Zenon DEF RingWrite
  <2>2. UpTo(s \o b, n + Len(b)) /\ Len(s \o b) = Len(s) + Len(b) /\ s \o b \in Frames
    BY UpToConcat
  <2>3. Len(s) + Len(b) = IF n + Len(b) < RingSize THEN n + Len(b) ELSE RingSize
    BY <1>1, <1>4
  <2> QED
    BY <2>1, <2>2, <2>3
<1> QED
  BY <1>1, <1>2, <1>3, <1>4

----------------------------------------------------------------------------
(* The last byte fanned out. *)
LEMMA PublishedIs ==
  ASSUME StreamTypes, WorkerHolds
  PROVE  /\ Published = IF wpc = "fan" THEN next - Len(chunk) ELSE next
         /\ next \in Nat /\ Len(chunk) \in Nat /\ Len(chunk) <= next
<1>1. next \in Nat /\ Len(chunk) \in Nat /\ Len(log) \in Nat /\ Len(log) + Len(chunk) = next
  BY FrameIs, StreamAssumption DEF StreamTypes, WorkerHolds
<1>2. ASSUME wpc = "fan" PROVE chunk[1] - 1 = next - Len(chunk)
  <2>1. 1 \in 1..Len(chunk)
    BY <1>1, <1>2 DEF WorkerHolds
  <2>2. chunk[1] = next - Len(chunk) + 1
    BY <2>1 DEF WorkerHolds, UpTo
  <2> QED
    BY <2>2, <1>1
<1> QED
  BY <1>1, <1>2 DEF Published

LEMMA EnqueueDoes ==
  ASSUME StreamTypes, NEW S, NEW x \in Frames, Enqueue(S, x)
  PROVE  /\ queue' \in [Conns -> Seq(Frames)] /\ done' \in [Conns -> BOOLEAN]
         /\ \A c \in Conns :
              /\ Len(queue'[c]) <= Depth
              /\ c \notin S => queue'[c] = queue[c] /\ done'[c] = done[c]
              /\ ~done'[c] => ~done[c]
              /\ c \in S /\ ~done'[c] => queue'[c] = Append(queue[c], x)
              /\ done'[c] => queue'[c] = queue[c]
<1>1. /\ \A c \in Conns : queue[c] \in Seq(Frames) /\ Len(queue[c]) \in Nat /\ Len(queue[c]) <= Depth
      /\ Depth \in Nat /\ done \in [Conns -> BOOLEAN]
  BY LenProperties, StreamAssumption DEF StreamTypes
<1>2. \A c \in Conns : /\ Append(queue[c], x) \in Seq(Frames)
                       /\ Len(Append(queue[c], x)) = Len(queue[c]) + 1
  BY <1>1, AppendProperties
<1>3. \A c \in Conns :
        /\ queue'[c] = (IF c \in S /\ ~done[c] /\ Len(queue[c]) < Depth
                          THEN Append(queue[c], x) ELSE queue[c])
        /\ done'[c] = (done[c] \/ (c \in S /\ Len(queue[c]) = Depth))
  BY DEF Enqueue
<1>4. queue' \in [Conns -> Seq(Frames)] /\ done' \in [Conns -> BOOLEAN]
  BY <1>1, <1>2 DEF Enqueue
<1>5. ASSUME NEW c \in Conns
      PROVE  /\ Len(queue'[c]) <= Depth
             /\ c \notin S => queue'[c] = queue[c] /\ done'[c] = done[c]
             /\ ~done'[c] => ~done[c]
             /\ c \in S /\ ~done'[c] => queue'[c] = Append(queue[c], x)
             /\ done'[c] => queue'[c] = queue[c]
  <2>1. /\ queue'[c] = (IF c \in S /\ ~done[c] /\ Len(queue[c]) < Depth
                          THEN Append(queue[c], x) ELSE queue[c])
        /\ done'[c] = (done[c] \/ (c \in S /\ Len(queue[c]) = Depth))
    BY <1>3
  <2>2. /\ Len(queue[c]) = Depth \/ Len(queue[c]) < Depth
        /\ Len(queue[c]) = Depth => ~(Len(queue[c]) < Depth)
        /\ Len(queue[c]) < Depth => Len(Append(queue[c], x)) <= Depth
        /\ Len(queue[c]) <= Depth
    BY <1>1, <1>2
  <2>3. done[c] \in BOOLEAN /\ done'[c] \in BOOLEAN
    BY <1>1, <1>4
  <2>4. CASE c \in S /\ ~done[c] /\ Len(queue[c]) < Depth
    BY <2>1, <2>2, <2>3, <2>4
  <2>5. CASE ~(c \in S /\ ~done[c] /\ Len(queue[c]) < Depth)
    BY <2>1, <2>2, <2>3, <2>5
  <2> QED
    BY <2>4, <2>5
<1> QED
  BY <1>4, <1>5

----------------------------------------------------------------------------
(* The types of the variables. *)

LEMMA TypesInit == Init => StreamTypes
<1>1. <<>> \in Frames /\ <<>> \in Seq(Frames) /\ Len(<<>>) = 0 /\ Depth \in Nat /\ MaxByte \in Nat
  BY EmptySeq, StreamAssumption DEF Frames
<1> QED
  BY <1>1 DEF Init, StreamTypes

(* What a chunk is, and what the ring makes of it. *)
LEMMA ChunkRead ==
  ASSUME StreamTypes, WorkerHolds, NEW n \in 1..MaxChunk, WRead(n)
  PROVE  /\ chunk' \in Frames /\ Len(chunk') = n /\ UpTo(chunk', next')
         /\ ring' \in Frames /\ UpTo(ring', next')
         /\ Len(ring') = IF next' < RingSize THEN next' ELSE RingSize
         /\ next \in Nat /\ n \in Nat /\ n >= 1 /\ n <= MaxChunk /\ next' = next + n /\ next' \in 0..MaxByte
<1> DEFINE b == [i \in 1..n |-> next + i]
<1>1. /\ next \in Nat /\ n \in Nat /\ n >= 1 /\ n <= MaxChunk /\ next + n <= MaxByte
      /\ MaxByte \in Nat
  BY StreamAssumption DEF StreamTypes, WRead
<1>2. b \in [1..n -> 1..MaxByte]
  BY <1>1
<1>3. b \in Frames /\ Len(b) = n
  BY <1>1, <1>2 DEF Frames
<1>4. \A i \in 1..n : b[i] = next + n - n + i
  BY <1>1
<1> HIDE DEF b
<1>5. UpTo(b, next + n)
  BY <1>1, <1>3, <1>4 DEF UpTo
<1>6. chunk' = b /\ ring' = RingWrite(ring, b) /\ next' = next + n
  BY DEF WRead, b
<1>7. ring \in Frames /\ UpTo(ring, next) /\ Len(ring) = IF next < RingSize THEN next ELSE RingSize
  BY DEF StreamTypes, WorkerHolds
<1>8. /\ RingWrite(ring, b) \in Frames /\ UpTo(RingWrite(ring, b), next + Len(b))
      /\ Len(RingWrite(ring, b)) = IF next + Len(b) < RingSize THEN next + Len(b) ELSE RingSize
  BY <1>1, <1>3, <1>5, <1>7, RingKeeps
<1>9. next + n \in 0..MaxByte
  BY <1>1
<1> QED
  BY <1>1, <1>3, <1>5, <1>6, <1>8, <1>9

LEMMA TypesRead ==
  ASSUME StreamTypes, WorkerHolds, NEW n \in 1..MaxChunk, WRead(n)
  PROVE  StreamTypes'
<1>1. chunk' \in Frames /\ ring' \in Frames /\ next' \in 0..MaxByte
  BY ChunkRead
<1> QED
  BY <1>1 DEF StreamTypes, WRead

LEMMA TypesWorker ==
  ASSUME StreamTypes, WFan \/ WLog \/ WBlip \/ (\E c \in Conns : WNotice(c))
  PROVE  StreamTypes'
<1>1. CASE WFan
  <2>1. Enqueue(pconns, chunk) /\ chunk \in Frames
    BY <1>1 DEF WFan, StreamTypes
  <2>2. /\ queue' \in [Conns -> Seq(Frames)] /\ done' \in [Conns -> BOOLEAN]
        /\ \A c \in Conns : Len(queue'[c]) <= Depth
    BY <2>1, EnqueueDoes
  <2> QED
    BY <1>1, <2>2 DEF StreamTypes, WFan
<1>2. CASE WLog
  <2>1. log \o chunk \in Frames /\ <<>> \in Frames
    BY FramesConcat, FrameFacts DEF StreamTypes
  <2> QED
    BY <1>2, <2>1 DEF StreamTypes, WLog
<1>3. CASE WBlip
  BY <1>3 DEF StreamTypes, WBlip
<1>4. ASSUME NEW c \in Conns, WNotice(c) PROVE StreamTypes'
  <2>1. queue[c] \in Seq(Frames) /\ Len(queue[c]) \in Nat /\ Depth \in Nat
    BY LenProperties, StreamAssumption DEF StreamTypes
  <2>2. Append(queue[c], Ctrl) \in Seq(Frames) /\ Len(Append(queue[c], Ctrl)) = Len(queue[c]) + 1
    BY <2>1, FrameFacts, AppendProperties
  <2>3. queue' = [queue EXCEPT ![c] = IF Len(queue[c]) < Depth THEN Append(queue[c], Ctrl) ELSE queue[c]]
    BY <1>4 DEF WNotice
  <2>4. queue' \in [Conns -> Seq(Frames)] /\ \A e \in Conns : Len(queue'[e]) <= Depth
    BY <2>1, <2>2, <2>3 DEF StreamTypes
  <2> QED
    BY <1>4, <2>4 DEF StreamTypes, WNotice
<1> QED
  BY <1>1, <1>2, <1>3, <1>4

LEMMA SendDoes ==
  ASSUME StreamTypes, NEW c \in Conns, Send(c)
  PROVE  /\ queue' \in [Conns -> Seq(Frames)] /\ \A e \in Conns : Len(queue'[e]) <= Depth
         /\ \A e \in Conns : queue'[e] = queue[e] \/ queue'[e] = Append(queue[e], Ctrl)
<1>1. queue[c] \in Seq(Frames) /\ Len(queue[c]) \in Nat /\ Depth \in Nat
  BY LenProperties, StreamAssumption DEF StreamTypes
<1>2. Append(queue[c], Ctrl) \in Seq(Frames) /\ Len(Append(queue[c], Ctrl)) = Len(queue[c]) + 1
  BY <1>1, FrameFacts, AppendProperties
<1>3. \/ Len(queue[c]) < Depth /\ queue' = [queue EXCEPT ![c] = Append(queue[c], Ctrl)]
      \/ queue' = queue
  BY DEF Send
<1>4. queue \in [Conns -> Seq(Frames)] /\ \A e \in Conns : Len(queue[e]) <= Depth
  BY DEF StreamTypes
<1>5. CASE Len(queue[c]) < Depth /\ queue' = [queue EXCEPT ![c] = Append(queue[c], Ctrl)]
  <2>1. queue' \in [Conns -> Seq(Frames)]
    BY <1>2, <1>4, <1>5
  <2>2. Len(queue'[c]) <= Depth /\ queue'[c] = Append(queue[c], Ctrl)
    BY <1>1, <1>2, <1>4, <1>5
  <2>3. \A e \in Conns : e # c => queue'[e] = queue[e]
    BY <1>4, <1>5
  <2> QED
    BY <1>4, <2>1, <2>2, <2>3
<1>6. CASE queue' = queue
  BY <1>4, <1>6
<1> QED
  BY <1>3, <1>5, <1>6

LEMMA TypesConn ==
  ASSUME StreamTypes, NEW c \in Conns,
         Open(c) \/ Opened(c) \/ Detach(c) \/ Closed(c) \/ Take(c) \/ Write(c) \/ Kill(c)
  PROVE  StreamTypes'
<1>1. CASE Open(c)
  <2>1. /\ queue' \in [Conns -> Seq(Frames)] /\ done' \in [Conns -> BOOLEAN]
        /\ \A e \in Conns : Len(queue'[e]) <= Depth
    <3>1. CASE ring = <<>>
      BY <1>1, <3>1 DEF Open, StreamTypes
    <3>2. CASE ring # <<>>
      <4>1. Enqueue({c}, ring) /\ ring \in Frames
        BY <1>1, <3>2 DEF Open, StreamTypes
      <4> QED
        BY <4>1, EnqueueDoes
    <3> QED
      BY <3>1, <3>2
  <2> QED
    BY <1>1, <2>1 DEF StreamTypes, Open
<1>2. CASE Opened(c) \/ Closed(c)
  <2>1. Send(c)
    BY <1>2 DEF Opened, Closed
  <2>2. queue' \in [Conns -> Seq(Frames)] /\ \A e \in Conns : Len(queue'[e]) <= Depth
    BY <2>1, SendDoes
  <2> QED
    BY <1>2, <2>2 DEF StreamTypes, Opened, Closed
<1>3. CASE Detach(c)
  BY <1>3 DEF StreamTypes, Detach
<1>4. CASE Take(c)
  <2>1. queue[c] \in Seq(Frames) /\ queue[c] # <<>>
    BY <1>4 DEF StreamTypes, Take
  <2>2. /\ Head(queue[c]) \in Frames /\ Tail(queue[c]) \in Seq(Frames)
        /\ Len(Tail(queue[c])) = Len(queue[c]) - 1 /\ Len(queue[c]) \in Nat
    BY <2>1, HeadTailProperties, LenProperties
  <2>3. queue' = [queue EXCEPT ![c] = Tail(queue[c])] /\ Depth \in Nat
    BY <1>4, StreamAssumption DEF Take
  <2>4. queue' \in [Conns -> Seq(Frames)] /\ \A e \in Conns : Len(queue'[e]) <= Depth
    BY <2>2, <2>3 DEF StreamTypes
  <2> QED
    BY <1>4, <2>2, <2>4 DEF StreamTypes, Take
<1>5. CASE Write(c)
  <2>1. got[c] \in Frames /\ hand[c] \in Frames
    BY <1>5 DEF StreamTypes, Write
  <2>2. got[c] \o hand[c] \in Frames
    BY <2>1, FramesConcat
  <2> QED
    BY <1>5, <2>2 DEF StreamTypes, Write
<1>6. CASE Kill(c)
  BY <1>6 DEF StreamTypes, Kill
<1> QED
  BY <1>1, <1>2, <1>3, <1>4, <1>5, <1>6

----------------------------------------------------------------------------
(* What the worker holds. *)

LEMMA HoldsInit == Init => WorkerHolds
<1>1. Len(<<>>) = 0 /\ RingSize > 0 /\ RingSize \in Nat
  BY StreamAssumption
<1> QED
  BY <1>1 DEF Init, WorkerHolds, UpTo

LEMMA HoldsStep ==
  ASSUME StreamTypes, WorkerHolds, [Next]_vars
  PROVE  WorkerHolds'
<1>0. /\ ring \in Frames /\ chunk \in Frames /\ log \in Frames /\ next \in Nat
      /\ wpc \in {"read", "fan", "log", "notice"}
  BY StreamAssumption DEF StreamTypes
<1>1. ASSUME NEW n \in 1..MaxChunk, WRead(n) PROVE WorkerHolds'
  <2>1. /\ Len(chunk') = n /\ UpTo(chunk', next') /\ UpTo(ring', next')
        /\ Len(ring') = IF next' < RingSize THEN next' ELSE RingSize
        /\ next' = next + n
    BY <1>1, ChunkRead
  <2>2. wpc = "read" /\ log' = log /\ wpc' = "fan"
    BY <1>1 DEF WRead
  <2>3. Len(log) = next /\ chunk = <<>>
    <3>1. chunk = <<>> /\ Len(log) + Len(chunk) = next /\ Len(log) \in Nat
      BY <2>2, <1>0, FrameIs DEF WorkerHolds
    <3> QED
      BY <3>1
  <2>4. UpTo(log', Len(log')) /\ Len(log') + Len(chunk') = next'
    BY <2>1, <2>2, <2>3 DEF WorkerHolds
  <2> QED
    BY <2>1, <2>2, <2>4 DEF WorkerHolds
<1>2. CASE WFan
  BY <1>2 DEF WFan, WorkerHolds, UpTo
<1>3. CASE WLog
  <2>1. log' = log \o chunk /\ chunk' = <<>> /\ next' = next /\ ring' = ring /\ wpc' = "read"
    BY <1>3 DEF WLog
  <2>2. Len(log) \in Nat /\ Len(chunk) \in Nat /\ Len(log) + Len(chunk) = next
    BY <1>0, FrameIs DEF WorkerHolds
  <2>3. UpTo(log, Len(log)) /\ UpTo(chunk, Len(log) + Len(chunk))
    BY <2>2 DEF WorkerHolds
  <2>4. UpTo(log \o chunk, Len(log) + Len(chunk)) /\ Len(log \o chunk) = Len(log) + Len(chunk)
    BY <1>0, <2>2, <2>3, UpToConcat
  <2>5. Len(chunk') = 0 /\ UpTo(chunk', next')
    BY <2>1 DEF UpTo
  <2>6. UpTo(log', Len(log')) /\ Len(log') + Len(chunk') = next'
    BY <2>1, <2>2, <2>4, <2>5
  <2> QED
    BY <2>1, <2>5, <2>6 DEF WorkerHolds
<1>4. ASSUME /\ UNCHANGED <<next, chunk, ring, log>>
             /\ wpc' = wpc \/ (wpc \in {"read", "notice"} /\ wpc' \in {"read", "notice"})
      PROVE  WorkerHolds'
  BY <1>4 DEF WorkerHolds, UpTo
<1>5. CASE WBlip
  BY <1>4, <1>5 DEF WBlip
<1>6. ASSUME NEW c \in Conns, WNotice(c) PROVE WorkerHolds'
  BY <1>4, <1>6 DEF WNotice
<1>7. ASSUME NEW c \in Conns,
             Open(c) \/ Opened(c) \/ Detach(c) \/ Closed(c) \/ Take(c) \/ Write(c) \/ Kill(c)
      PROVE  WorkerHolds'
  BY <1>4, <1>7 DEF Open, Opened, Detach, Closed, Take, Write, Kill
<1>8. CASE UNCHANGED vars
  BY <1>4, <1>8 DEF vars
<1> QED
  BY <1>1, <1>2, <1>3, <1>5, <1>6, <1>7, <1>8 DEF Next, Worker, Silent

----------------------------------------------------------------------------
(* The streams. *)

LEMMA StreamsInit == Init => Streams
<1>1. ASSUME Init, NEW c \in Conns PROVE OneSeam(Flow(c)) /\ InStep(c) /\ Fresh(c)
  <2>1. got[c] = <<>> /\ hand[c] = Nothing /\ queue[c] = <<>>
    BY <1>1 DEF Init
  <2>2. Flow(c) = <<>>
    <3>1. <<>> \o <<>> = <<>>
      BY FrameFacts, FramesConcat
    <3> QED
      BY <2>1, <3>1, FlowIs, FrameFacts, FlattenEmpty DEF Whole
  <2>3. OneSeam(<<>>)
    <3>1. Runs(<<>>, 0, 0, 0) /\ 0 \in Nat /\ 0 \in 0..MaxChunk
      BY StreamAssumption DEF Runs
    <3> QED
      BY <3>1 DEF OneSeam
  <2> QED
    BY <1>1, <2>2, <2>3 DEF Init, InStep, Fresh
<1> QED
  BY <1>1 DEF Streams

(* A step that adds nothing to the stream of c leaves it in step. *)
LEMMA KeepsStream ==
  ASSUME NEW c \in Conns, OneSeam(Flow(c)), InStep(c), Flow(c)' = Flow(c),
         c \in pconns' /\ ~done'[c] => c \in pconns /\ ~done[c],
         Published' = Published, wpc = "fan" => wpc' = "fan" /\ next' = next
  PROVE  OneSeam(Flow(c)') /\ InStep(c)'
<1>1. OneSeam(Flow(c)')
  BY Zenon
<1>2. ASSUME c \in pconns', ~done'[c] PROVE StandsAt(Flow(c)', Published', wpc' = "fan", next')
  <2>1. StandsAt(Flow(c), Published, wpc = "fan", next)
    BY <1>2 DEF InStep, Stands
  <2>2. StandsAt(Flow(c)', Published', wpc = "fan", next)
    BY <2>1, Zenon
  <2> HIDE DEF Published
  <2> QED
    BY <2>2 DEF StandsAt
<1> QED
  BY <1>1, <1>2 DEF InStep, Stands

LEMMA SameFlow ==
  ASSUME StreamTypes, NEW c \in Conns, got'[c] = got[c], hand'[c] = hand[c],
         queue'[c] = queue[c] \/ queue'[c] = Append(queue[c], Ctrl)
  PROVE  Flow(c)' = Flow(c)
<1>1. got[c] \in Frames /\ hand[c] \in Frames \union {Nothing} /\ queue[c] \in Seq(Frames)
  BY DEF StreamTypes
<1>2. Whole(got[c], hand[c], Append(queue[c], Ctrl)) = Whole(got[c], hand[c], queue[c])
  BY <1>1, WholeCtrl
<1> QED
  BY <1>2, FlowIs

(* fanout: the chunk in flight goes to everyone who is attached. *)
LEMMA StreamsFan ==
  ASSUME StreamTypes, WorkerHolds, Streams, WFan
  PROVE  Streams'
<1>1. /\ chunk \in Frames /\ Enqueue(pconns, chunk) /\ wpc = "fan" /\ wpc' = "log"
      /\ next' = next /\ pconns' = pconns /\ at' = at /\ hand' = hand /\ got' = got /\ snap' = snap
  BY DEF StreamTypes, WFan
<1>2. \A c \in Conns :
        /\ c \notin pconns => queue'[c] = queue[c] /\ done'[c] = done[c]
        /\ ~done'[c] => ~done[c]
        /\ c \in pconns /\ ~done'[c] => queue'[c] = Append(queue[c], chunk)
        /\ done'[c] => queue'[c] = queue[c]
  BY <1>1, EnqueueDoes
<1>3. /\ next \in Nat /\ Len(chunk) \in 1..MaxChunk /\ Len(chunk) <= next /\ UpTo(chunk, next)
      /\ Published = next - Len(chunk) /\ Published' = next
  <2>1. Published = next - Len(chunk) /\ next \in Nat /\ Len(chunk) <= next
    BY <1>1, PublishedIs
  <2> QED
    BY <1>1, <2>1 DEF WorkerHolds, Published
<1>4. ASSUME NEW c \in Conns PROVE OneSeam(Flow(c)') /\ InStep(c)'
  <2>1. OneSeam(Flow(c)) /\ InStep(c)
    BY DEF Streams
  <2>2. CASE c \in pconns /\ ~done'[c]
    <3>1. ~done[c] /\ queue'[c] = Append(queue[c], chunk)
      BY <1>2, <2>2
    <3>2. got[c] \in Frames /\ hand[c] \in Frames \union {Nothing} /\ queue[c] \in Seq(Frames)
      BY DEF StreamTypes
    <3>3. Whole(got[c], hand[c], Append(queue[c], chunk)) = Whole(got[c], hand[c], queue[c]) \o chunk
      BY <1>1, <3>2, WholeAppend
    <3>4. Flow(c)' = Flow(c) \o chunk
      BY <1>1, <3>1, <3>3, FlowIs
    <3>5. PICK f : f = Flow(c)
      OBVIOUS
    <3>6. f \in Frames
      BY <3>5, FlowType
    <3>7. StandsAt(f, next - Len(chunk), TRUE, next)
      <4>1. StandsAt(f, next - Len(chunk), wpc = "fan", next)
        BY <1>3, <2>1, <2>2, <3>1, <3>5 DEF InStep, Stands
      <4> QED
        BY <1>1, <4>1 DEF StandsAt
    <3>8. OneSeam(f \o chunk) /\ f \o chunk # <<>> /\ (f \o chunk)[Len(f \o chunk)] = next
      BY <1>1, <1>3, <2>1, <3>5, <3>6, <3>7, Continues
    <3>9. StandsAt(f \o chunk, next, wpc' = "fan", next')
      BY <3>8 DEF StandsAt
    <3> QED
      BY <1>3, <3>4, <3>5, <3>8, <3>9 DEF InStep, Stands
  <2>3. CASE ~(c \in pconns /\ ~done'[c])
    <3>1. queue'[c] = queue[c]
      BY <1>2, <2>3
    <3>2. Flow(c)' = Flow(c)
      BY <1>1, <3>1, SameFlow
    <3>3. OneSeam(Flow(c)')
      BY <2>1, <3>2, Zenon
    <3> QED
      BY <1>1, <2>3, <3>3 DEF InStep
  <2> QED
    BY <2>2, <2>3
<1>5. ASSUME NEW c \in Conns PROVE Fresh(c)'
  BY <1>1, <1>2 DEF Streams, Fresh
<1> QED
  BY <1>4, <1>5 DEF Streams

(* open: the backlog, whole, and from here on everything. *)
LEMMA StreamsOpen ==
  ASSUME StreamTypes, WorkerHolds, Streams, NEW c \in Conns, Open(c)
  PROVE  Streams'
<1>1. /\ ring \in Frames /\ UNCHANGED <<next, wpc, chunk, snap, hand, got>> /\ at[c] = "out"
      /\ pconns' = pconns \union {c} /\ at' = [at EXCEPT ![c] = "opened"]
  BY DEF StreamTypes, Open
<1>2. /\ \A e \in Conns : e # c => queue'[e] = queue[e] /\ done'[e] = done[e]
      /\ IF ring = <<>> THEN queue'[c] = queue[c]
                        ELSE done'[c] \/ queue'[c] = Append(queue[c], ring)
      /\ done'[c] => queue'[c] = queue[c] \/ queue'[c] = Append(queue[c], ring)
  <2>1. CASE ring = <<>>
    BY <2>1 DEF Open
  <2>2. CASE ring # <<>>
    <3>1. Enqueue({c}, ring)
      BY <2>2 DEF Open
    <3>2. \A e \in Conns :
            /\ e \notin {c} => queue'[e] = queue[e] /\ done'[e] = done[e]
            /\ e \in {c} /\ ~done'[e] => queue'[e] = Append(queue[e], ring)
            /\ done'[e] => queue'[e] = queue[e]
      BY <1>1, <3>1, EnqueueDoes
    <3> QED
      BY <2>2, <3>2
  <2> QED
    BY <2>1, <2>2
<1>3. /\ next \in Nat /\ Published' = Published
      /\ Published = IF wpc = "fan" THEN next - Len(chunk) ELSE next
      /\ wpc = "fan" => Len(chunk) >= 1 /\ Len(chunk) <= next /\ Len(chunk) \in Nat
  BY <1>1, PublishedIs DEF WorkerHolds, Published
<1>4. queue[c] = <<>> /\ hand[c] = Nothing /\ got[c] = <<>>
  BY <1>1 DEF Streams, Fresh
<1>5. Whole(<<>>, Nothing, <<>>) = <<>>
  <2>1. <<>> \o <<>> = <<>>
    BY FrameFacts, FramesConcat
  <2> QED
    BY <2>1, FrameFacts, FlattenEmpty DEF Whole
<1>6. Whole(<<>>, Nothing, Append(<<>>, ring)) = ring
  <2>1. <<>> \in Seq(Frames) /\ <<>> \in Frames
    BY EmptySeq, FrameFacts
  <2>2. Whole(<<>>, Nothing, Append(<<>>, ring)) = Whole(<<>>, Nothing, <<>>) \o ring
    BY <1>1, <2>1, WholeAppend
  <2> QED
    BY <1>1, <1>5, <2>1, <2>2, FramesConcat
<1>7. /\ UpTo(ring, next) /\ Len(ring) \in Nat /\ RingSize \in Nat /\ RingSize > 0
      /\ Len(ring) = IF next < RingSize THEN next ELSE RingSize
  BY <1>1, FrameIs, StreamAssumption DEF WorkerHolds
<1>8. Runs(ring, next - Len(ring), Len(ring), 0) /\ next - Len(ring) \in Nat
  BY <1>3, <1>7 DEF UpTo, Runs
<1>9. OneSeam(ring) /\ Seamless(ring) /\ OneSeam(<<>>)
  <2>1. 0 \in 0..MaxChunk /\ Runs(<<>>, 0, 0, 0) /\ 0 \in Nat
    BY StreamAssumption DEF Runs
  <2> QED
    BY <1>7, <1>8, <2>1 DEF OneSeam, Seamless
<1>10. ring # <<>> => ring[Len(ring)] = next
  <2>1. ring # <<>> => Len(ring) \in 1..Len(ring)
    BY <1>1, EmptySeq DEF Frames
  <2> QED
    BY <1>3, <1>7, <2>1 DEF UpTo
<1>11. ring = <<>> => Published = 0
  BY <1>3, <1>7
<1>12. OneSeam(Flow(c)') /\ InStep(c)'
  <2>1. Flow(c)' = Whole(<<>>, Nothing, queue'[c])
    BY <1>1, <1>4, FlowIs
  <2>2. CASE ring = <<>>
    <3>1. Flow(c)' = <<>>
      BY <1>2, <1>4, <1>5, <2>1, <2>2
    <3>2. StandsAt(<<>>, Published', wpc' = "fan", next')
      BY <1>3, <1>11, <2>2 DEF StandsAt
    <3> QED
      BY <1>9, <3>1, <3>2 DEF InStep, Stands
  <2>3. CASE ring # <<>> /\ ~done'[c]
    <3>1. Flow(c)' = ring
      BY <1>2, <1>4, <1>6, <2>1, <2>3
    <3>2. StandsAt(ring, Published, wpc = "fan", next)
      BY <1>3, <1>9, <1>10, <2>3 DEF StandsAt
    <3>3. StandsAt(ring, Published', wpc' = "fan", next')
      BY <1>1, <1>3, <3>2
    <3> QED
      BY <1>9, <3>1, <3>3 DEF InStep, Stands
  <2>4. CASE ring # <<>> /\ done'[c]
    <3>1. Flow(c)' = <<>> \/ Flow(c)' = ring
      BY <1>2, <1>4, <1>5, <1>6, <2>1, <2>4
    <3> QED
      BY <1>9, <2>4, <3>1 DEF InStep
  <2> QED
    BY <2>2, <2>3, <2>4
<1>13. ASSUME NEW e \in Conns, e # c PROVE OneSeam(Flow(e)') /\ InStep(e)'
  <2>1. OneSeam(Flow(e)) /\ InStep(e)
    BY DEF Streams
  <2>2. Flow(e)' = Flow(e)
    BY <1>1, <1>2, <1>13, SameFlow
  <2>3. e \in pconns' /\ ~done'[e] => e \in pconns /\ ~done[e]
    BY <1>1, <1>2, <1>13
  <2> QED
    BY <1>1, <1>3, <2>1, <2>2, <2>3, KeepsStream
<1>14. ASSUME NEW e \in Conns PROVE Fresh(e)'
  <2>1. CASE e = c
    BY <1>1, <2>1 DEF StreamTypes, Fresh
  <2>2. CASE e # c
    BY <1>1, <1>2, <2>2 DEF StreamTypes, Streams, Fresh
  <2> QED
    BY <2>1, <2>2
<1> QED
  BY <1>12, <1>13, <1>14 DEF Streams

LEMMA StreamsWorker ==
  ASSUME StreamTypes, WorkerHolds, Streams,
         (\E n \in 1..MaxChunk : WRead(n)) \/ WLog \/ WBlip \/ (\E c \in Conns : WNotice(c))
  PROVE  Streams'
<1> DEFINE Silently ==
      /\ wpc # "fan" /\ Published' = Published
      /\ UNCHANGED <<pconns, at, hand, got, done>>
      /\ snap' \subseteq snap \union pconns
      /\ \A e \in Conns : \/ queue'[e] = queue[e]
                          \/ queue'[e] = Append(queue[e], Ctrl) /\ e \in snap
<1>1. Silently
  <2>1. ASSUME NEW n \in 1..MaxChunk, WRead(n) PROVE Silently
    <3>1. /\ wpc = "read" /\ wpc' = "fan" /\ next' = next + n /\ chunk' = [i \in 1..n |-> next + i]
          /\ UNCHANGED <<pconns, at, queue, hand, got, done, snap>>
      BY <2>1 DEF WRead
    <3>2. next \in Nat /\ n \in Nat /\ 1 \in 1..n
      BY StreamAssumption DEF StreamTypes
    <3>3. chunk'[1] - 1 = next
      BY <3>1, <3>2
    <3>4. Published' = Published
      BY <3>1, <3>3 DEF Published
    <3> HIDE DEF Published
    <3> QED
      BY <3>1, <3>4
  <2>2. CASE WLog
    BY <2>2 DEF WLog, Published
  <2>3. CASE WBlip
    BY <2>3 DEF WBlip, Published
  <2>4. ASSUME NEW c \in Conns, WNotice(c) PROVE Silently
    <3>1. /\ wpc = "notice" /\ c \in snap /\ wpc' # "fan" /\ next' = next /\ snap' = snap \ {c}
          /\ UNCHANGED <<pconns, at, hand, got, done>>
          /\ queue' = [queue EXCEPT ![c] = IF Len(queue[c]) < Depth THEN Append(queue[c], Ctrl)
                                                                   ELSE queue[c]]
      BY <2>4 DEF WNotice
    <3>2. Published' = Published
      BY <3>1 DEF Published
    <3>3. \A e \in Conns : \/ queue'[e] = queue[e]
                           \/ queue'[e] = Append(queue[e], Ctrl) /\ e \in snap
      BY <3>1 DEF StreamTypes
    <3> HIDE DEF Published
    <3> QED
      BY <3>1, <3>2, <3>3
  <2> QED
    BY <2>1, <2>2, <2>3, <2>4
<1>2. ASSUME NEW e \in Conns PROVE OneSeam(Flow(e)') /\ InStep(e)'
  <2>1. OneSeam(Flow(e)) /\ InStep(e)
    BY DEF Streams
  <2>2. Flow(e)' = Flow(e)
    BY <1>1, SameFlow
  <2> QED
    BY <1>1, <2>1, <2>2, KeepsStream
<1>3. ASSUME NEW e \in Conns PROVE Fresh(e)'
  <2>1. Fresh(e)
    BY DEF Streams
  <2> QED
    BY <1>1, <2>1 DEF Fresh
<1> QED
  BY <1>2, <1>3 DEF Streams

LEMMA StreamsConn ==
  ASSUME StreamTypes, WorkerHolds, Streams, NEW c \in Conns,
         Opened(c) \/ Detach(c) \/ Closed(c) \/ Take(c) \/ Write(c) \/ Kill(c)
  PROVE  Streams'
<1>1. /\ UNCHANGED <<next, wpc, chunk, snap>> /\ pconns' \subseteq pconns
      /\ \A e \in Conns : ~done'[e] => ~done[e]
  BY DEF Opened, Detach, Closed, Take, Write, Kill, StreamTypes
<1>2. Published' = Published
  BY <1>1 DEF Published
<1>3. ASSUME NEW e \in Conns PROVE Flow(e)' = Flow(e)
  <2>1. CASE Opened(c) \/ Closed(c)
    <3>1. Send(c) /\ got' = got /\ hand' = hand
      BY <2>1 DEF Opened, Closed
    <3>2. queue'[e] = queue[e] \/ queue'[e] = Append(queue[e], Ctrl)
      BY <3>1, SendDoes
    <3> QED
      BY <3>1, <3>2, SameFlow
  <2>2. CASE Detach(c) \/ Kill(c)
    <3>1. got' = got /\ hand' = hand /\ queue' = queue
      BY <2>2 DEF Detach, Kill
    <3> QED
      BY <3>1, SameFlow
  <2>3. CASE Take(c)
    <3>1. /\ got' = got /\ hand[c] = Nothing /\ queue[c] # <<>>
          /\ hand' = [hand EXCEPT ![c] = Head(queue[c])] /\ queue' = [queue EXCEPT ![c] = Tail(queue[c])]
      BY <2>3 DEF Take
    <3>2. CASE e # c
      BY <3>1, <3>2, SameFlow DEF StreamTypes
    <3>3. CASE e = c
      <4>1. got[c] \in Frames /\ queue[c] \in Seq(Frames)
        BY DEF StreamTypes
      <4>2. Whole(got[c], Head(queue[c]), Tail(queue[c])) = Whole(got[c], Nothing, queue[c])
        BY <3>1, <4>1, WholeTake
      <4>3. got'[c] = got[c] /\ hand'[c] = Head(queue[c]) /\ queue'[c] = Tail(queue[c])
        BY <3>1 DEF StreamTypes
      <4> QED
        BY <3>1, <3>3, <4>2, <4>3, FlowIs
    <3> QED
      BY <3>2, <3>3
  <2>4. CASE Write(c)
    <3>1. /\ queue' = queue /\ hand[c] # Nothing
          /\ hand' = [hand EXCEPT ![c] = Nothing] /\ got' = [got EXCEPT ![c] = got[c] \o hand[c]]
      BY <2>4 DEF Write
    <3>2. CASE e # c
      BY <3>1, <3>2, SameFlow DEF StreamTypes
    <3>3. CASE e = c
      <4>1. got[c] \in Frames /\ hand[c] \in Frames /\ queue[c] \in Seq(Frames)
        BY <3>1 DEF StreamTypes
      <4>2. Whole(got[c] \o hand[c], Nothing, queue[c]) = Whole(got[c], hand[c], queue[c])
        BY <4>1, WholeWrite
      <4>3. got'[c] = got[c] \o hand[c] /\ hand'[c] = Nothing /\ queue'[c] = queue[c]
        BY <3>1 DEF StreamTypes
      <4> QED
        BY <3>3, <4>2, <4>3, FlowIs
    <3> QED
      BY <3>2, <3>3
  <2> QED
    BY <2>1, <2>2, <2>3, <2>4
<1>4. ASSUME NEW e \in Conns PROVE OneSeam(Flow(e)') /\ InStep(e)'
  <2>1. OneSeam(Flow(e)) /\ InStep(e)
    BY DEF Streams
  <2>2. Flow(e)' = Flow(e) /\ (e \in pconns' /\ ~done'[e] => e \in pconns /\ ~done[e])
    BY <1>1, <1>3
  <2> QED
    BY <1>1, <1>2, <2>1, <2>2, KeepsStream
<1>5. ASSUME NEW e \in Conns PROVE Fresh(e)'
  <2>1. Fresh(e)
    BY DEF Streams
  <2>2. CASE e # c
    <3>1. Opened(c) \/ Closed(c) => queue'[e] = queue[e]
      BY <2>2 DEF Opened, Closed, Send, StreamTypes
    <3> QED
      BY <2>1, <2>2, <3>1, <1>1
      DEF Fresh, StreamTypes, Opened, Detach, Closed, Take, Write, Kill
  <2>3. CASE e = c
    <3>1. Opened(c) \/ Detach(c) \/ Closed(c) => at'[c] # "out"
      BY DEF Opened, Detach, Closed, StreamTypes
    <3>2. Take(c) \/ Write(c) \/ Kill(c) => at[c] # "out" /\ at' = at
      BY <2>1, <2>3 DEF Fresh, Take, Write, Kill
    <3> QED
      BY <2>3, <3>1, <3>2 DEF Fresh
  <2> QED
    BY <2>2, <2>3
<1> QED
  BY <1>4, <1>5 DEF Streams

LEMMA StreamsIdle ==
  ASSUME StreamTypes, Streams, UNCHANGED vars
  PROVE  Streams'
<1>1. UNCHANGED <<next, wpc, chunk, snap, pconns, at, queue, hand, got, done>>
  BY DEF vars
<1>2. Published' = Published
  BY <1>1 DEF Published
<1>3. ASSUME NEW e \in Conns PROVE OneSeam(Flow(e)') /\ InStep(e)' /\ Fresh(e)'
  <2>1. OneSeam(Flow(e)) /\ InStep(e) /\ Fresh(e)
    BY DEF Streams
  <2>2. Flow(e)' = Flow(e)
    BY <1>1, SameFlow
  <2>3. OneSeam(Flow(e)') /\ InStep(e)'
    BY <1>1, <1>2, <2>1, <2>2, KeepsStream
  <2>4. Fresh(e)'
    BY <1>1, <2>1 DEF Fresh
  <2> QED
    BY <2>3, <2>4
<1> QED
  BY <1>3 DEF Streams

----------------------------------------------------------------------------
(* StreamInv holds in every state. *)
LEMMA StreamInvHolds == Spec => []StreamInv
<1>1. Init => StreamInv
  BY TypesInit, HoldsInit, StreamsInit DEF StreamInv
<1>2. StreamInv /\ [Next]_vars => StreamInv'
  <2> SUFFICES ASSUME StreamTypes, WorkerHolds, Streams, [Next]_vars PROVE StreamInv'
    BY DEF StreamInv
  <2>1. WorkerHolds'
    BY HoldsStep
  <2>2. ASSUME NEW n \in 1..MaxChunk, WRead(n) PROVE StreamTypes' /\ Streams'
    BY <2>2, TypesRead, StreamsWorker
  <2>3. ASSUME WFan PROVE StreamTypes' /\ Streams'
    BY <2>3, TypesWorker, StreamsFan
  <2>4. ASSUME WLog \/ WBlip \/ (\E c \in Conns : WNotice(c)) PROVE StreamTypes' /\ Streams'
    BY <2>4, TypesWorker, StreamsWorker
  <2>5. ASSUME NEW c \in Conns, Open(c) PROVE StreamTypes' /\ Streams'
    BY <2>5, TypesConn, StreamsOpen
  <2>6. ASSUME NEW c \in Conns,
               Opened(c) \/ Detach(c) \/ Closed(c) \/ Take(c) \/ Write(c) \/ Kill(c)
        PROVE  StreamTypes' /\ Streams'
    BY <2>6, TypesConn, StreamsConn
  <2>7. ASSUME UNCHANGED vars PROVE StreamTypes' /\ Streams'
    <3>1. StreamTypes'
      BY <2>7 DEF StreamTypes, vars
    <3> QED
      BY <2>7, <3>1, StreamsIdle
  <2>8. StreamTypes' /\ Streams'
    BY <2>2, <2>3, <2>4, <2>5, <2>6, <2>7 DEF Next, Worker, Silent
  <2> QED
    BY <2>1, <2>8 DEF StreamInv
<1> QED
  BY <1>1, <1>2, PTL DEF Spec

----------------------------------------------------------------------------
(* What follows from it. *)

LEMMA UpToIs ==
  ASSUME NEW s \in Frames, NEW n \in Nat, UpTo(s, n)
  PROVE  s = [i \in 1..Len(s) |-> n - Len(s) + i]
<1>1. s = [i \in 1..Len(s) |-> s[i]]
  BY LenProperties DEF Frames
<1>2. \A i \in 1..Len(s) : s[i] = n - Len(s) + i
  BY DEF UpTo
<1>3. [i \in 1..Len(s) |-> s[i]] = [i \in 1..Len(s) |-> n - Len(s) + i]
  BY <1>2
<1> QED
  BY <1>1, <1>3, Zenon

(* The types of all variables; the ring is exactly the last RingSize bytes  *)
(* read, whatever the sizes of the chunks (ring.Write), and the log is      *)
(* everything read, once and in order, when the worker is between chunks    *)
(* (fanout).                                                               *)
THEOREM TypeCorrect == Spec => []TypeOK
<1>1. StreamInv => TypeOK
  <2> SUFFICES ASSUME StreamTypes, WorkerHolds PROVE TypeOK
    BY DEF StreamInv
  <2>1. /\ next \in Nat /\ ring \in Frames /\ log \in Frames /\ chunk \in Frames
        /\ RingSize \in Nat /\ RingSize > 0
    BY StreamAssumption DEF StreamTypes
  <2>2. Len(ring) \in Nat /\ Len(log) \in Nat
    BY <2>1, FrameIs
  <2>3. Len(ring) = IF next < RingSize THEN next ELSE RingSize
    BY DEF WorkerHolds
  <2>4. Types
    <3>1. ASSUME NEW c \in Conns
          PROVE  /\ Len(queue[c]) <= Depth
                 /\ \A i \in 1..Len(queue[c]) : queue[c][i] \in Seq(1..MaxByte)
                 /\ hand[c] = Nothing \/ hand[c] \in Seq(1..MaxByte)
                 /\ got[c] \in Seq(1..MaxByte)
      <4>1. queue[c] \in Seq(Frames) /\ Len(queue[c]) <= Depth
        BY DEF StreamTypes
      <4>2. \A i \in 1..Len(queue[c]) : queue[c][i] \in Frames
        BY <4>1, ElementOfSeq
      <4> QED
        BY <4>1, <4>2 DEF StreamTypes, Frames
    <3>2. Len(ring) <= RingSize
      BY <2>1, <2>2, <2>3
    <3> QED
      BY <3>1, <3>2 DEF StreamTypes, Types, Frames
  <2>5. RingIsTail
    <3>1. ring = [i \in 1..Len(ring) |-> next - Len(ring) + i]
      BY <2>1, UpToIs DEF WorkerHolds
    <3> QED
      BY <2>3, <3>1, Zenon DEF RingIsTail
  <2>6. LogComplete
    <3>1. log = [i \in 1..Len(log) |-> Len(log) - Len(log) + i]
      BY <2>1, <2>2, UpToIs DEF WorkerHolds
    <3>2. [i \in 1..Len(log) |-> Len(log) - Len(log) + i] = [i \in 1..Len(log) |-> i]
      BY <2>2
    <3>3. wpc \in {"read", "notice"} => Len(log) = next
      <4>1. wpc \in {"read", "notice"} => chunk = <<>>
        BY DEF WorkerHolds
      <4> QED
        BY <2>1, <2>2, <4>1 DEF WorkerHolds
    <3> QED
      BY <3>1, <3>2, <3>3, Zenon DEF LogComplete
  <2> QED
    BY <2>4, <2>5, <2>6 DEF TypeOK
<1> QED
  BY <1>1, StreamInvHolds, PTL

(* A stream with one seam of at most MaxChunk. *)
LEMMA SeamFacts ==
  ASSUME NEW f \in Frames, OneSeam(f)
  PROVE  /\ \A i \in 1..Len(f) - 1 : f[i + 1] <= f[i] + 1
         /\ Cardinality({i \in 1..Len(f) - 1 : f[i + 1] <= f[i]}) <= 1
         /\ \A i \in {j \in 1..Len(f) - 1 : f[j + 1] <= f[j]} : f[i] - f[i + 1] < MaxChunk
<1>1. PICK a \in Nat, k \in Nat, d \in 0..MaxChunk : Runs(f, a, k, d)
  BY DEF OneSeam
<1>2. Len(f) \in Nat /\ MaxChunk \in Nat /\ MaxChunk > 0 /\ d \in Nat /\ d <= MaxChunk
  BY FrameIs, StreamAssumption
<1>3. ASSUME NEW i \in 1..Len(f) - 1
      PROVE  /\ i # k => f[i + 1] = f[i] + 1 /\ f[i] \in Int
             /\ i = k => f[i] = a + k /\ f[i + 1] = a + k + 1 - d
  <2>1. i \in 1..Len(f) /\ i + 1 \in 1..Len(f) /\ i \in Nat
    BY <1>2
  <2>2. /\ f[i] = IF i <= k THEN a + i ELSE a + i - d
        /\ f[i + 1] = IF i + 1 <= k THEN a + (i + 1) ELSE a + (i + 1) - d
    BY <1>1, <2>1 DEF Runs
  <2> QED
    BY <1>2, <2>1, <2>2
<1>4. \A i \in 1..Len(f) - 1 : f[i + 1] <= f[i] + 1
  BY <1>2, <1>3
<1> DEFINE back == {i \in 1..Len(f) - 1 : f[i + 1] <= f[i]}
<1>5. back \subseteq {k}
  BY <1>3
<1>6. Cardinality(back) <= 1
  <2>1. IsFiniteSet({k}) /\ Cardinality({k}) = 1
    BY FS_Singleton
  <2> HIDE DEF back
  <2>2. Cardinality(back) <= Cardinality({k})
    BY <1>5, <2>1, FS_Subset
  <2> QED
    BY <2>1, <2>2
<1>7. \A i \in back : f[i] - f[i + 1] < MaxChunk
  <2>1. TAKE i \in back
  <2>2. i = k /\ i \in 1..Len(f) - 1
    BY <1>5
  <2>3. f[i] = a + k /\ f[i + 1] = a + k + 1 - d
    BY <1>3, <2>2
  <2> QED
    BY <1>2, <2>3
<1> QED
  BY <1>4, <1>6, <1>7

(* What a client has been sent, is being sent and has queued is one run of  *)
(* consecutive bytes, but for the chunk in flight at its attach, which may  *)
(* be there twice; and an attached client that was not cut off is as far as *)
(* the fan-out is (fanout and handleOpen under Port.mu, enqueue, writeLoop).*)
THEOREM StreamIsWholeHolds == Spec => []StreamIsWhole
<1>1. StreamInv => StreamIsWhole
  <2> SUFFICES ASSUME StreamTypes, WorkerHolds, Streams PROVE StreamIsWhole
    BY DEF StreamInv
  <2>1. ASSUME NEW c \in Conns PROVE Flow(c) \in Frames /\ OneSeam(Flow(c)) /\ InStep(c)
    BY FlowType DEF Streams
  <2>2. NoGap /\ SeamIsOneChunk
    <3>1. ASSUME NEW c \in Conns
          PROVE  /\ \A i \in 1..Len(Flow(c)) - 1 : Flow(c)[i + 1] <= Flow(c)[i] + 1
                 /\ Cardinality({i \in 1..Len(Flow(c)) - 1 : Flow(c)[i + 1] <= Flow(c)[i]}) <= 1
                 /\ \A i \in {j \in 1..Len(Flow(c)) - 1 : Flow(c)[j + 1] <= Flow(c)[j]} :
                      Flow(c)[i] - Flow(c)[i + 1] < MaxChunk
      <4>1. PICK f : f = Flow(c)
        OBVIOUS
      <4>2. f \in Frames /\ OneSeam(f)
        BY <2>1, <4>1
      <4>3. /\ \A i \in 1..Len(f) - 1 : f[i + 1] <= f[i] + 1
            /\ Cardinality({i \in 1..Len(f) - 1 : f[i + 1] <= f[i]}) <= 1
            /\ \A i \in {j \in 1..Len(f) - 1 : f[j + 1] <= f[j]} : f[i] - f[i + 1] < MaxChunk
        BY <4>2, SeamFacts
      <4> QED
        BY <4>1, <4>3, Zenon
    <3> QED
      BY <3>1, Zenon DEF NoGap, SeamIsOneChunk
  <2>3. UpToDate
    <3>1. ASSUME NEW c \in pconns, ~done[c], Published > 0
          PROVE  Flow(c) # <<>> /\ Last(Flow(c)) >= Published
      <4>1. c \in Conns
        BY DEF StreamTypes
      <4>2. Stands(c)
        BY <2>1, <3>1, <4>1 DEF InStep
      <4>3. Published \in Nat /\ next \in Nat /\ Published <= next
        BY PublishedIs
      <4> HIDE DEF Published, Flow
      <4> QED
        BY <3>1, <4>2, <4>3 DEF Stands, StandsAt, Last
    <3> QED
      BY <3>1 DEF UpToDate
  <2> QED
    BY <2>2, <2>3 DEF StreamIsWhole
<1> QED
  BY <1>1, StreamInvHolds, PTL

=============================================================================
