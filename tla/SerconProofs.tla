---------------------------- MODULE SerconProofs ----------------------------
(***************************************************************************)
(* Machine-checked proofs about module Sercon, for every number of dials,  *)
(* keys, chunks and scripts: what is typed and what is printed arrives      *)
(* whole and in order, and waits match one occurrence after another.        *)
(***************************************************************************)
EXTENDS Sercon, FlattenProofs

Places == {"main", "dial", "hello", "welcome", "open", "opened", "ready", "live", "close",
           "drain", "leave", "ended", "backoff", "step", "send", "wait", "missed", "exit"}

(* The main goroutine asks for the port; nothing else uses the session yet. *)
Asking == {"hello", "welcome", "open", "opened", "ready"}

Frame == [op : {"data", "welcome", "opened", "error", "closed"}, k : Nat, hit : BOOLEAN]
DataFrame == [op : {"data"}, k : Nat, hit : BOOLEAN]
Item == Sessions \X Nat
Mine(s) == {s} \X Nat
KeyRec == [kind : Kinds \union {"k"}, n : Nat]
(* What is made of the keys of a read. *)
Decoder == [esc : BOOLEAN, mark : KeyRec \union {None}, emit : Seq(KeyRec),
            log : BOOLEAN, stop : {None, "quit", "reconnect"}]
Good == {d \in Decoder : d.esc => d.mark \in KeyRec}
Escape == {e \in [open : BOOLEAN, mark : KeyRec \union {None}] : e.open => e.mark \in KeyRec}

----------------------------------------------------------------------------
(* What the prover needs of the types. *)
ClientTypes ==
  /\ cmd \in Commands /\ tty \in BOOLEAN /\ pc \in Places
  /\ err \in Errors /\ code \in {None, 0, 1, 2}
  /\ n \in 0..MaxDials
  /\ link \in [Sessions -> {"none", "up", "silent", "full", "cut", "closed"}]
  /\ down \in [Sessions -> Seq(Frame)]
  /\ typed \in Nat /\ sent \in [Sessions -> Nat]
  /\ backlog \in Seq(DataFrame) /\ shown \in Seq(Item)

AttachTypes ==
  /\ retry \in BOOLEAN /\ stdin \in Seq(KeyRec) /\ raw \in BOOLEAN
  /\ backoff \in {1, 2, 4, 8, MaxBackoff}
  /\ inp \in [Sessions -> {"none", "read", "stuck", "parked", "done"}]
  /\ outp \in [Sessions -> {"none", "read", "done"}]
  /\ escaping \in [Sessions -> Escape]
  /\ held \in [Sessions -> [done : Good, rest : Seq(KeyRec)]]
  /\ beat \in [Sessions -> BOOLEAN] /\ quiet \in [Sessions -> 0..MaxQuiet]
  /\ failure \in [Sessions -> {None, "error"}] /\ ended \in [Sessions -> BOOLEAN]
  /\ out \in [Sessions -> Seq(Errors)]
  /\ logged \in Seq(Item)
  /\ took \in [Sessions -> Seq(KeyRec)] /\ up \in [Sessions -> Seq(KeyRec)]

ScriptTypes ==
  /\ step \in Nat
  /\ buf \in Seq(DataFrame) /\ Len(buf) <= MaxCollect /\ consumed \in 0..Len(buf)
  /\ hits \in Seq(Nat)
  /\ collects \in BOOLEAN /\ readErr \in {None, "error"}

(* Where the main goroutine is, what it has dialled and what runs beside it. *)
Course ==
  /\ cmd # "attach" => ~tty
  /\ pc = "main" => n = 0
  /\ pc \notin {"main", "dial", "backoff", "ended", "exit"} => n > 0
  /\ cmd # "attach" /\ pc = "dial" => n = 0
  /\ cmd = "run" => n <= 1
  /\ collects => cmd = "run" /\ pc \in {"step", "send", "wait", "missed", "leave", "ended", "exit"} /\ n > 0
  /\ pc \in {"step", "send", "wait", "missed"} => cmd = "run"
  /\ pc = "backoff" => cmd = "attach"

(* A session that was not begun has no goroutines. *)
Unused(s) ==
  /\ inp[s] = "none" /\ outp[s] = "none" /\ escaping[s].open = FALSE
  /\ took[s] = <<>> /\ up[s] = <<>>

Begun ==
  /\ \A s \in Sessions : (s > n \/ (s = n /\ pc \in Asking) \/ cmd # "attach") => Unused(s)
  /\ \A s \in Sessions : s > n => link[s] = "none" /\ down[s] = <<>> /\ sent[s] = 0
  /\ \A s \in Sessions : s <= n => link[s] # "none"

StateTypes == ClientTypes /\ AttachTypes /\ ScriptTypes /\ Course /\ Begun

----------------------------------------------------------------------------
(* Keys. *)
OpenAfter(q) == Open(q)[Len(q)]

MeaningOf(t, q) == IF t THEN FlattenSeq([i \in DOMAIN q |-> Means(q, i)]) ELSE q

(* One session on a terminal or not (t), its link l and its input pump i, what reached the daemon  *)
(* (u) of the keys that were read (k), and the state e of the escapes between two reads.           *)
KeysFit(t, l, i, u, k, e) ==
  /\ IsPrefix(u, MeaningOf(t, k))
  /\ i = "read" /\ l = "up" => u = MeaningOf(t, k)
  /\ i = "read" /\ l = "up" /\ t => e.open = OpenAfter(k) /\ (e.open => e.mark = Last(k))
  /\ i = "stuck" => l \in {"full", "cut", "closed"}

PipeFits(t, l, i, e) == ~t /\ i = "done" => l \in {"cut", "closed"} \/ e

KeysInv ==
  \A s \in 1..n : /\ KeysFit(tty, link[s], inp[s], up[s], took[s], escaping[s])
                  /\ PipeFits(tty, link[s], inp[s], ended[s])

(* Chunks. *)
ShownBy(v, s) == Only(v, Mine(s))
SentOf(s, m) == [k \in 1..m |-> <<s, k>>]

(* A goroutine reads the frames of session s, and shows what is data. *)
Reads(s) == outp[s] = "read" \/ (collects /\ s = n)

(* Of the m chunks sent in session s, v shows the first; a reader has the rest, d, before it. *)
ChunksFit(s, m, v, d, reads) ==
  /\ IsPrefix(ShownBy(v, s), SentOf(s, m))
  /\ reads => ShownBy(v, s) \o DataOf(s, d) = SentOf(s, m)

(* While the port is asked for, nothing of the session is shown: what came is kept in b. *)
BacklogFits(s, m, v, d, b) ==
  /\ ShownBy(v, s) = <<>>
  /\ DataOf(s, b) \o DataOf(s, d) = SentOf(s, m)

ShownInv ==
  /\ shown \in Seq((1..n) \X Nat)
  /\ \A s \in 1..n : ChunksFit(s, sent[s], shown, down[s], Reads(s))
  /\ pc \in Asking => BacklogFits(n, sent[n], shown, down[n], backlog)

(* The log w has, of what was shown, what it has, in that order. *)
LogFits(v, w) == w = Only(v, ToSet(w)) /\ ToSet(w) \subseteq ToSet(v)

LoggedInv == LogFits(shown, logged)

(* The transcript b is the end of the z chunks that were shown; its mark c is behind the last hit l. *)
WaitFits(z, b, c, l) ==
  /\ Len(b) <= z /\ l \in 0..z
  /\ \A i \in 1..Len(b) : b[i].k = z - Len(b) + i
  /\ c = IF l > z - Len(b) THEN l - (z - Len(b)) ELSE 0

WaitInv == cmd = "run" => WaitFits(Len(shown), buf, consumed, LastHit)

SessionInv == StateTypes /\ KeysInv /\ ShownInv /\ LoggedInv /\ WaitInv

----------------------------------------------------------------------------
(* What is data among frames, and whose what was shown is. *)

One(s, f) == IF f.op = "data" THEN << <<s, f.k>> >> ELSE <<>>

LEMMA DataFrames == ASSUME NEW f \in Frame PROVE f \in DataFrame <=> f.op = "data"
BY DEF Frame, DataFrame

LEMMA DataIsFrame == Seq(DataFrame) \subseteq Seq(Frame)
<1>1. DataFrame \subseteq Frame
  BY DEF DataFrame, Frame
<1> QED
  BY <1>1, SeqMonotonic

LEMMA ItemsType ==
  ASSUME NEW s, NEW q \in Seq(DataFrame)
  PROVE  Items(s, q) \in Seq(Mine(s)) /\ Len(Items(s, q)) = Len(q)
<1>1. \A i \in 1..Len(q) : <<s, q[i].k>> \in Mine(s)
  <2> TAKE i \in 1..Len(q)
  <2>1. q[i] \in DataFrame
    BY ElementOfSeq
  <2> QED
    BY <2>1 DEF DataFrame, Mine
<1> QED
  BY <1>1, IsASeq DEF Items

LEMMA ItemsConcat ==
  ASSUME NEW s, NEW q, NEW r, q \in Seq(DataFrame), r \in Seq(DataFrame)
  PROVE  Items(s, q \o r) = Items(s, q) \o Items(s, r)
<1> DEFINE u == Items(s, q \o r)
           a == Items(s, q)
           b == Items(s, r)
           v == a \o b
<1>1. /\ q \o r \in Seq(DataFrame) /\ Len(q \o r) = Len(q) + Len(r)
      /\ Len(q) \in Nat /\ Len(r) \in Nat
      /\ \A i \in 1..(Len(q) + Len(r)) : (q \o r)[i] = IF i <= Len(q) THEN q[i] ELSE r[i - Len(q)]
  BY ConcatProperties
<1>2. /\ u \in Seq(Mine(s)) /\ Len(u) = Len(q) + Len(r)
      /\ a \in Seq(Mine(s)) /\ Len(a) = Len(q)
      /\ b \in Seq(Mine(s)) /\ Len(b) = Len(r)
  BY <1>1, ItemsType
<1>3. /\ \A i \in 1..(Len(q) + Len(r)) : u[i] = <<s, (q \o r)[i].k>>
      /\ \A i \in 1..Len(q) : a[i] = <<s, q[i].k>>
      /\ \A i \in 1..Len(r) : b[i] = <<s, r[i].k>>
  BY <1>1 DEF Items
<1> HIDE DEF u, a, b
<1>4. /\ v \in Seq(Mine(s)) /\ Len(v) = Len(q) + Len(r)
      /\ \A i \in 1..(Len(q) + Len(r)) : v[i] = IF i <= Len(q) THEN a[i] ELSE b[i - Len(q)]
  <2>1. PICK X : X = Mine(s)
    OBVIOUS
  <2>2. a \in Seq(X) /\ b \in Seq(X)
    BY <1>2, <2>1
  <2>3. /\ v \in Seq(X) /\ Len(v) = Len(a) + Len(b)
        /\ \A i \in 1..(Len(a) + Len(b)) : v[i] = IF i <= Len(a) THEN a[i] ELSE b[i - Len(a)]
    BY <2>2, ConcatProperties
  <2> QED
    BY <1>2, <2>1, <2>3
<1> HIDE DEF v
<1>5. \A i \in 1..(Len(q) + Len(r)) : u[i] = v[i]
  <2> TAKE i \in 1..(Len(q) + Len(r))
  <2>1. CASE i <= Len(q)
    <3>1. i \in 1..Len(q)
      BY <1>1, <2>1
    <3> QED
      BY <1>1, <1>3, <1>4, <2>1, <3>1
  <2>2. CASE ~(i <= Len(q))
    <3>1. i - Len(q) \in 1..Len(r)
      BY <1>1, <2>2
    <3> QED
      BY <1>1, <1>3, <1>4, <2>2, <3>1
  <2> QED
    BY <2>1, <2>2
<1>6. u = v
  BY <1>2, <1>4, <1>5, SeqEqual
<1> QED
  BY <1>6 DEF u, v, a, b

LEMMA DataIs == \A s, q : DataOf(s, q) = Items(s, Only(q, DataFrame))
BY DEF DataOf, DataFrame

LEMMA OnlyData ==
  ASSUME NEW q \in Seq(Frame)
  PROVE  Only(q, DataFrame) \in Seq(DataFrame)
<1>1. Frame \intersect DataFrame = DataFrame
  BY DEF Frame, DataFrame
<1> QED
  BY <1>1, OnlyType

LEMMA DataType ==
  ASSUME NEW s, NEW q \in Seq(Frame)
  PROVE  DataOf(s, q) \in Seq(Mine(s))
BY DataIs, OnlyData, ItemsType

LEMMA OneIs ==
  ASSUME NEW s, NEW f \in Frame
  PROVE  /\ One(s, f) = Items(s, IfIn(f, DataFrame))
         /\ One(s, f) \in Seq(Mine(s))
         /\ IfIn(f, DataFrame) \in Seq(DataFrame)
         /\ DataOf(s, <<f>>) = One(s, f)
<1>1. CASE f.op = "data"
  <2>1. f \in DataFrame /\ IfIn(f, DataFrame) = <<f>> /\ One(s, f) = << <<s, f.k>> >>
    BY <1>1, DataFrames DEF IfIn, One
  <2>2. <<f>> \in Seq(DataFrame)
    BY <2>1
  <2>3. Items(s, <<f>>) = << <<s, f.k>> >>
    BY DEF Items
  <2>4. Only(<<f>>, DataFrame) = <<f>>
    BY <2>2, OnlyAll
  <2>5. DataOf(s, <<f>>) = One(s, f) /\ One(s, f) = Items(s, IfIn(f, DataFrame))
    BY <2>1, <2>3, <2>4, DataIs
  <2>6. One(s, f) \in Seq(Mine(s))
    <3>1. <<s, f.k>> \in Mine(s)
      BY DEF Frame, Mine
    <3> QED
      BY <2>1, <3>1
  <2> QED
    BY <2>1, <2>2, <2>5, <2>6
<1>2. CASE f.op # "data"
  <2>1. f \notin DataFrame /\ IfIn(f, DataFrame) = <<>> /\ One(s, f) = <<>>
    BY <1>2, DataFrames DEF IfIn, One
  <2>2. <<f>> \in Seq({f})
    OBVIOUS
  <2>3. Only(<<f>>, DataFrame) = <<>>
    <3>1. {f} \intersect DataFrame = {}
      BY <2>1
    <3> QED
      BY <2>2, <3>1, OnlyNone
  <2>4. Items(s, <<>>) = <<>>
    BY DEF Items
  <2>5. <<>> \in Seq(DataFrame) /\ <<>> \in Seq(Mine(s))
    BY EmptySeq
  <2> QED
    BY <2>1, <2>3, <2>4, <2>5, DataIs
<1> QED
  BY <1>1, <1>2

LEMMA DataConcat ==
  ASSUME NEW s, NEW q, NEW r, q \in Seq(Frame), r \in Seq(Frame)
  PROVE  DataOf(s, q \o r) = DataOf(s, q) \o DataOf(s, r)
<1>1. Only(q \o r, DataFrame) = Only(q, DataFrame) \o Only(r, DataFrame)
  BY OnlyConcat
<1>2. Only(q, DataFrame) \in Seq(DataFrame) /\ Only(r, DataFrame) \in Seq(DataFrame)
  BY OnlyData
<1>3. Items(s, Only(q, DataFrame) \o Only(r, DataFrame)) =
        Items(s, Only(q, DataFrame)) \o Items(s, Only(r, DataFrame))
  BY <1>2, ItemsConcat
<1> QED
  BY <1>1, <1>3, DataIs

LEMMA DataAppend ==
  ASSUME NEW s, NEW q \in Seq(Frame), NEW f \in Frame
  PROVE  DataOf(s, Append(q, f)) = DataOf(s, q) \o One(s, f)
<1>1. Append(q, f) = q \o <<f>> /\ <<f>> \in Seq(Frame)
  BY AppendIsConcat
<1>2. DataOf(s, q \o <<f>>) = DataOf(s, q) \o DataOf(s, <<f>>)
  BY <1>1, DataConcat
<1>3. DataOf(s, <<f>>) = One(s, f)
  BY OneIs
<1> QED
  BY <1>1, <1>2, <1>3

LEMMA DataHead ==
  ASSUME NEW s, NEW q \in Seq(Frame), q # <<>>
  PROVE  DataOf(s, q) = One(s, Head(q)) \o DataOf(s, Tail(q))
<1>1. PICK f \in Frame, r \in Seq(Frame) : f = Head(q) /\ r = Tail(q)
  BY HeadTailProperties
<1>2. q = <<f>> \o r /\ <<f>> \in Seq(Frame)
  BY <1>1
<1>3. DataOf(s, <<f>> \o r) = DataOf(s, <<f>>) \o DataOf(s, r)
  BY <1>2, DataConcat
<1>4. DataOf(s, <<f>>) = One(s, f)
  BY OneIs
<1> QED
  BY <1>1, <1>2, <1>3, <1>4

LEMMA DataAll ==
  ASSUME NEW s, NEW q \in Seq(DataFrame)
  PROVE  DataOf(s, q) = Items(s, q)
BY OnlyAll, DataIs

LEMMA DataEmpty == \A s : DataOf(s, <<>>) = <<>>
<1> TAKE s
<1>1. Items(s, <<>>) = <<>>
  BY DEF Items
<1> QED
  BY <1>1, DataIs, OnlyEmpty

(* What is added to what was shown belongs to one session. *)
LEMMA ShownAdd ==
  ASSUME NEW u \in Seq(Item), NEW s \in Sessions, NEW v \in Seq(Mine(s))
  PROVE  /\ u \o v \in Seq(Item)
         /\ ShownBy(u \o v, s) = ShownBy(u, s) \o v
         /\ \A t : t # s => ShownBy(u \o v, t) = ShownBy(u, t)
<1>1. Mine(s) \subseteq Item
  BY DEF Item, Mine
<1>2. v \in Seq(Item)
  BY <1>1, SeqMonotonic
<1>3. u \o v \in Seq(Item)
  BY <1>2
<1>4. \A t : ShownBy(u \o v, t) = ShownBy(u, t) \o ShownBy(v, t)
  BY <1>2, OnlyConcat DEF ShownBy
<1>5. ShownBy(v, s) = v
  BY OnlyAll DEF ShownBy
<1>6. ASSUME NEW t, t # s PROVE ShownBy(u \o v, t) = ShownBy(u, t)
  <2>1. Mine(s) \intersect Mine(t) = {}
    BY <1>6 DEF Mine
  <2>2. ShownBy(v, t) = <<>>
    BY <2>1, OnlyNone DEF ShownBy
  <2>3. ShownBy(u, t) \in Seq(Item)
    BY OnlyType DEF ShownBy
  <2>4. ShownBy(u, t) \o <<>> = ShownBy(u, t)
    BY <2>3, ConcatEmptySeq
  <2> QED
    BY <1>4, <2>2, <2>4
<1> QED
  BY <1>3, <1>4, <1>5, <1>6

LEMMA SentType ==
  ASSUME NEW s, NEW m \in Nat
  PROVE  /\ [k \in 1..m |-> <<s, k>>] \in Seq(Mine(s))
         /\ Len([k \in 1..m |-> <<s, k>>]) = m
         /\ [k \in 1..(m + 1) |-> <<s, k>>] = [k \in 1..m |-> <<s, k>>] \o << <<s, m + 1>> >>
<1> DEFINE a == [k \in 1..m |-> <<s, k>>]
           b == [k \in 1..(m + 1) |-> <<s, k>>]
           x == <<s, m + 1>>
<1>1. a \in Seq(Mine(s)) /\ Len(a) = m
  BY DEF Mine
<1>2. b \in Seq(Mine(s)) /\ Len(b) = m + 1
  BY DEF Mine
<1>3. x \in Mine(s)
  BY DEF Mine
<1>4. /\ \A i \in 1..m : a[i] = <<s, i>>
      /\ \A i \in 1..(m + 1) : b[i] = <<s, i>>
  OBVIOUS
<1> HIDE DEF a, b
<1>5. Append(a, x) \in Seq(Mine(s)) /\ Len(Append(a, x)) = m + 1
      /\ Append(a, x)[m + 1] = x /\ \A i \in 1..m : Append(a, x)[i] = a[i]
  BY <1>1, <1>3, AppendProperties
<1>6. \A i \in 1..(m + 1) : Append(a, x)[i] = b[i]
  <2> TAKE i \in 1..(m + 1)
  <2>1. CASE i = m + 1
    BY <1>4, <1>5, <2>1
  <2>2. CASE i # m + 1
    <3>1. i \in 1..m
      BY <2>2
    <3> QED
      BY <1>4, <1>5, <3>1
  <2> QED
    BY <2>1, <2>2
<1>7. Append(a, x) = b
  BY <1>2, <1>5, <1>6, SeqEqual
<1>8. Append(a, x) = a \o <<x>>
  BY <1>1, <1>3, AppendIsConcat
<1> QED
  BY <1>1, <1>7, <1>8 DEF a, b

----------------------------------------------------------------------------
(* What keys mean. *)

LEMMA OpenIs ==
  ASSUME NEW q \in Seq(KeyRec)
  PROVE  /\ Open(q) \in [0..Len(q) -> BOOLEAN] /\ Open(q)[0] = FALSE
         /\ \A i \in 1..Len(q) : Open(q)[i] = (q[i].kind = "esc" /\ ~Open(q)[i - 1])
<1> DEFINE Step(v, i) == q[i].kind = "esc" /\ ~v
           G == [i \in Nat |-> [v \in BOOLEAN |-> Step(v, i)]]
           Is(o) == o = [i \in 0..Len(q) |-> i > 0 /\ q[i].kind = "esc" /\ ~o[i - 1]]
<1>1. G \in [Nat -> [BOOLEAN -> BOOLEAN]]
  OBVIOUS
<1>2. Len(q) \in Nat
  OBVIOUS
<1>3. PICK f : /\ f \in [0..Len(q) -> BOOLEAN] /\ f[0] = FALSE
               /\ \A i \in 1..Len(q) : f[i] = G[i][f[i - 1]]
  <2> HIDE DEF G
  <2>1. \E f : f \in [0..Len(q) -> BOOLEAN] /\ Recurs(f, FALSE, G, Len(q))
    BY <1>1, <1>2, Recursion
  <2> QED
    BY <2>1 DEF Recurs
<1>4. \A i \in 1..Len(q) : f[i] = (q[i].kind = "esc" /\ ~f[i - 1])
  <2> TAKE i \in 1..Len(q)
  <2>1. f[i - 1] \in BOOLEAN /\ i \in Nat
    BY <1>2, <1>3
  <2>2. G[i][f[i - 1]] = Step(f[i - 1], i)
    BY <2>1
  <2> QED
    BY <1>3, <2>2
<1>5. f = [i \in 0..Len(q) |-> i > 0 /\ q[i].kind = "esc" /\ ~f[i - 1]]
  <2>1. ASSUME NEW i \in 0..Len(q)
        PROVE  f[i] = (i > 0 /\ q[i].kind = "esc" /\ ~f[i - 1])
    <3>1. i = 0 \/ i \in 1..Len(q)
      BY <1>2
    <3> QED
      BY <1>3, <1>4, <3>1
  <2> QED
    BY <1>3, <2>1
<1>6. Is(f)
  BY <1>5
<1>7. Open(q) = CHOOSE o : Is(o)
  BY DEF Open
<1>8. Is(Open(q))
  <2> HIDE DEF Is
  <2> QED
    BY <1>6, <1>7
<1>9. /\ DOMAIN Open(q) = 0..Len(q)
      /\ \A i \in 0..Len(q) : Open(q)[i] = (i > 0 /\ q[i].kind = "esc" /\ ~Open(q)[i - 1])
  <2>1. PICK o : o = Open(q)
    OBVIOUS
  <2>2. PICK g : g = [i \in 0..Len(q) |-> i > 0 /\ q[i].kind = "esc" /\ ~o[i - 1]]
    OBVIOUS
  <2>3. o = g
    BY <1>8, <2>1, <2>2
  <2>4. DOMAIN g = 0..Len(q) /\ \A i \in 0..Len(q) : g[i] = (i > 0 /\ q[i].kind = "esc" /\ ~o[i - 1])
    BY <2>2
  <2> QED
    BY <2>1, <2>3, <2>4
<1>10. Open(q) = [i \in 0..Len(q) |-> Open(q)[i]] /\ \A i \in 0..Len(q) : Open(q)[i] \in BOOLEAN
  <2>1. Open(q) = [i \in 0..Len(q) |-> i > 0 /\ q[i].kind = "esc" /\ ~Open(q)[i - 1]]
    BY <1>8
  <2>2. \A i \in 0..Len(q) : Open(q)[i] \in BOOLEAN
    BY <1>9
  <2>3. Open(q) = [i \in 0..Len(q) |-> Open(q)[i]]
    BY <1>9, <2>1
  <2> QED
    BY <2>2, <2>3
<1>11. Open(q) \in [0..Len(q) -> BOOLEAN]
  BY <1>10
<1>12. Open(q)[0] = FALSE
  <2>1. 0 \in 0..Len(q) /\ ~(0 > 0)
    BY <1>2
  <2>2. Open(q)[0] = (0 > 0 /\ q[0].kind = "esc" /\ ~Open(q)[0 - 1])
    BY <1>9, <2>1
  <2> QED
    BY <2>1, <2>2
<1>13. \A i \in 1..Len(q) : Open(q)[i] = (q[i].kind = "esc" /\ ~Open(q)[i - 1])
  BY <1>2, <1>9
<1> QED
  BY <1>11, <1>12, <1>13

(* What one more key means, after an open escape m or after none. *)
Now(o, m, x) ==
  IF ~o THEN IF x.kind = "esc" THEN <<>> ELSE <<x>>
  ELSE IF x.kind = "a" THEN <<x>>
  ELSE IF Plain(x.kind) THEN <<m, x>>
  ELSE <<>>

LEMMA NowType ==
  ASSUME NEW o \in BOOLEAN, NEW m, o => m \in KeyRec, NEW x \in KeyRec
  PROVE  Now(o, m, x) \in Seq(KeyRec)
<1>1. <<>> \in Seq(KeyRec) /\ <<x>> \in Seq(KeyRec) /\ (o => <<m, x>> \in Seq(KeyRec))
  BY EmptySeq
<1> QED
  BY <1>1 DEF Now

LEMMA OpenAppend ==
  ASSUME NEW q \in Seq(KeyRec), NEW x \in KeyRec
  PROVE  /\ \A i \in 0..Len(q) : Open(Append(q, x))[i] = Open(q)[i]
         /\ OpenAfter(Append(q, x)) = (x.kind = "esc" /\ ~OpenAfter(q))
         /\ OpenAfter(q) \in BOOLEAN
         /\ OpenAfter(q) => Last(q) \in KeyRec
<1> DEFINE r == Append(q, x)
<1>1. /\ r \in Seq(KeyRec) /\ Len(r) = Len(q) + 1 /\ Len(q) \in Nat
      /\ r[Len(q) + 1] = x /\ \A i \in 1..Len(q) : r[i] = q[i]
  BY AppendProperties
<1> HIDE DEF r
<1>2. /\ Open(q) \in [0..Len(q) -> BOOLEAN] /\ Open(q)[0] = FALSE
      /\ \A i \in 1..Len(q) : Open(q)[i] = (q[i].kind = "esc" /\ ~Open(q)[i - 1])
  BY OpenIs
<1>3. /\ Open(r)[0] = FALSE
      /\ \A i \in 1..Len(r) : Open(r)[i] = (r[i].kind = "esc" /\ ~Open(r)[i - 1])
  BY <1>1, OpenIs
<1>4. \A i \in 0..Len(q) : Open(r)[i] = Open(q)[i]
  <2>1. PICK f, g : f = Open(r) /\ g = Open(q)
    OBVIOUS
  <2>2. \A i \in 1..Len(q) : f[i - 1] = g[i - 1] => f[i] = g[i]
    BY <1>1, <1>2, <1>3, <2>1
  <2>3. f[0] = g[0]
    BY <1>2, <1>3, <2>1
  <2>4. AlikeNext(f, g, Len(q))
    BY <2>2 DEF AlikeNext
  <2>5. Alike(f, g, Len(q))
    BY <1>1, <2>3, <2>4, RecursionSame
  <2> QED
    BY <2>1, <2>5 DEF Alike
<1>5. OpenAfter(r) = (x.kind = "esc" /\ ~OpenAfter(q))
  <2>1. Len(r) \in 1..Len(r) /\ Len(r) - 1 = Len(q) /\ Len(q) \in 0..Len(q)
    BY <1>1
  <2>2. Open(r)[Len(r)] = (r[Len(r)].kind = "esc" /\ ~Open(r)[Len(q)])
    BY <1>3, <2>1
  <2>3. Open(r)[Len(q)] = Open(q)[Len(q)]
    BY <1>4, <2>1
  <2> QED
    BY <1>1, <2>2, <2>3 DEF OpenAfter
<1>6. OpenAfter(q) \in BOOLEAN
  <2>1. Len(q) \in 0..Len(q)
    BY <1>1
  <2> QED
    BY <1>2, <2>1 DEF OpenAfter
<1>7. OpenAfter(q) => Last(q) \in KeyRec
  <2>1. ASSUME OpenAfter(q) PROVE Last(q) \in KeyRec
    <3>1. Len(q) # 0
      BY <1>2, <2>1 DEF OpenAfter
    <3>2. Len(q) \in 1..Len(q)
      BY <1>1, <3>1
    <3> QED
      BY <3>2, ElementOfSeq DEF Last
  <2> QED
    BY <2>1
<1> QED
  BY <1>4, <1>5, <1>6, <1>7 DEF r

LEMMA MeansType ==
  ASSUME NEW q \in Seq(KeyRec), NEW i \in 1..Len(q)
  PROVE  /\ Means(q, i) = Now(Open(q)[i - 1], q[i - 1], q[i])
         /\ Means(q, i) \in Seq(KeyRec)
<1>1. Means(q, i) = Now(Open(q)[i - 1], q[i - 1], q[i])
  BY DEF Means, Now
<1>2. Open(q)[i - 1] \in BOOLEAN
  <2>1. i - 1 \in 0..Len(q)
    OBVIOUS
  <2>2. Open(q) \in [0..Len(q) -> BOOLEAN]
    BY OpenIs
  <2> QED
    BY <2>1, <2>2
<1>3. Open(q)[i - 1] => q[i - 1] \in KeyRec
  <2>1. ASSUME Open(q)[i - 1] PROVE q[i - 1] \in KeyRec
    <3>1. Open(q)[0] = FALSE
      BY OpenIs
    <3>2. i - 1 # 0 /\ i - 1 \in 1..Len(q)
      BY <2>1, <3>1
    <3> QED
      BY <3>2, ElementOfSeq
  <2> QED
    BY <2>1
<1>4. q[i] \in KeyRec
  BY ElementOfSeq
<1> QED
  BY <1>1, <1>2, <1>3, <1>4, NowType

LEMMA MeansSeq ==
  ASSUME NEW q \in Seq(KeyRec)
  PROVE  [i \in DOMAIN q |-> Means(q, i)] \in Seq(Seq(KeyRec))
<1>1. \A i \in 1..Len(q) : Means(q, i) \in Seq(KeyRec)
  BY MeansType
<1> QED
  BY <1>1, IsASeq

LEMMA MeaningType ==
  /\ Meaning(<<>>) = <<>>
  /\ \A q \in Seq(KeyRec) : Meaning(q) \in Seq(KeyRec) /\ (~tty => Meaning(q) = q)
<1>1. Meaning(<<>>) = <<>>
  <2>1. [i \in DOMAIN <<>> |-> Means(<<>>, i)] = <<>>
    OBVIOUS
  <2> QED
    BY <2>1, FlattenEmpty DEF Meaning
<1>2. ASSUME NEW q \in Seq(KeyRec)
      PROVE  Meaning(q) \in Seq(KeyRec) /\ (~tty => Meaning(q) = q)
  BY MeansSeq, FlattenType DEF Meaning
<1> QED
  BY <1>1, <1>2

LEMMA MeaningAppend ==
  ASSUME NEW q \in Seq(KeyRec), NEW x \in KeyRec
  PROVE  tty => Meaning(Append(q, x)) = Meaning(q) \o Now(OpenAfter(q), Last(q), x)
<1> DEFINE M(u) == [i \in DOMAIN u |-> Means(u, i)]
           r == Append(q, x)
           w == Now(OpenAfter(q), Last(q), x)
<1>1. /\ r \in Seq(KeyRec) /\ Len(r) = Len(q) + 1 /\ Len(q) \in Nat
      /\ r[Len(q) + 1] = x /\ \A i \in 1..Len(q) : r[i] = q[i]
  BY AppendProperties
<1>2. ASSUME NEW u \in Seq(KeyRec)
      PROVE  M(u) \in Seq(Seq(KeyRec)) /\ Len(M(u)) = Len(u) /\ \A i \in 1..Len(u) : M(u)[i] = Means(u, i)
  <2>2. M(u) \in Seq(Seq(KeyRec))
    BY MeansSeq
  <2>3. Len(M(u)) = Len(u) /\ \A i \in 1..Len(u) : M(u)[i] = Means(u, i)
    OBVIOUS
  <2> QED
    BY <2>2, <2>3
<1>5. w \in Seq(KeyRec)
  BY OpenAppend, NowType
<1>6. M(r) = Append(M(q), w)
  <2> HIDE DEF r
  <2>1. /\ M(r) \in Seq(Seq(KeyRec)) /\ Len(M(r)) = Len(q) + 1
        /\ \A i \in 1..(Len(q) + 1) : M(r)[i] = Means(r, i)
    BY <1>1, <1>2
  <2>2. /\ M(q) \in Seq(Seq(KeyRec)) /\ Len(M(q)) = Len(q)
        /\ \A i \in 1..Len(q) : M(q)[i] = Means(q, i)
    BY <1>2
  <2>3. \A i \in 0..Len(q) : Open(r)[i] = Open(q)[i]
    BY OpenAppend DEF r
  <2>4. \A i \in 1..Len(q) : Means(r, i) = Means(q, i)
    <3> TAKE i \in 1..Len(q)
    <3>1. i \in 1..Len(r) /\ i - 1 \in 0..Len(q) /\ r[i] = q[i]
      BY <1>1
    <3>2. Open(r)[i - 1] = Open(q)[i - 1]
      BY <2>3, <3>1
    <3>3. Open(q)[i - 1] => r[i - 1] = q[i - 1]
      <4>1. ASSUME Open(q)[i - 1] PROVE r[i - 1] = q[i - 1]
        <5>1. Open(q)[0] = FALSE
          BY OpenIs
        <5>2. i - 1 # 0 /\ i - 1 \in 1..Len(q)
          BY <4>1, <5>1
        <5> QED
          BY <1>1, <5>2
      <4> QED
        BY <4>1
    <3> QED
      BY <3>1, <3>2, <3>3 DEF Means
  <2>5. Means(r, Len(q) + 1) = w
    <3>1. Len(q) + 1 - 1 = Len(q) /\ Len(q) \in 0..Len(q)
      BY <1>1
    <3>2. Open(r)[Len(q)] = OpenAfter(q)
      BY <2>3, <3>1 DEF OpenAfter
    <3>3. OpenAfter(q) => r[Len(q)] = Last(q)
      <4>1. ASSUME OpenAfter(q) PROVE r[Len(q)] = Last(q)
        <5>1. Len(q) # 0
          BY <4>1, OpenIs DEF OpenAfter
        <5> QED
          BY <1>1, <5>1 DEF Last
      <4> QED
        BY <4>1
    <3> QED
      BY <1>1, <3>1, <3>2, <3>3 DEF Means, Now
  <2> DEFINE a == M(r)
             c == M(q)
             b == Append(c, w)
  <2>6. /\ b \in Seq(Seq(KeyRec)) /\ Len(b) = Len(q) + 1 /\ b[Len(q) + 1] = w
        /\ \A i \in 1..Len(q) : b[i] = c[i]
    <3> HIDE DEF c, w
    <3> QED
      BY <1>5, <2>2, AppendProperties DEF c
  <2>7. \A i \in 1..(Len(q) + 1) : a[i] = b[i]
    <3> TAKE i \in 1..(Len(q) + 1)
    <3>1. i = Len(q) + 1 \/ i \in 1..Len(q)
      BY <1>1
    <3> HIDE DEF b, w
    <3> QED
      BY <2>1, <2>2, <2>4, <2>5, <2>6, <3>1
  <2>8. a = b
    <3> HIDE DEF a, b
    <3> QED
      BY <2>1, <2>6, <2>7, SeqEqual DEF a
  <2> QED
    BY <2>8
<1>7. FlattenSeq(Append(M(q), w)) = FlattenSeq(M(q)) \o w
  <2>1. M(q) \in Seq(Seq(KeyRec))
    BY <1>2
  <2> HIDE DEF M, w
  <2> QED
    BY <1>5, <2>1, FlattenAppend
<1>8. tty => Meaning(q) = FlattenSeq(M(q)) /\ Meaning(r) = FlattenSeq(M(r))
  BY DEF Meaning
<1> QED
  BY <1>6, <1>7, <1>8

----------------------------------------------------------------------------
(* What a session does with the keys of one read. *)

LEMMA KeyType ==
  ASSUME NEW d \in Decoder, NEW x \in KeyRec, d.esc => d.mark \in KeyRec
  PROVE  /\ Key(d, x) \in Decoder
         /\ Key(d, x).esc => Key(d, x).mark \in KeyRec
<1>0. x \in KeyRec \union {None} /\ Append(d.emit, x) \in Seq(KeyRec)
      /\ (d.esc => d.emit \o <<d.mark, x>> \in Seq(KeyRec))
  <2>1. d.emit \in Seq(KeyRec)
    BY DEF Decoder
  <2>2. d.esc => <<d.mark, x>> \in Seq(KeyRec)
    OBVIOUS
  <2> QED
    BY <2>1, <2>2, AppendProperties, ConcatProperties
<1>1. CASE d.stop # None
  BY <1>1 DEF Key
<1>2. CASE d.stop = None /\ ~d.esc
  <2>1. Key(d, x) = IF x.kind = "esc" THEN [d EXCEPT !.esc = TRUE, !.mark = x]
                    ELSE [d EXCEPT !.emit = Append(@, x)]
    BY <1>2 DEF Key
  <2> QED
    BY <1>0, <1>2, <2>1 DEF Decoder
<1>3. CASE d.stop = None /\ d.esc
  <2> DEFINE e == [d EXCEPT !.esc = FALSE]
  <2>1. e \in Decoder /\ e.emit = d.emit /\ e.esc = FALSE
    BY DEF Decoder
  <2>3. \A q \in Seq(KeyRec) : [e EXCEPT !.emit = q] \in Decoder /\ [e EXCEPT !.emit = q].esc = FALSE
    BY <2>1 DEF Decoder
  <2>4. \A c \in {"quit", "reconnect"} : [e EXCEPT !.stop = c] \in Decoder /\ [e EXCEPT !.stop = c].esc = FALSE
    BY <2>1 DEF Decoder
  <2>5. [e EXCEPT !.log = ~@] \in Decoder /\ [e EXCEPT !.log = ~@].esc = FALSE
    BY <2>1 DEF Decoder
  <2>2. \/ Key(d, x) = [e EXCEPT !.stop = "quit"]
        \/ Key(d, x) = [e EXCEPT !.stop = "reconnect"]
        \/ Key(d, x) = [e EXCEPT !.log = ~@]
        \/ Key(d, x) = e
        \/ Key(d, x) = [e EXCEPT !.emit = Append(@, x)]
        \/ Key(d, x) = [e EXCEPT !.emit = @ \o <<d.mark, x>>]
    BY <1>3 DEF Key
  <2> HIDE DEF e
  <2>6. \E f \in Decoder : Key(d, x) = f /\ f.esc = FALSE
    BY <1>0, <1>3, <2>1, <2>2, <2>3, <2>4, <2>5
  <2> QED
    BY <2>6
<1> QED
  BY <1>1, <1>2, <1>3 DEF Decoder

LEMMA KeyMeans ==
  ASSUME NEW d \in Decoder, NEW x \in KeyRec, None \notin {"quit", "reconnect", "error"}
  PROVE  /\ d.stop # None => Key(d, x) = d
         /\ Key(d, x).stop # None /\ d.stop = None => Key(d, x).emit = d.emit
         /\ Key(d, x).stop = None =>
              /\ d.stop = None
              /\ Key(d, x).esc = (x.kind = "esc" /\ ~d.esc)
              /\ Key(d, x).esc => Key(d, x).mark = x
              /\ Key(d, x).emit = d.emit \o Now(d.esc, d.mark, x)
<1>0. /\ d.emit \in Seq(KeyRec) /\ d.emit \o <<>> = d.emit
      /\ Append(d.emit, x) = d.emit \o <<x>>
  <2>1. d.emit \in Seq(KeyRec)
    BY DEF Decoder
  <2> QED
    BY <2>1, ConcatEmptySeq, AppendIsConcat
<1>1. CASE d.stop # None
  BY <1>1 DEF Key
<1>2. CASE d.stop = None /\ ~d.esc
  <2>1. CASE x.kind = "esc"
    <3>1. Key(d, x) = [d EXCEPT !.esc = TRUE, !.mark = x] /\ Now(d.esc, d.mark, x) = <<>>
      BY <1>2, <2>1 DEF Key, Now
    <3> QED
      BY <1>0, <1>2, <2>1, <3>1 DEF Decoder
  <2>2. CASE x.kind # "esc"
    <3>1. Key(d, x) = [d EXCEPT !.emit = Append(@, x)] /\ Now(d.esc, d.mark, x) = <<x>>
      BY <1>2, <2>2 DEF Key, Now
    <3> QED
      BY <1>0, <1>2, <2>2, <3>1 DEF Decoder
  <2> QED
    BY <2>1, <2>2
<1>3. CASE d.stop = None /\ d.esc
  <2> DEFINE e == [d EXCEPT !.esc = FALSE]
             w == Now(d.esc, d.mark, x)
  <2>1. e \in Decoder /\ e.emit = d.emit /\ e.esc = FALSE /\ e.stop = None
    BY <1>3 DEF Decoder
  <2>2. \/ Key(d, x) = [e EXCEPT !.stop = "quit"]
        \/ Key(d, x) = [e EXCEPT !.stop = "reconnect"]
        \/ Key(d, x) = [e EXCEPT !.log = ~@] /\ w = <<>>
        \/ Key(d, x) = e /\ w = <<>>
        \/ Key(d, x) = [e EXCEPT !.emit = Append(@, x)] /\ w = <<x>>
        \/ Key(d, x) = [e EXCEPT !.emit = @ \o <<d.mark, x>>] /\ w = <<d.mark, x>>
    <3>1. CASE x.kind = "x"
      BY <1>3, <3>1 DEF Key, Now, Quits, Plain
    <3>2. CASE x.kind = "r"
      BY <1>3, <3>2 DEF Key, Now, Quits, Plain
    <3>3. CASE x.kind = "l"
      BY <1>3, <3>3 DEF Key, Now, Quits, Plain
    <3>4. CASE x.kind = "b"
      BY <1>3, <3>4 DEF Key, Now, Quits, Plain
    <3>5. CASE x.kind = "a"
      BY <1>3, <3>5 DEF Key, Now, Quits, Plain
    <3>6. CASE x.kind \notin {"x", "r", "l", "b", "a"}
      BY <1>3, <3>6 DEF Key, Now, Quits, Plain
    <3> QED
      BY <3>1, <3>2, <3>3, <3>4, <3>5, <3>6
  <2> HIDE DEF e, w
  <2>3. Key(d, x).esc = FALSE
    BY <2>1, <2>2 DEF Decoder
  <2>4. Key(d, x).stop # None => Key(d, x).emit = d.emit
    BY <2>1, <2>2 DEF Decoder
  <2>5. Key(d, x).stop = None => Key(d, x).emit = d.emit \o w
    BY <1>0, <2>1, <2>2 DEF Decoder
  <2> QED
    BY <1>3, <2>3, <2>4, <2>5 DEF w
<1> QED
  BY <1>1, <1>2, <1>3 DEF Decoder

Decodes(D, d0, keys) ==
  /\ D \in [0..Len(keys) -> Good] /\ D[0] = d0
  /\ \A i \in 1..Len(keys) : D[i] = Key(D[i - 1], keys[i])

LEMMA DecodedIs ==
  ASSUME NEW d0 \in Good, NEW keys \in Seq(KeyRec)
  PROVE  \E D : Decodes(D, d0, keys) /\ Decoded(d0, keys) = D[Len(keys)]
<1> DEFINE Step(v, i) == IF i \in 1..Len(keys) THEN Key(v, keys[i]) ELSE v
           G == [i \in Nat |-> [v \in Good |-> Step(v, i)]]
           Is(d) == d = [i \in 0..Len(keys) |-> IF i = 0 THEN d0 ELSE Key(d[i - 1], keys[i])]
<1>1. G \in [Nat -> [Good -> Good]]
  <2>1. \A i \in Nat : \A v \in Good : Step(v, i) \in Good
    <3> TAKE i \in Nat
    <3> TAKE v \in Good
    <3>1. CASE i \in 1..Len(keys)
      <4>1. keys[i] \in KeyRec /\ v \in Decoder /\ (v.esc => v.mark \in KeyRec)
        BY <3>1, ElementOfSeq DEF Good
      <4>2. Key(v, keys[i]) \in Good
        BY <4>1, KeyType DEF Good
      <4> QED
        BY <3>1, <4>2
    <3>2. CASE i \notin 1..Len(keys)
      BY <3>2
    <3> QED
      BY <3>1, <3>2
  <2> HIDE DEF Step
  <2> QED
    BY <2>1
<1>2. Len(keys) \in Nat
  OBVIOUS
<1>3. PICK f : /\ f \in [0..Len(keys) -> Good] /\ f[0] = d0
               /\ \A i \in 1..Len(keys) : f[i] = G[i][f[i - 1]]
  <2> HIDE DEF G
  <2>1. \E f : f \in [0..Len(keys) -> Good] /\ Recurs(f, d0, G, Len(keys))
    BY <1>1, <1>2, Recursion
  <2> QED
    BY <2>1 DEF Recurs
<1>4. \A i \in 1..Len(keys) : f[i] = Key(f[i - 1], keys[i])
  <2> TAKE i \in 1..Len(keys)
  <2>1. f[i - 1] \in Good /\ i \in Nat
    BY <1>2, <1>3
  <2>2. G[i][f[i - 1]] = Step(f[i - 1], i)
    BY <2>1
  <2> QED
    BY <1>3, <2>2
<1>5. Is(f)
  <2>1. ASSUME NEW i \in 0..Len(keys)
        PROVE  f[i] = IF i = 0 THEN d0 ELSE Key(f[i - 1], keys[i])
    <3>1. i = 0 \/ (i # 0 /\ i \in 1..Len(keys))
      BY <1>2
    <3> QED
      BY <1>3, <1>4, <3>1
  <2> QED
    BY <1>3, <2>1
<1>6. PICK D : Is(D) /\ Decoded(d0, keys) = D[Len(keys)]
  <2>1. PICK D : D = CHOOSE d : Is(d)
    OBVIOUS
  <2>2. Is(D)
    <3> HIDE DEF Is
    <3> QED
      BY <1>5, <2>1
  <2>3. Decoded(d0, keys) = D[Len(keys)]
    BY <2>1 DEF Decoded
  <2> QED
    BY <2>2, <2>3
<1>7. DOMAIN D = 0..Len(keys) /\ D[0] = d0 /\ \A i \in 1..Len(keys) : D[i] = Key(D[i - 1], keys[i])
  <2>1. PICK g : g = [i \in 0..Len(keys) |-> IF i = 0 THEN d0 ELSE Key(D[i - 1], keys[i])]
    OBVIOUS
  <2>2. D = g
    BY <1>6, <2>1
  <2>3. /\ DOMAIN g = 0..Len(keys) /\ g[0] = d0
        /\ \A i \in 1..Len(keys) : g[i] = Key(D[i - 1], keys[i])
    BY <1>2, <2>1
  <2> QED
    BY <2>2, <2>3
<1>8. \A i \in 0..Len(keys) : f[i] = D[i]
  <2>1. f[0] = D[0] /\ \A i \in 1..Len(keys) : f[i - 1] = D[i - 1] => f[i] = D[i]
    BY <1>3, <1>4, <1>7
  <2>2. AlikeNext(f, D, Len(keys))
    BY <2>1 DEF AlikeNext
  <2>3. Alike(f, D, Len(keys))
    BY <1>2, <2>1, <2>2, RecursionSame
  <2> QED
    BY <2>3 DEF Alike
<1>9. D \in [0..Len(keys) -> Good]
  <2>1. \A i \in 0..Len(keys) : D[i] \in Good
    BY <1>3, <1>8
  <2>2. D = [i \in 0..Len(keys) |-> D[i]]
    BY <1>6, <1>7
  <2> QED
    BY <2>1, <2>2
<1> QED
  BY <1>6, <1>7, <1>9 DEF Decodes

LEMMA DecodedEmpty ==
  ASSUME NEW d0 \in Good
  PROVE  Decoded(d0, <<>>) = d0
<1>1. <<>> \in Seq(KeyRec) /\ Len(<<>>) = 0
  BY EmptySeq
<1>2. PICK D : Decodes(D, d0, <<>>) /\ Decoded(d0, <<>>) = D[0]
  BY <1>1, DecodedIs
<1> QED
  BY <1>2 DEF Decodes

LEMMA DecodedType ==
  ASSUME NEW d0 \in Good, NEW keys \in Seq(KeyRec)
  PROVE  Decoded(d0, keys) \in Good
<1>1. PICK D : Decodes(D, d0, keys) /\ Decoded(d0, keys) = D[Len(keys)]
  BY DecodedIs
<1>2. Len(keys) \in 0..Len(keys)
  OBVIOUS
<1> QED
  BY <1>1, <1>2 DEF Decodes

LEMMA DecodedAppend ==
  ASSUME NEW d0 \in Good, NEW keys \in Seq(KeyRec), NEW x \in KeyRec
  PROVE  Decoded(d0, Append(keys, x)) = Key(Decoded(d0, keys), x)
<1>1. PICK r : r = Append(keys, x)
  OBVIOUS
<1>2. /\ r \in Seq(KeyRec) /\ Len(r) = Len(keys) + 1 /\ Len(keys) \in Nat
      /\ r[Len(keys) + 1] = x /\ \A i \in 1..Len(keys) : r[i] = keys[i]
  BY <1>1, AppendProperties
<1>4. PICK D : Decodes(D, d0, keys) /\ Decoded(d0, keys) = D[Len(keys)]
  BY DecodedIs
<1>5. PICK E : Decodes(E, d0, r) /\ Decoded(d0, r) = E[Len(r)]
  BY <1>2, DecodedIs
<1>6. \A i \in 0..Len(keys) : E[i] = D[i]
  <2>1. \A i \in 1..Len(keys) : i \in 1..Len(r)
    BY <1>2
  <2>2. E[0] = D[0] /\ \A i \in 1..Len(keys) : E[i - 1] = D[i - 1] => E[i] = D[i]
    BY <1>2, <1>4, <1>5, <2>1 DEF Decodes
  <2>3. Len(keys) \in Nat
    OBVIOUS
  <2>4. AlikeNext(E, D, Len(keys))
    BY <2>2 DEF AlikeNext
  <2>5. Alike(E, D, Len(keys))
    BY <2>2, <2>3, <2>4, RecursionSame
  <2> QED
    BY <2>5 DEF Alike
<1>8. E[Len(r)] = Key(D[Len(keys)], x)
  <2>1. Len(r) \in 1..Len(r) /\ Len(r) - 1 = Len(keys) /\ Len(keys) \in 0..Len(keys)
    BY <1>2
  <2>2. E[Len(r)] = Key(E[Len(r) - 1], r[Len(r)])
    BY <1>5, <2>1 DEF Decodes
  <2> QED
    BY <1>2, <1>6, <2>1, <2>2
<1> QED
  BY <1>1, <1>4, <1>5, <1>8

(* The keys of a read, decoded after those of the reads before it, are sent *)
(* as what all of them mean; the keys behind one that ends the session are  *)
(* not.                                                                    *)
DecodesOn(q, d0, keys) ==
  LET d == Decoded(d0, keys) IN
  /\ d \in Good
  /\ IsPrefix(Meaning(q) \o d.emit, Meaning(q \o keys))
  /\ d.stop = None =>
       /\ Meaning(q) \o d.emit = Meaning(q \o keys)
       /\ d.esc = OpenAfter(q \o keys)
       /\ d.esc => d.mark = Last(q \o keys)

LEMMA DecodeMeans ==
  ASSUME None \notin {"quit", "reconnect", "error"}, tty,
         NEW q \in Seq(KeyRec), NEW d0 \in Good, NEW keys \in Seq(KeyRec),
         d0.stop = None, d0.emit = <<>>, d0.esc = OpenAfter(q), d0.esc => d0.mark = Last(q)
  PROVE  DecodesOn(q, d0, keys)
<1> DEFINE A == {u \in Seq(KeyRec) : DecodesOn(q, d0, u)}
<1>0. \A u \in Seq(KeyRec) : Meaning(u) \in Seq(KeyRec)
  BY MeaningType
<1>1. <<>> \in A
  <2>1. <<>> \in Seq(KeyRec) /\ q \o <<>> = q /\ Meaning(q) \o <<>> = Meaning(q)
    BY <1>0, EmptySeq, ConcatEmptySeq
  <2>2. Decoded(d0, <<>>) = d0
    BY DecodedEmpty
  <2>3. IsPrefix(Meaning(q), Meaning(q))
    BY <1>0, PrefixGrows
  <2> QED
    BY <2>1, <2>2, <2>3 DEF DecodesOn
<1>2. ASSUME NEW u \in Seq(KeyRec), NEW x \in KeyRec, u \in A PROVE Append(u, x) \in A
  <2>1. PICK v, w : v = q \o u /\ w = Append(u, x)
    OBVIOUS
  <2>2. /\ v \in Seq(KeyRec) /\ w \in Seq(KeyRec) /\ q \o w = Append(v, x)
        /\ Append(v, x) \in Seq(KeyRec) /\ Last(Append(v, x)) = x
    <3>1. v \in Seq(KeyRec) /\ w \in Seq(KeyRec) /\ <<x>> \in Seq(KeyRec)
      BY <2>1, ConcatProperties, AppendProperties
    <3>2. Append(v, x) = v \o <<x>> /\ w = u \o <<x>>
      BY <2>1, <3>1, AppendIsConcat
    <3>3. q \o Append(u, x) = Append(q \o u, x)
      BY ConcatAppend
    <3>4. Append(v, x) \in Seq(KeyRec) /\ Last(Append(v, x)) = x
      BY <3>1, AppendProperties DEF Last
    <3> QED
      BY <2>1, <3>1, <3>2, <3>3, <3>4
  <2>3. PICK d, e : d = Decoded(d0, u) /\ e = Key(d, x)
    OBVIOUS
  <2>4. Decoded(d0, w) = e /\ d \in Good /\ e \in Good
    <3>1. Decoded(d0, w) = e /\ d \in Good
      BY <2>1, <2>3, DecodedAppend, DecodedType
    <3>2. Decoded(d0, w) \in Good
      BY <2>2, DecodedType
    <3> QED
      BY <3>1, <3>2
  <2>5. /\ IsPrefix(Meaning(q) \o d.emit, Meaning(v))
        /\ d.stop = None => /\ Meaning(q) \o d.emit = Meaning(v)
                            /\ d.esc = OpenAfter(v)
                            /\ d.esc => d.mark = Last(v)
    BY <1>2, <2>1, <2>3 DEF DecodesOn
  <2>6. PICK m : m = Now(OpenAfter(v), Last(v), x)
    OBVIOUS
  <2>7. /\ Meaning(Append(v, x)) = Meaning(v) \o m /\ m \in Seq(KeyRec)
        /\ OpenAfter(Append(v, x)) = (x.kind = "esc" /\ ~OpenAfter(v))
    BY <2>2, <2>6, MeaningAppend, OpenAppend, NowType
  <2>8. /\ d.stop # None => e = d
        /\ e.stop # None /\ d.stop = None => e.emit = d.emit
        /\ e.stop = None =>
              /\ d.stop = None
              /\ e.esc = (x.kind = "esc" /\ ~d.esc)
              /\ e.esc => e.mark = x
              /\ e.emit = d.emit \o Now(d.esc, d.mark, x)
    <3>1. d \in Decoder
      BY <2>4 DEF Good
    <3> QED
      BY <2>3, <3>1, KeyMeans
  <2>9. /\ Meaning(q) \in Seq(KeyRec) /\ Meaning(v) \in Seq(KeyRec)
        /\ d.emit \in Seq(KeyRec) /\ Meaning(q) \o d.emit \in Seq(KeyRec)
    BY <1>0, <2>2, <2>4, ConcatProperties DEF Good, Decoder
  <2>10. IsPrefix(Meaning(q) \o d.emit, Meaning(v) \o m)
    BY <2>5, <2>7, <2>9, PrefixGrows
  <2>11. CASE e.stop # None
    <3>1. e.emit = d.emit
      BY <2>8, <2>11
    <3> QED
      BY <2>1, <2>2, <2>4, <2>7, <2>10, <2>11, <3>1 DEF DecodesOn
  <2>12. CASE e.stop = None
    <3>1. Now(d.esc, d.mark, x) = m
      BY <2>5, <2>6, <2>8, <2>12 DEF Now
    <3>2. Meaning(q) \o e.emit = Meaning(v) \o m
      <4>1. e.emit = d.emit \o m /\ Meaning(q) \o d.emit = Meaning(v)
        BY <2>5, <2>8, <2>12, <3>1
      <4>2. (Meaning(q) \o d.emit) \o m = Meaning(q) \o (d.emit \o m)
        <5>1. PICK a, b : a = Meaning(q) /\ b = d.emit
          OBVIOUS
        <5>2. a \in Seq(KeyRec) /\ b \in Seq(KeyRec) /\ m \in Seq(KeyRec)
          BY <2>7, <2>9, <5>1
        <5>3. Cat(Cat(a, b), m) = Cat(a, Cat(b, m))
          BY <5>2, Regroup
        <5> QED
          BY <5>1, <5>3 DEF Cat
      <4> QED
        BY <4>1, <4>2
    <3>3. IsPrefix(Meaning(v) \o m, Meaning(v) \o m)
      BY <2>7, <2>9, ConcatProperties, PrefixGrows
    <3>4. e.esc = OpenAfter(Append(v, x)) /\ (e.esc => e.mark = Last(Append(v, x)))
      BY <2>2, <2>5, <2>7, <2>8, <2>12
    <3> QED
      BY <2>1, <2>2, <2>4, <2>7, <3>2, <3>3, <3>4 DEF DecodesOn
  <2> QED
    BY <2>11, <2>12
<1>3. Seq(KeyRec) \subseteq A
  <2> HIDE DEF A
  <2> QED
    BY <1>1, <1>2, SeqInduction
<1> QED
  BY <1>3

----------------------------------------------------------------------------
(* Types are kept. *)

LEMMA TypesInit == Init => StateTypes
<1> SUFFICES ASSUME Init PROVE StateTypes
  OBVIOUS
<1>0. cmd \in Commands /\ tty \in BOOLEAN /\ (cmd # "attach" => ~tty)
  BY DEF Init, ClientInit
<1>1. ClientTypes
  <2>1. pc \in Places /\ err \in Errors /\ code \in {None, 0, 1, 2} /\ typed \in Nat
    BY DEF Init, ClientInit, Errors, Places
  <2>2. n \in 0..MaxDials
    BY ClientAssumption DEF Init, ClientInit
  <2>3. link \in [Sessions -> {"none", "up", "silent", "full", "cut", "closed"}]
    BY DEF Init, ClientInit
  <2>4. down \in [Sessions -> Seq(Frame)] /\ sent \in [Sessions -> Nat]
    BY EmptySeq DEF Init, ClientInit
  <2>5. backlog \in Seq(DataFrame) /\ shown \in Seq(Item)
    BY EmptySeq DEF Init, ClientInit
  <2> QED
    BY <1>0, <2>1, <2>2, <2>3, <2>4, <2>5 DEF ClientTypes
<1>2. AttachTypes
  <2>1. retry \in BOOLEAN /\ raw \in BOOLEAN /\ backoff \in {1, 2, 4, 8, MaxBackoff}
    BY AttachAssumption DEF Init, AttachInit
  <2>2. stdin \in Seq(KeyRec) /\ logged \in Seq(Item)
    BY EmptySeq DEF Init, AttachInit
  <2>3. /\ inp \in [Sessions -> {"none", "read", "stuck", "parked", "done"}]
        /\ outp \in [Sessions -> {"none", "read", "done"}]
        /\ beat \in [Sessions -> BOOLEAN] /\ ended \in [Sessions -> BOOLEAN]
        /\ failure \in [Sessions -> {None, "error"}]
    BY DEF Init, AttachInit
  <2>4. escaping \in [Sessions -> Escape] /\ held \in [Sessions -> [done : Good, rest : Seq(KeyRec)]]
    BY EmptySeq DEF Init, AttachInit, Escape, Good, Decoder
  <2>5. quiet \in [Sessions -> 0..MaxQuiet]
    BY AttachAssumption DEF Init, AttachInit
  <2>6. /\ out \in [Sessions -> Seq(Errors)]
        /\ took \in [Sessions -> Seq(KeyRec)] /\ up \in [Sessions -> Seq(KeyRec)]
    BY EmptySeq DEF Init, AttachInit
  <2> QED
    BY <2>1, <2>2, <2>3, <2>4, <2>5, <2>6 DEF AttachTypes
<1>3. ScriptTypes
  <2>1. buf \in Seq(DataFrame) /\ hits \in Seq(Nat) /\ Len(buf) = 0
    BY EmptySeq DEF Init, ScriptInit
  <2>2. step \in Nat /\ consumed = 0 /\ collects \in BOOLEAN /\ readErr \in {None, "error"}
    BY DEF Init, ScriptInit
  <2> QED
    BY <2>1, <2>2, ScriptAssumption DEF ScriptTypes
<1>4. Course
  BY <1>0 DEF Init, ClientInit, ScriptInit, Course, Commands
<1>5. Begun
  BY ClientAssumption DEF Init, ClientInit, AttachInit, Begun, Unused, Sessions
<1> QED
  BY <1>1, <1>2, <1>3, <1>4, <1>5 DEF StateTypes

LEMMA TakeType ==
  ASSUME ClientTypes, NEW s \in Sessions, CanRead(s), Take(s)
  PROVE  /\ down' \in [Sessions -> Seq(Frame)]
         /\ Head(down[s]) \in Frame /\ down'[s] = Tail(down[s])
         /\ \A t \in Sessions : t # s => down'[t] = down[t]
<1>1. down[s] \in Seq(Frame) /\ down[s] # <<>>
  BY DEF ClientTypes, CanRead
<1>2. Head(down[s]) \in Frame /\ Tail(down[s]) \in Seq(Frame)
  BY <1>1, HeadTailProperties
<1> QED
  BY <1>1, <1>2 DEF Take, ClientTypes

LEMMA SaysType ==
  ASSUME ClientTypes, NEW s \in Sessions, NEW f \in Frame, Says(s, f)
  PROVE  /\ down' \in [Sessions -> Seq(Frame)]
         /\ down'[s] = Append(down[s], f)
         /\ \A t \in Sessions : t # s => down'[t] = down[t]
<1>1. down[s] \in Seq(Frame) /\ Append(down[s], f) \in Seq(Frame)
  BY AppendProperties DEF ClientTypes
<1> QED
  BY <1>1 DEF Says, ClientTypes

LEMMA FramesAre ==
  /\ \A op \in {"welcome", "opened", "error", "closed"} : Ctrl(op) \in Frame /\ Ctrl(op).op = op
  /\ \A k \in Nat : \A hit \in BOOLEAN : Chunk(k, hit) \in DataFrame /\ Chunk(k, hit) \in Frame
BY DEF Ctrl, Chunk, Frame, DataFrame

(* The session of the main goroutine, once it has dialled. *)
LEMMA MineIs ==
  ASSUME ClientTypes, Course
  PROVE  /\ n > 0 => n \in Sessions /\ n \in 1..n
         /\ \A s \in 1..n : s \in Sessions
BY ClientAssumption DEF ClientTypes, Course, Sessions

LEMMA ClientCommon ==
  ASSUME StateTypes, Common
  PROVE  ClientTypes'
<1> USE DEF StateTypes, Errors, Commands, Places
<1>1. CASE Dispatch
  BY <1>1 DEF Dispatch, Goto, ClientTypes
<1>2. CASE BadUsage
  BY <1>2 DEF BadUsage, Goto, ClientTypes
<1>3. CASE Dial
  <2>1. n' \in Sessions
    BY <1>3, ClientAssumption DEF Dial, Sessions, ClientTypes
  <2> QED
    BY <1>3, <2>1, EmptySeq DEF Dial, Goto, ClientTypes, Sessions
<1>4. CASE DialFails
  BY <1>4 DEF DialFails, Goto, ClientTypes
<1>5. CASE Handshake
  <2>1. ASSUME NEW l, NEW l1 \in Places, NEW q, Ask(l, l1, q) PROVE ClientTypes'
    BY <2>1 DEF Ask, Goto, Fails, ClientTypes
  <2>2. ASSUME NEW l \in Asking, NEW want, NEW l1 \in Places, ReadUntil(l, want, l1)
        PROVE  ClientTypes'
    <3>1. n \in Sessions
      BY <2>2, MineIs DEF ReadUntil, Course, Asking
    <3>2. down' \in [Sessions -> Seq(Frame)] /\ Head(down[n]) \in Frame
      BY <2>2, <3>1, TakeType DEF ReadUntil
    <3>3. backlog' \in Seq(DataFrame)
      <4>1. PICK f \in Frame : f = Head(down[n])
        BY <3>2
      <4>2. Keep(f) /\ backlog \in Seq(DataFrame)
        BY <2>2, <4>1 DEF ReadUntil, ClientTypes
      <4>3. CASE f.op = "data"
        <5>1. f \in DataFrame
          BY <4>3, DataFrames
        <5>2. Append(backlog, f) \in Seq(DataFrame)
          BY <4>2, <5>1, AppendProperties
        <5> QED
          BY <4>2, <4>3, <5>2 DEF Keep
      <4>4. CASE f.op # "data"
        BY <4>2, <4>4 DEF Keep
      <4> QED
        BY <4>3, <4>4
    <3>4. pc' \in Places /\ err' \in Errors
      BY <2>2 DEF ReadUntil, Goto, Fails, ClientTypes
    <3> QED
      BY <2>2, <3>2, <3>3, <3>4 DEF ReadUntil, ClientTypes
  <2>3. ASSUME NEW l, ReadFails(l) PROVE ClientTypes'
    BY <2>3 DEF ReadFails, Goto, Fails, ClientTypes
  <2> QED
    BY <1>5, <2>1, <2>2, <2>3 DEF Handshake, Hello, OpenPort, Asking
<1>6. CASE Close
  BY <1>6 DEF Close, Goto, ClientTypes
<1>7. CASE Exit
  BY <1>7 DEF Exit, Goto, ClientTypes
<1> QED
  BY <1>1, <1>2, <1>3, <1>4, <1>5, <1>6, <1>7 DEF Common

LEMMA ClientOutside ==
  ASSUME StateTypes, NEW s \in 1..n,
         Answer(s) \/ Data(s) \/ Remark(s) \/ LinkFails(s) \/ KeepAlive(s)
  PROVE  ClientTypes'
<1> USE DEF StateTypes
<1>0. s \in Sessions
  BY MineIs
<1>1. CASE Answer(s)
  <2>1. \E f \in Frame : Says(s, f)
    BY <1>1, FramesAre DEF Answer
  <2>2. down' \in [Sessions -> Seq(Frame)]
    BY <1>0, <2>1, SaysType
  <2> QED
    BY <1>1, <2>2 DEF Answer, ClientTypes
<1>2. CASE Data(s)
  <2>1. sent' \in [Sessions -> Nat] /\ sent'[s] \in Nat
    BY <1>0, <1>2 DEF Data, ClientTypes
  <2>2. \E f \in Frame : Says(s, f)
    BY <1>2, <2>1, FramesAre DEF Data
  <2>3. down' \in [Sessions -> Seq(Frame)]
    BY <1>0, <2>2, SaysType
  <2> QED
    BY <1>2, <2>1, <2>3 DEF Data, ClientTypes
<1>3. CASE Remark(s)
  <2>1. \E f \in Frame : Says(s, f)
    BY <1>3, FramesAre DEF Remark
  <2>2. down' \in [Sessions -> Seq(Frame)]
    BY <1>0, <2>1, SaysType
  <2> QED
    BY <1>3, <2>2 DEF Remark, ClientTypes
<1>4. CASE LinkFails(s) \/ KeepAlive(s)
  BY <1>4 DEF LinkFails, KeepAlive, ClientTypes
<1> QED
  BY <1>1, <1>2, <1>3, <1>4

LEMMA Stays ==
  /\ ClientTypes /\ UNCHANGED client => ClientTypes'
  /\ AttachTypes /\ UNCHANGED attach => AttachTypes'
  /\ ScriptTypes /\ UNCHANGED script => ScriptTypes'
  /\ Course /\ UNCHANGED <<client, collects>> => Course'
  /\ Begun /\ UNCHANGED <<cmd, pc, n, link, down, sent, inp, outp, escaping, took, up>> => Begun'
<1>1. ClientTypes /\ UNCHANGED client => ClientTypes'
  BY DEF client, ClientTypes
<1>2. AttachTypes /\ UNCHANGED attach => AttachTypes'
  BY DEF attach, keyboard, input, pulse, fate, local, AttachTypes
<1>3. ScriptTypes /\ UNCHANGED script => ScriptTypes'
  BY DEF script, ScriptTypes
<1>4. Course /\ UNCHANGED <<client, collects>> => Course'
  BY DEF client, Course
<1>5. Begun /\ UNCHANGED <<cmd, pc, n, link, down, sent, inp, outp, escaping, took, up>> => Begun'
  BY DEF Begun, Unused
<1> QED
  BY <1>1, <1>2, <1>3, <1>4, <1>5

LEMMA TypesCommon ==
  ASSUME StateTypes, Common, UNCHANGED <<attach, script>>
  PROVE  StateTypes'
<1> USE DEF StateTypes
<1>0. /\ ClientTypes' /\ AttachTypes' /\ ScriptTypes' /\ n \in Nat /\ UNCHANGED collects
      /\ UNCHANGED <<inp, outp, escaping, took, up>> /\ cmd \in Commands
      /\ \A s \in Sessions : s \in Nat /\ s >= 1
  BY ClientCommon, Stays DEF attach, script, input, ClientTypes, Sessions
<1>1. CASE Dispatch \/ BadUsage
  <2>1. Course'
    BY <1>0, <1>1 DEF Dispatch, BadUsage, Goto, Course, Commands
  <2>2. Begun'
    BY <1>0, <1>1 DEF Dispatch, BadUsage, Goto, Begun, Unused, Asking
  <2> QED
    BY <1>0, <2>1, <2>2
<1>2. CASE Dial
  <2>1. Course'
    BY <1>0, <1>2 DEF Dial, Goto, Course
  <2>2. n' = n + 1 /\ n' \in Sessions
    BY <1>0, <1>2, ClientAssumption DEF Dial, Sessions
  <2>3. /\ link'[n'] = "up" /\ \A s \in Sessions : s # n' => link'[s] = link[s]
        /\ UNCHANGED <<cmd, down, sent>>
    BY <1>2, <2>2 DEF Dial, ClientTypes
  <2>4. \A s \in Sessions : /\ (s > n' => s > n) /\ (s = n' => s > n) /\ (s <= n' => s = n' \/ s <= n)
    BY <1>0, <2>2
  <2>5. \A s \in Sessions : (s > n' \/ (s = n' /\ pc' \in Asking) \/ cmd # "attach") => Unused(s)
    BY <2>4 DEF Begun
  <2>6. \A s \in Sessions : s > n' => link'[s] = "none" /\ down[s] = <<>> /\ sent[s] = 0
    BY <1>0, <2>2, <2>3, <2>4 DEF Begun
  <2>7. \A s \in Sessions : s <= n' => link'[s] # "none"
    BY <2>3, <2>4 DEF Begun
  <2>8. Begun'
    BY <1>0, <2>3, <2>5, <2>6, <2>7 DEF Begun, Unused
  <2> QED
    BY <1>0, <2>1, <2>8
<1>3. CASE DialFails \/ Exit
  <2>1. Course'
    BY <1>0, <1>3 DEF DialFails, Exit, Goto, Course
  <2>2. Begun'
    BY <1>0, <1>3 DEF DialFails, Exit, Goto, Begun, Unused, Asking
  <2> QED
    BY <1>0, <2>1, <2>2
<1>4. CASE Handshake
  <2>1. ASSUME NEW l \in Asking, NEW l1 \in Asking, NEW q, Ask(l, l1, q) \/ ReadFails(l) PROVE Course' /\ Begun'
    <3>1. Course'
      BY <1>0, <2>1 DEF Ask, ReadFails, Goto, Fails, Course, Asking
    <3>2. Begun'
      BY <1>0, <2>1 DEF Ask, ReadFails, Goto, Fails, Begun, Unused, Asking
    <3> QED
      BY <3>1, <3>2
  <2>2. ASSUME NEW l \in Asking, NEW want, NEW l1 \in Asking, ReadUntil(l, want, l1)
        PROVE  Course' /\ Begun'
    <3>1. pc = l /\ pc' \in {l, l1, "leave"} /\ UNCHANGED <<cmd, tty, n, link, sent>> /\ Take(n) /\ CanRead(n)
      BY <2>2 DEF ReadUntil, Goto, Fails
    <3>2. Course'
      BY <1>0, <2>2, <3>1 DEF Course, Asking
    <3>3. n \in Sessions
      BY <3>1, <2>2, MineIs DEF Course, Asking
    <3>4. \A t \in Sessions : t # n => down'[t] = down[t]
      BY <3>1, <3>3, TakeType
    <3>5. pc' \in Asking => pc \in Asking
      BY <2>2, <3>1
    <3>6. Begun'
      BY <1>0, <3>1, <3>4, <3>5 DEF Begun, Unused
    <3> QED
      BY <3>2, <3>6
  <2>3. Course' /\ Begun'
    BY <1>4, <2>1, <2>2 DEF Handshake, Hello, OpenPort, Asking
  <2> QED
    BY <1>0, <2>3
<1>5. CASE Close
  <2>1. Course'
    BY <1>0, <1>5 DEF Close, Goto, Course
  <2>2. /\ pc' \notin Asking /\ UNCHANGED <<cmd, n, down, sent>>
        /\ \A s \in Sessions : link'[s] = link[s] \/ (s = n /\ link'[s] = "closed")
    BY <1>5 DEF Close, Goto, Asking, ClientTypes
  <2>3. Begun'
    BY <1>0, <2>2 DEF Begun, Unused
  <2> QED
    BY <1>0, <2>1, <2>3
<1> QED
  BY <1>1, <1>2, <1>3, <1>4, <1>5 DEF Common

LEMMA TypesOutside ==
  ASSUME StateTypes, Outside, UNCHANGED <<attach, script>>
  PROVE  StateTypes'
<1> USE DEF StateTypes
<1>1. PICK s \in 1..n : Answer(s) \/ Data(s) \/ Remark(s) \/ LinkFails(s) \/ KeepAlive(s)
  BY DEF Outside
<1>2. s \in Sessions
  BY MineIs
<1>3. /\ ClientTypes' /\ AttachTypes' /\ ScriptTypes' /\ n \in Nat /\ UNCHANGED collects
      /\ UNCHANGED <<inp, outp, escaping, took, up>>
      /\ \A t \in Sessions : t \in Nat /\ t >= 1
  BY <1>1, ClientOutside, Stays DEF attach, script, input, ClientTypes, Sessions
<1>4. UNCHANGED <<cmd, tty, pc, n>>
  BY <1>1 DEF Answer, Data, Remark, LinkFails, KeepAlive
<1>5. Course'
  BY <1>3, <1>4 DEF Course
<1>6. \A t \in Sessions : t # s => link'[t] = link[t] /\ down'[t] = down[t] /\ sent'[t] = sent[t]
  BY <1>1, <1>2 DEF Answer, Data, Remark, LinkFails, KeepAlive, Says, ClientTypes
<1>7. link'[s] # "none"
  BY <1>1, <1>2 DEF Answer, Data, Remark, LinkFails, KeepAlive, Talks, Begun, ClientTypes
<1>8. Begun'
  BY <1>1, <1>3, <1>4, <1>6, <1>7 DEF Begun, Unused
<1> QED
  BY <1>3, <1>5, <1>8

LEMMA ResultType ==
  ASSUME AttachTypes, NEW s \in Sessions, NEW e \in Errors, Result(s, e)
  PROVE  out' \in [Sessions -> Seq(Errors)]
<1>1. <<e>> \in Seq(Errors)
  BY EmptySeq, AppendProperties
<1> QED
  BY <1>1 DEF Result, AttachTypes

(* What handling the keys of a read does, given how they were decoded. *)
Handles(s, d) ==
  /\ escaping' = [escaping EXCEPT ![s] = [open |-> d.esc, mark |-> d.mark]]
  /\ up' = IF CanWrite(s) /\ Arrives(s) THEN [up EXCEPT ![s] = @ \o Sends(d)] ELSE up
  /\ inp' = [inp EXCEPT ![s] = IF d.stop = None /\ (Sends(d) # <<>> => CanWrite(s))
                                 THEN "read" ELSE "done"]
  /\ out' \in [Sessions -> Seq(Errors)]

LEMMA FreshIs ==
  ASSUME AttachTypes, NEW s \in Sessions
  PROVE  /\ Fresh(s) \in Good /\ Fresh(s).stop = None /\ Fresh(s).emit = <<>>
         /\ Fresh(s).esc = escaping[s].open /\ Fresh(s).mark = escaping[s].mark
<1>1. escaping[s] \in Escape /\ <<>> \in Seq(KeyRec)
  BY EmptySeq DEF AttachTypes
<1> QED
  BY <1>1 DEF Fresh, Good, Decoder, Escape

LEMMA HandledType ==
  ASSUME AttachTypes, NEW s \in Sessions, NEW keys \in Seq(KeyRec)
  PROVE  Handled(s, keys) \in Good
<1>1. CASE tty
  BY <1>1, FreshIs, DecodedType DEF Handled, Decode
<1>2. CASE ~tty
  <2>1. Handled(s, keys) = [Fresh(s) EXCEPT !.emit = keys] /\ Fresh(s) \in Good
    BY <1>2, FreshIs DEF Handled, Literal
  <2> QED
    BY <2>1 DEF Good, Decoder
<1> QED
  BY <1>1, <1>2

LEMMA HandleIs ==
  ASSUME AttachTypes, NEW s \in Sessions, NEW d \in Good, HandleKeys(s, d)
  PROVE  Handles(s, d)
<1>1. PICK lost, end :
        /\ lost = (Sends(d) # <<>> /\ ~CanWrite(s))
        /\ end = IF d.stop # None THEN d.stop ELSE IF lost THEN "error" ELSE None
  OBVIOUS
<1>2. /\ escaping' = [escaping EXCEPT ![s] = [open |-> d.esc, mark |-> d.mark]]
      /\ up' = IF CanWrite(s) /\ Arrives(s) THEN [up EXCEPT ![s] = @ \o Sends(d)] ELSE up
      /\ inp' = [inp EXCEPT ![s] = IF end = None THEN "read" ELSE "done"]
      /\ IF end = None THEN UNCHANGED out ELSE Result(s, end)
  BY <1>1 DEF HandleKeys, Notes
<1>3. end \in Errors /\ (end = None <=> d.stop = None /\ ~lost)
  BY <1>1, AttachAssumption DEF Good, Decoder, Errors
<1>4. out' \in [Sessions -> Seq(Errors)]
  <2>1. CASE end = None
    BY <1>2, <2>1 DEF AttachTypes
  <2>2. CASE end # None
    BY <1>2, <1>3, <2>2, ResultType
  <2> QED
    BY <2>1, <2>2
<1> QED
  BY <1>1, <1>2, <1>3, <1>4 DEF Handles

LEMMA HandlesType ==
  ASSUME AttachTypes, NEW s \in Sessions, NEW d \in Good, Handles(s, d)
  PROVE  /\ escaping' \in [Sessions -> Escape] /\ up' \in [Sessions -> Seq(KeyRec)]
         /\ inp' \in [Sessions -> {"none", "read", "stuck", "parked", "done"}]
         /\ out' \in [Sessions -> Seq(Errors)]
         /\ escaping'[s].open = d.esc /\ escaping'[s].mark = d.mark
         /\ up'[s] = IF link[s] = "up" THEN up[s] \o Sends(d) ELSE up[s]
         /\ inp'[s] = "read" => d.stop = None
         /\ inp'[s] = "done" => d.stop # None \/ (Sends(d) # <<>> /\ ~CanWrite(s))
         /\ inp'[s] \in {"read", "done"}
         /\ \A t \in Sessions : t # s => /\ escaping'[t] = escaping[t]
                                         /\ up'[t] = up[t] /\ inp'[t] = inp[t]
<1>1. [open |-> d.esc, mark |-> d.mark] \in Escape
  BY DEF Good, Decoder, Escape
<1>2. Sends(d) \in Seq(KeyRec) /\ up[s] \in Seq(KeyRec) /\ up[s] \o Sends(d) \in Seq(KeyRec)
  <2>1. Sends(d) \in Seq(KeyRec) /\ up[s] \in Seq(KeyRec)
    BY EmptySeq DEF Sends, Good, Decoder, AttachTypes
  <2> QED
    BY <2>1, ConcatProperties
<1>3. CanWrite(s) /\ Arrives(s) <=> link[s] = "up"
  BY DEF CanWrite, Arrives
<1>4. escaping' \in [Sessions -> Escape] /\ up' \in [Sessions -> Seq(KeyRec)]
  BY <1>1, <1>2 DEF Handles, AttachTypes
<1>5. inp' \in [Sessions -> {"none", "read", "stuck", "parked", "done"}] /\ out' \in [Sessions -> Seq(Errors)]
  BY DEF Handles, AttachTypes
<1>6. escaping'[s].open = d.esc /\ escaping'[s].mark = d.mark
  BY DEF Handles, AttachTypes
<1>7. up'[s] = IF link[s] = "up" THEN up[s] \o Sends(d) ELSE up[s]
  BY <1>3 DEF Handles, AttachTypes
<1>8. /\ inp'[s] = "read" => d.stop = None
      /\ inp'[s] = "done" => d.stop # None \/ (Sends(d) # <<>> /\ ~CanWrite(s))
      /\ inp'[s] \in {"read", "done"}
  BY DEF Handles, AttachTypes
<1>9. \A t \in Sessions : t # s => /\ escaping'[t] = escaping[t]
                                   /\ up'[t] = up[t] /\ inp'[t] = inp[t]
  BY DEF Handles, AttachTypes
<1> QED
  BY <1>4, <1>5, <1>6, <1>7, <1>8, <1>9

(* What a read took, and what it left. *)
LEMMA ReadTakes ==
  ASSUME AttachTypes, NEW k \in 1..Len(stdin)
  PROVE  /\ SubSeq(stdin, 1, k) \in Seq(KeyRec) /\ Len(SubSeq(stdin, 1, k)) = k
         /\ SubSeq(stdin, k + 1, Len(stdin)) \in Seq(KeyRec)
<1>1. stdin \in Seq(KeyRec) /\ Len(stdin) \in Nat
  BY DEF AttachTypes
<1>2. 1 \in 1..Len(stdin) + 1 /\ k \in 0..Len(stdin) /\ k + 1 \in 1..Len(stdin) + 1
  BY <1>1
<1> QED
  BY <1>1, <1>2, SubSeqProperties

LEMMA FetchTakes ==
  ASSUME AttachTypes, NEW s \in Sessions, NEW k \in 1..Len(stdin), Fetch(s, k)
  PROVE  /\ stdin' \in Seq(KeyRec) /\ took' \in [Sessions -> Seq(KeyRec)]
         /\ took'[s] = took[s] \o SubSeq(stdin, 1, k)
         /\ \A t \in Sessions : t # s => took'[t] = took[t]
<1>1. PICK keys \in Seq(KeyRec) : keys = SubSeq(stdin, 1, k)
  BY ReadTakes
<1>2. took' = [took EXCEPT ![s] = @ \o keys] /\ took \in [Sessions -> Seq(KeyRec)]
  BY <1>1 DEF Fetch, AttachTypes
<1>3. took[s] \o keys \in Seq(KeyRec)
  BY <1>2, ConcatProperties
<1>4. stdin' \in Seq(KeyRec)
  BY ReadTakes DEF Fetch
<1> QED
  BY <1>1, <1>2, <1>3, <1>4

LEMMA UsedIs ==
  ASSUME StateTypes, NEW s \in Sessions, ~Unused(s)
  PROVE  s \in 1..n /\ ~(s = n /\ pc \in Asking) /\ cmd = "attach"
BY DEF StateTypes, Begun, ClientTypes, Sessions

(* Sessions other than a begun one are as they were. *)
LEMMA BegunKept ==
  ASSUME StateTypes, NEW s \in Sessions, ~Unused(s), UNCHANGED <<cmd, pc, n, link, sent>>,
         \A t \in Sessions : t # s =>
           /\ inp'[t] = inp[t] /\ outp'[t] = outp[t] /\ escaping'[t] = escaping[t]
           /\ took'[t] = took[t] /\ up'[t] = up[t] /\ down'[t] = down[t]
  PROVE  Begun'
<1>1. s \in 1..n /\ ~(s = n /\ pc \in Asking) /\ cmd = "attach"
  BY UsedIs
<1>2. \A t \in Sessions : t > n => t # s
  <2>1. n \in Nat /\ s \in Nat /\ s <= n
    BY <1>1 DEF StateTypes, ClientTypes
  <2> QED
    BY <2>1
<1>3. \A t \in Sessions : t # s => (Unused(t) => Unused(t)') /\ down'[t] = down[t]
  BY DEF Unused
<1>4. /\ \A t \in Sessions : (t > n \/ (t = n /\ pc \in Asking) \/ cmd # "attach") => Unused(t)
      /\ \A t \in Sessions : t > n => link[t] = "none" /\ down[t] = <<>> /\ sent[t] = 0
      /\ \A t \in Sessions : t <= n => link[t] # "none"
  BY DEF StateTypes, Begun
<1>5. \A t \in Sessions : (t > n' \/ (t = n' /\ pc' \in Asking) \/ cmd' # "attach") => Unused(t)'
  BY <1>1, <1>2, <1>3, <1>4
<1>6. \A t \in Sessions : t > n' => link'[t] = "none" /\ down'[t] = <<>> /\ sent'[t] = 0
  BY <1>2, <1>3, <1>4
<1>7. \A t \in Sessions : t <= n' => link'[t] # "none"
  BY <1>4
<1> QED
  BY <1>5, <1>6, <1>7 DEF Begun

LEMMA TypesInput ==
  ASSUME StateTypes, NEW s \in Sessions, PumpInput(s), UNCHANGED script
  PROVE  StateTypes'
<1> USE DEF StateTypes
<1>1. ~Unused(s) /\ UNCHANGED client
  BY DEF PumpInput, ReadKeys, Fetch, WriteFails, EndOfInput, Unpark, Unused
<1>2. /\ ClientTypes' /\ ScriptTypes' /\ Course' /\ UNCHANGED <<cmd, pc, n, link, down, sent, outp>>
      /\ UNCHANGED <<retry, raw, backoff, held, beat, quiet, failure, ended, logged>>
  <2>1. UNCHANGED <<client, collects>>
    BY <1>1 DEF script
  <2>2. UNCHANGED <<cmd, pc, n, link, down, sent>>
    BY <1>1 DEF client
  <2>3. UNCHANGED <<retry, raw, backoff, held, beat, quiet, failure, ended, logged, outp>>
    BY DEF PumpInput, ReadKeys, WriteFails, EndOfInput, Unpark, pulse, fate, local
  <2> QED
    BY <2>1, <2>2, <2>3, Stays
<1>3. CASE ReadKeys(s)
  <2>1. PICK k \in 1..Len(stdin) : Fetch(s, k) /\ HandleKeys(s, Handled(s, SubSeq(stdin, 1, k)))
    BY <1>3 DEF ReadKeys
  <2>2. PICK keys \in Seq(KeyRec) : keys = SubSeq(stdin, 1, k)
    BY ReadTakes
  <2>3. /\ stdin' \in Seq(KeyRec) /\ took' \in [Sessions -> Seq(KeyRec)]
        /\ \A t \in Sessions : t # s => took'[t] = took[t]
    BY <2>1, FetchTakes
  <2>4. PICK d \in Good : Handles(s, d)
    BY <2>1, <2>2, HandledType, HandleIs
  <2>5. AttachTypes'
    BY <1>2, <2>3, <2>4, HandlesType DEF AttachTypes
  <2>6. Begun'
    BY <1>1, <1>2, <2>3, <2>4, HandlesType, BegunKept
  <2> QED
    BY <1>2, <2>5, <2>6
<1>5. CASE WriteFails(s)
  <2>1. held[s].done \in Good /\ held[s].rest \in Seq(KeyRec)
    BY DEF AttachTypes
  <2>2. PICK d \in Good : Handles(s, d)
    BY <1>5, <2>1, DecodedType, HandleIs DEF WriteFails
  <2>3. UNCHANGED <<stdin, took>>
    BY <1>5 DEF WriteFails, keyboard
  <2>4. AttachTypes'
    BY <1>2, <2>2, <2>3, HandlesType DEF AttachTypes
  <2>5. Begun'
    BY <1>1, <1>2, <2>2, <2>3, HandlesType, BegunKept
  <2> QED
    BY <1>2, <2>4, <2>5
<1>4. CASE EndOfInput(s) \/ Unpark(s)
  <2>1. None \in Errors
    BY DEF Errors
  <2>2. out' \in [Sessions -> Seq(Errors)]
    BY <1>4, <2>1, ResultType DEF EndOfInput, Unpark, InputClosed, AttachTypes
  <2>3. /\ inp' \in [Sessions -> {"none", "read", "stuck", "parked", "done"}]
        /\ \A t \in Sessions : t # s => inp'[t] = inp[t]
        /\ UNCHANGED <<stdin, escaping, took, up>>
    BY <1>4 DEF EndOfInput, Unpark, InputClosed, keyboard, AttachTypes
  <2>4. AttachTypes'
    BY <1>2, <2>2, <2>3 DEF AttachTypes
  <2>5. Begun'
    BY <1>1, <1>2, <2>3, BegunKept
  <2> QED
    BY <1>2, <2>4, <2>5
<1> QED
  BY <1>3, <1>4, <1>5 DEF PumpInput

(* Of the link, only that it is full of what is written is new. *)
LEMMA BlocksIs ==
  ASSUME StateTypes, NEW s \in Sessions, Blocks(s)
  PROVE  /\ link[s] \in {"silent", "full"} /\ link'[s] = "full"
         /\ \A t \in Sessions : t # s => link'[t] = link[t]
         /\ link' \in [Sessions -> {"none", "up", "silent", "full", "cut", "closed"}]
BY DEF Blocks, StateTypes, ClientTypes

LEMMA TypesFills ==
  ASSUME StateTypes, NEW s \in Sessions, PipeFills(s), UNCHANGED script
  PROVE  StateTypes'
<1> USE DEF StateTypes
<1>1. /\ Blocks(s) /\ UNCHANGED <<cmd, tty, pc, err, code, n, down, typed, sent, backlog, shown>>
      /\ UNCHANGED <<retry, raw, backoff, outp, up, beat, quiet, failure, ended, out, logged>>
  BY DEF PipeFills, WriteBlocks, PingBlocks, attach, pulse, fate, input, local
<1>2. ClientTypes' /\ ScriptTypes' /\ Course'
  <2>1. ClientTypes'
    BY <1>1, BlocksIs DEF ClientTypes
  <2> QED
    BY <1>1, <2>1, Stays DEF Course, script
<1>3. ASSUME inp' \in [Sessions -> {"none", "read", "stuck", "parked", "done"}],
             \A t \in Sessions : t # s => /\ inp'[t] = inp[t] /\ took'[t] = took[t]
                                          /\ escaping'[t] = escaping[t],
             ~Unused(s) \/ UNCHANGED <<inp, escaping, took>>
      PROVE  Begun'
  <2>1. \A t \in Sessions : t # s \/ UNCHANGED <<inp, escaping, took>> => (Unused(t) => Unused(t)')
    BY <1>1, <1>3 DEF Unused
  <2>2. \A t \in Sessions : (t > n \/ (t = n /\ pc \in Asking) \/ cmd # "attach") => Unused(t)
    BY DEF Begun
  <2>3. \A t \in Sessions : (t > n' \/ (t = n' /\ pc' \in Asking) \/ cmd' # "attach") => Unused(t)'
    BY <1>1, <1>3, <2>1, <2>2
  <2>4. \A t \in Sessions : t > n => link[t] = "none" /\ down[t] = <<>> /\ sent[t] = 0
    BY DEF Begun
  <2>5. \A t \in Sessions : t <= n => link[t] # "none"
    BY DEF Begun
  <2>6. \A t \in Sessions : t > n => t # s
    BY <1>1, <2>4, BlocksIs
  <2> QED
    BY <1>1, <2>3, <2>4, <2>5, <2>6, BlocksIs DEF Begun
<1>4. CASE WriteBlocks(s)
  <2>1. PICK k \in 1..Len(stdin) : \E i \in 1..k :
          LET keys == SubSeq(stdin, 1, k)
              d == Handled(s, SubSeq(keys, 1, i))
          IN  /\ Fetch(s, k) /\ Notes(s, d)
              /\ held' = [held EXCEPT ![s] = [done |-> [d EXCEPT !.log = FALSE],
                                             rest |-> SubSeq(keys, i + 1, k)]]
    BY <1>4 DEF WriteBlocks
  <2>2. PICK d \in Good, rest \in Seq(KeyRec) :
          Fetch(s, k) /\ Notes(s, d)
          /\ held' = [held EXCEPT ![s] = [done |-> [d EXCEPT !.log = FALSE], rest |-> rest]]
    <3>1. PICK keys \in Seq(KeyRec) : keys = SubSeq(stdin, 1, k) /\ Len(keys) = k
      BY ReadTakes
    <3>0. PICK i \in 1..k :
            LET d == Handled(s, SubSeq(keys, 1, i))
            IN  /\ Fetch(s, k) /\ Notes(s, d)
                /\ held' = [held EXCEPT ![s] = [done |-> [d EXCEPT !.log = FALSE],
                                               rest |-> SubSeq(keys, i + 1, k)]]
      BY <2>1, <3>1
    <3>2. SubSeq(keys, 1, i) \in Seq(KeyRec) /\ SubSeq(keys, i + 1, k) \in Seq(KeyRec)
      <4>1. k \in Nat /\ i \in Nat /\ 1 \in 1..Len(keys) + 1 /\ i \in 0..Len(keys)
            /\ i + 1 \in 1..Len(keys) + 1 /\ k \in 0..Len(keys)
        BY <3>1
      <4> QED
        BY <4>1, SubSeqProperties
    <3>3. Handled(s, SubSeq(keys, 1, i)) \in Good
      BY <3>2, HandledType
    <3> QED
      BY <3>0, <3>2, <3>3
  <2>3. /\ stdin' \in Seq(KeyRec) /\ took' \in [Sessions -> Seq(KeyRec)]
        /\ \A t \in Sessions : t # s => took'[t] = took[t]
    BY <2>2, FetchTakes
  <2>4. inp[s] = "read" /\ inp' = [inp EXCEPT ![s] = "stuck"]
    BY <1>4, <2>2 DEF WriteBlocks, Fetch
  <2>5. /\ inp' \in [Sessions -> {"none", "read", "stuck", "parked", "done"}]
        /\ \A t \in Sessions : t # s => inp'[t] = inp[t]
    BY <2>4 DEF AttachTypes
  <2>6. /\ escaping' \in [Sessions -> Escape]
        /\ \A t \in Sessions : t # s => escaping'[t] = escaping[t]
    <3>1. [open |-> d.esc, mark |-> d.mark] \in Escape
      BY DEF Good, Decoder, Escape
    <3> QED
      BY <2>2, <3>1 DEF Notes, AttachTypes
  <2>7. held' \in [Sessions -> [done : Good, rest : Seq(KeyRec)]]
    <3>1. [d EXCEPT !.log = FALSE] \in Good
      BY DEF Good, Decoder
    <3> QED
      BY <2>2, <3>1 DEF AttachTypes
  <2>8. AttachTypes'
    BY <1>1, <2>3, <2>5, <2>6, <2>7 DEF AttachTypes
  <2>9. Begun'
    BY <1>3, <2>3, <2>4, <2>5, <2>6 DEF Unused
  <2> QED
    BY <1>2, <2>8, <2>9
<1>5. CASE PingBlocks(s)
  <2>1. UNCHANGED attach /\ UNCHANGED <<inp, escaping, took>>
    BY <1>5 DEF PingBlocks, attach, input
  <2>2. Begun'
    BY <1>3, <2>1 DEF AttachTypes
  <2> QED
    BY <1>2, <2>1, <2>2, Stays
<1> QED
  BY <1>4, <1>5 DEF PipeFills

LEMMA TypesOutput ==
  ASSUME StateTypes, NEW s \in Sessions, PumpOutput(s) \/ Heartbeat(s), UNCHANGED script
  PROVE  StateTypes'
<1> USE DEF StateTypes
<1>0. "error" \in Errors /\ "quit" \in Errors /\ None \in Errors
  BY DEF Errors
<1>1. UNCHANGED collects
  BY DEF script
<1>2. CASE Receive(s)
  <2>1. /\ ~Unused(s) /\ CanRead(s) /\ Take(s) /\ UNCHANGED <<cmd, tty, pc, err, code, n, link, typed, sent, backlog>>
        /\ UNCHANGED <<inp, escaping, held, took, up, retry, stdin, raw, backoff, beat, failure, ended>>
        /\ quiet' = [quiet EXCEPT ![s] = 0]
    BY <1>2 DEF Receive, Unused, keyboard, input, fate
  <2>2. /\ down' \in [Sessions -> Seq(Frame)]
        /\ Head(down[s]) \in Frame /\ \A t \in Sessions : t # s => down'[t] = down[t]
    BY <2>1, TakeType
  <2>3. PICK f \in Frame : f = Head(down[s])
    BY <2>2
  <2>4. \/ f.op = "data" /\ Show(s, Items(s, <<f>>)) /\ UNCHANGED <<outp, out>>
        \/ /\ (Result(s, "error") \/ Result(s, "quit"))
           /\ outp' = [outp EXCEPT ![s] = "done"] /\ UNCHANGED <<shown, logged>>
        \/ UNCHANGED <<outp, out, shown, logged>>
    BY <1>2, <2>3 DEF Receive
  <2>5. shown' \in Seq(Item) /\ logged' \in Seq(Item)
    <3>1. shown \in Seq(Item) /\ logged \in Seq(Item)
      BY DEF ClientTypes, AttachTypes
    <3>2. CASE f.op = "data" /\ Show(s, Items(s, <<f>>))
      <4>1. <<f>> \in Seq(DataFrame)
        BY <3>2, DataFrames
      <4>2. Items(s, <<f>>) \in Seq(Mine(s))
        BY <4>1, ItemsType
      <4>3. shown \o Items(s, <<f>>) \in Seq(Item) /\ logged \o Items(s, <<f>>) \in Seq(Item)
        BY <3>1, <4>2, ShownAdd
      <4> QED
        BY <3>1, <3>2, <4>3 DEF Show
    <3> QED
      BY <2>4, <3>1, <3>2
  <2>6. out' \in [Sessions -> Seq(Errors)]
    BY <1>0, <2>4, ResultType DEF AttachTypes
  <2>7. outp' \in [Sessions -> {"none", "read", "done"}] /\ \A t \in Sessions : t # s => outp'[t] = outp[t]
    BY <2>4 DEF AttachTypes
  <2>8. quiet' \in [Sessions -> 0..MaxQuiet]
    BY <2>1, AttachAssumption DEF AttachTypes
  <2>9. ClientTypes'
    BY <2>1, <2>2, <2>5 DEF ClientTypes
  <2>10. AttachTypes'
    BY <2>1, <2>5, <2>6, <2>7, <2>8 DEF AttachTypes
  <2>11. Begun'
    BY <2>1, <2>2, <2>7, BegunKept
  <2>12. ScriptTypes' /\ Course'
    BY <1>1, <2>1, Stays DEF Course
  <2> QED
    BY <2>9, <2>10, <2>11, <2>12
<1>3. CASE OutputEnds(s)
  <2>1. ~Unused(s) /\ UNCHANGED client /\ Result(s, "error") /\ outp' = [outp EXCEPT ![s] = "done"]
        /\ UNCHANGED <<inp, escaping, held, took, up, retry, stdin, raw, backoff, beat, quiet, failure, ended, logged>>
    BY <1>3 DEF OutputEnds, Unused, keyboard, input, pulse, fate, local
  <2>2. outp' \in [Sessions -> {"none", "read", "done"}] /\ \A t \in Sessions : t # s => outp'[t] = outp[t]
    BY <2>1 DEF AttachTypes
  <2>3. out' \in [Sessions -> Seq(Errors)]
    BY <1>0, <2>1, ResultType
  <2>4. AttachTypes'
    BY <2>1, <2>2, <2>3 DEF AttachTypes
  <2>5. UNCHANGED <<cmd, pc, n, link, down, sent>>
    BY <2>1 DEF client
  <2>6. Begun'
    BY <2>1, <2>2, <2>5, BegunKept
  <2> QED
    BY <1>1, <2>1, <2>4, <2>6, Stays
<1>4. CASE Heartbeat(s)
  <2>1. /\ UNCHANGED client /\ Beat(s)
        /\ UNCHANGED <<inp, outp, escaping, held, took, up, retry, stdin, raw, backoff, logged>>
    BY <1>4 DEF Heartbeat, keyboard, input, local
  <2>2. /\ failure' \in [Sessions -> {None, "error"}] /\ ended' \in [Sessions -> BOOLEAN]
        /\ beat' \in [Sessions -> BOOLEAN]
    BY <2>1 DEF Beat, Fail, AttachTypes
  <2>3. quiet' \in [Sessions -> 0..MaxQuiet]
    <3>1. quiet \in [Sessions -> 0..MaxQuiet] /\ MaxQuiet \in Nat
      BY AttachAssumption DEF AttachTypes
    <3>2. quiet[s] # MaxQuiet => quiet[s] + 1 \in 0..MaxQuiet
      BY <3>1
    <3>3. UNCHANGED quiet \/ \E w \in 0..MaxQuiet : quiet' = [quiet EXCEPT ![s] = w]
      <4>1. CASE ~CanWrite(s) \/ quiet[s] = MaxQuiet
        BY <2>1, <4>1 DEF Beat
      <4>2. CASE CanWrite(s) /\ quiet[s] # MaxQuiet
        <5>1. quiet' = [quiet EXCEPT ![s] = IF Arrives(s) THEN 0 ELSE quiet[s] + 1]
          BY <2>1, <4>2 DEF Beat
        <5>2. 0 \in 0..MaxQuiet
          BY <3>1
        <5> QED
          BY <3>2, <4>2, <5>1, <5>2
      <4> QED
        BY <4>1, <4>2
    <3> QED
      BY <3>1, <3>3
  <2>4. out' \in [Sessions -> Seq(Errors)]
    BY <1>0, <2>1, ResultType DEF Beat, Fail, AttachTypes
  <2>5. AttachTypes'
    BY <2>1, <2>2, <2>3, <2>4 DEF AttachTypes
  <2>6. UNCHANGED <<cmd, pc, n, link, down, sent>>
    BY <2>1 DEF client
  <2> QED
    BY <1>1, <2>1, <2>5, <2>6, Stays
<1> QED
  BY <1>2, <1>3, <1>4 DEF PumpOutput

LEMMA TypesUser ==
  ASSUME StateTypes, Type \/ CloseInput \/ Signal \/ Interrupt, UNCHANGED script
  PROVE  StateTypes'
<1> USE DEF StateTypes
<1>1. ScriptTypes' /\ UNCHANGED collects
  BY Stays DEF script
<1>2. CASE Type
  <2>1. PICK k \in Kinds \union {"k"} : stdin' = Append(stdin, [kind |-> k, n |-> typed + 1])
    BY <1>2 DEF Type
  <2>2. stdin' \in Seq(KeyRec) /\ typed' \in Nat
    <3>1. typed \in Nat /\ stdin \in Seq(KeyRec)
      BY DEF ClientTypes, AttachTypes
    <3>2. [kind |-> k, n |-> typed + 1] \in KeyRec
      BY <3>1 DEF KeyRec
    <3> QED
      BY <1>2, <2>1, <3>1, <3>2, AppendProperties DEF Type
  <2>3. UNCHANGED <<cmd, tty, pc, err, code, n, link, down, sent, backlog, shown>>
    BY <1>2 DEF Type
  <2>4. UNCHANGED <<retry, raw, backoff, inp, outp, escaping, held, took, up, beat, quiet, failure, ended, out, logged>>
    BY <1>2 DEF Type, input, pulse, fate, local
  <2>5. ClientTypes' /\ AttachTypes'
    BY <2>2, <2>3, <2>4 DEF ClientTypes, AttachTypes
  <2>6. Course' /\ Begun'
    BY <1>1, <2>3, <2>4, Stays DEF Course
  <2> QED
    BY <1>1, <2>5, <2>6
<1>3. CASE CloseInput
  <2>1. UNCHANGED client /\ UNCHANGED <<stdin, retry, raw, backoff, inp, outp, escaping, held, took, up, beat, quiet,
                                       failure, ended, out, logged>>
    BY <1>3 DEF CloseInput, input, pulse, fate, local
  <2>2. AttachTypes'
    BY <2>1 DEF AttachTypes
  <2>3. Begun'
    BY <2>1, Stays DEF client
  <2> QED
    BY <1>1, <2>1, <2>2, <2>3, Stays
<1>4. CASE Interrupt
  <2>1. /\ cmd = "attach" /\ pc' = "exit" /\ code' \in {0, 1} /\ UNCHANGED attach
        /\ UNCHANGED <<cmd, tty, err, n, link, stage, down, typed, sent, backlog, shown>>
    BY <1>4 DEF Interrupt
  <2>2. ClientTypes'
    BY <2>1 DEF ClientTypes, Places
  <2>3. AttachTypes' /\ UNCHANGED <<inp, outp, escaping, took, up>>
    BY <2>1, Stays DEF attach, input
  <2>4. Course'
    BY <1>1, <2>1 DEF Course
  <2>5. Begun'
    BY <2>1, <2>3 DEF Begun, Unused, Asking
  <2> QED
    BY <1>1, <2>2, <2>3, <2>4, <2>5
<1>5. CASE Signal
  <2>1. /\ pc = "live" /\ pc' = "close" /\ err' = None /\ UNCHANGED attach
        /\ UNCHANGED <<cmd, tty, code, n, link, stage, down, typed, sent, backlog, shown>>
    BY <1>5 DEF Signal, Goto
  <2>2. ClientTypes'
    BY <2>1 DEF ClientTypes, Places, Errors
  <2>3. AttachTypes' /\ UNCHANGED <<inp, outp, escaping, took, up>>
    BY <2>1, Stays DEF attach, input
  <2>4. Course'
    BY <1>1, <2>1 DEF Course
  <2>5. Begun'
    BY <2>1, <2>3 DEF Begun, Unused, Asking
  <2> QED
    BY <1>1, <2>2, <2>3, <2>4, <2>5
<1> QED
  BY <1>2, <1>3, <1>4, <1>5

LEMMA BackoffType ==
  ASSUME backoff \in {1, 2, 4, 8, MaxBackoff}
  PROVE  Longer(backoff) \in {1, 2, 4, 8, MaxBackoff}
BY DEF Longer, MaxBackoff

LEMMA TypesAttacher ==
  ASSUME StateTypes, Attacher, UNCHANGED script
  PROVE  StateTypes'
<1> USE DEF StateTypes
<1>1. ScriptTypes' /\ UNCHANGED collects
  BY Stays DEF script
<1>2. CASE Begin
  <2>1. n \in Sessions /\ cmd = "attach" /\ pc = "ready"
    BY <1>2, MineIs DEF Begin, Goto, Fails, Course
  <2>2. /\ UNCHANGED <<cmd, tty, code, n, link, down, typed, sent, backlog>>
        /\ UNCHANGED <<retry, stdin, backoff, escaping, held, took, up, quiet, failure, ended, out>>
    BY <1>2 DEF Begin, keyboard, fate
  <2>3. CASE pc' = "live"
    <3>1. /\ UNCHANGED err /\ raw' = tty /\ Show(n, Items(n, backlog))
          /\ inp' = [inp EXCEPT ![n] = "read"] /\ outp' = [outp EXCEPT ![n] = "read"]
          /\ beat' = [beat EXCEPT ![n] = TRUE]
      BY <1>2, <2>3 DEF Begin, Goto, Fails, BeginWith
    <3>2. shown' \in Seq(Item) /\ logged' \in Seq(Item)
      <4>1. shown \in Seq(Item) /\ logged \in Seq(Item) /\ backlog \in Seq(DataFrame)
        BY DEF ClientTypes, AttachTypes
      <4>2. Items(n, backlog) \in Seq(Mine(n))
        BY <4>1, ItemsType
      <4>3. shown \o Items(n, backlog) \in Seq(Item) /\ logged \o Items(n, backlog) \in Seq(Item)
        BY <2>1, <4>1, <4>2, ShownAdd
      <4> QED
        BY <3>1, <4>1, <4>3 DEF Show
    <3>3. ClientTypes'
      BY <2>2, <2>3, <3>1, <3>2 DEF ClientTypes, Places
    <3>4. AttachTypes'
      BY <2>2, <3>1, <3>2 DEF AttachTypes, ClientTypes
    <3>5. Course'
      BY <1>1, <2>1, <2>2, <2>3 DEF Course
    <3>6. \A t \in Sessions : t # n => inp'[t] = inp[t] /\ outp'[t] = outp[t]
      BY <3>1 DEF AttachTypes
    <3>7. Begun'
      BY <2>1, <2>2, <2>3, <3>6 DEF Begun, Unused, Asking, ClientTypes, Sessions
    <3> QED
      BY <1>1, <3>3, <3>4, <3>5, <3>7
  <2>4. CASE pc' = "leave" /\ err' = "error" /\ UNCHANGED <<raw, shown, logged, inp, outp, beat>>
    <3>1. ClientTypes'
      BY <2>2, <2>4 DEF ClientTypes, Places, Errors
    <3>2. AttachTypes'
      BY <2>2, <2>4 DEF AttachTypes
    <3>3. Course'
      BY <1>1, <2>1, <2>2, <2>4 DEF Course
    <3>4. Begun'
      BY <2>1, <2>2, <2>4 DEF Begun, Unused, Asking
    <3> QED
      BY <1>1, <3>1, <3>2, <3>3, <3>4
  <2> QED
    BY <1>2, <2>3, <2>4 DEF Begin, Goto, Fails
<1>3. CASE SessionEnds \/ Restore \/ Again \/ Retry
  <2>1. /\ UNCHANGED <<cmd, tty, n, link, down, typed, sent, backlog, shown>>
        /\ UNCHANGED <<retry, stdin, inp, outp, escaping, held, took, up, beat, quiet, failure, ended, out, logged>>
    BY <1>3 DEF SessionEnds, Restore, Again, Retry, keyboard, input, pulse, fate, local, attach
  <2>2. err' \in Errors
    <3>1. CASE SessionEnds
      <4>1. n \in Sessions
        BY <3>1, MineIs DEF SessionEnds, Goto, Course
      <4>2. out[n] \in Seq(Errors)
        BY <4>1 DEF AttachTypes
      <4>3. out[n] # <<>> => Head(out[n]) \in Errors
        BY <4>2, HeadTailProperties
      <4> QED
        BY <3>1, <4>3 DEF SessionEnds, Errors
    <3>2. CASE Restore
      <4>1. n \in Sessions
        BY <3>2, MineIs DEF Restore, Goto, Course
      <4> QED
        BY <3>2, <4>1 DEF Restore, Errors, AttachTypes, ClientTypes
    <3>3. CASE Again \/ Retry
      BY <3>3 DEF Again, Retry, AttachExit, Errors, ClientTypes
    <3> QED
      BY <1>3, <3>1, <3>2, <3>3
  <2>3. /\ pc' \in {"close", "leave", "exit", "dial", "backoff"} /\ code' \in {None, 0, 1, 2}
        /\ pc \in {"live", "drain", "ended", "backoff"} /\ raw' \in BOOLEAN
        /\ cmd = "attach" \/ pc \in {"live", "drain", "backoff"}
        /\ pc \in {"live", "drain"} => pc' \in {"close", "leave"}
        /\ pc' \in {"close", "leave"} => pc \in {"live", "drain"}
    BY <1>3 DEF SessionEnds, Restore, Again, Retry, AttachExit, Goto, attach, ClientTypes, AttachTypes
  <2>4. backoff' \in {1, 2, 4, 8, MaxBackoff}
    BY <1>3, BackoffType DEF SessionEnds, Restore, Again, Retry, AttachExit, attach, AttachTypes
  <2>5. ClientTypes'
    BY <2>1, <2>2, <2>3 DEF ClientTypes, Places
  <2>6. AttachTypes'
    BY <2>1, <2>3, <2>4 DEF AttachTypes
  <2>7. Course'
    BY <1>1, <2>1, <2>3 DEF Course
  <2>8. Begun'
    BY <2>1, <2>3 DEF Begun, Unused, Asking
  <2> QED
    BY <1>1, <2>5, <2>6, <2>7, <2>8
<1> QED
  BY <1>2, <1>3 DEF Attacher

(* What is fed to the transcript, which keeps c of b without its first o. *)
Cut(b, o, c) == /\ o \in 0..Len(b) /\ c \in Seq(DataFrame) /\ Len(c) = Len(b) - o
                /\ \A i \in 1..Len(c) : c[i] = b[o + i]

LEMMA CutIs ==
  ASSUME NEW b \in Seq(DataFrame), NEW o \in 0..Len(b)
  PROVE  Cut(b, o, SubSeq(b, o + 1, Len(b)))
<1>1. PICK m \in Nat : m = Len(b) - o
  <2>1. Len(b) \in Nat
    OBVIOUS
  <2>2. Len(b) - o \in Nat
    BY <2>1
  <2> QED
    BY <2>2
<1>2. PICK c : c = SubSeq(b, o + 1, Len(b))
  OBVIOUS
<1>3. c = [i \in 1..m |-> b[o + i]]
  BY <1>1, <1>2
<1>4. \A i \in 1..m : b[o + i] \in DataFrame
  <2> TAKE i \in 1..m
  <2>1. o + i \in 1..Len(b)
    BY <1>1
  <2> QED
    BY <2>1, ElementOfSeq
<1>5. [i \in 1..m |-> b[o + i]] \in Seq(DataFrame) /\ Len([i \in 1..m |-> b[o + i]]) = m
  BY <1>1, <1>4, IsASeq
<1>6. \A i \in 1..m : c[i] = b[o + i]
  BY <1>3
<1>7. c \in Seq(DataFrame) /\ Len(c) = m
  BY <1>3, <1>5
<1> QED
  BY <1>1, <1>2, <1>6, <1>7 DEF Cut

LEMMA FeedType ==
  ASSUME ScriptTypes, shown \in Seq(Item), NEW s \in Sessions, NEW q \in Seq(DataFrame), Feed(s, q)
  PROVE  /\ shown' \in Seq(Item) /\ shown' = shown \o Items(s, q)
         /\ buf' \in Seq(DataFrame) /\ Len(buf') <= MaxCollect /\ consumed' \in 0..Len(buf')
         /\ Cut(buf \o q, Over(buf \o q), buf')
         /\ Shift(Over(buf \o q))
<1>1. PICK b, o : b = buf \o q /\ o = Over(b)
  OBVIOUS
<1>2. /\ b \in Seq(DataFrame) /\ Len(b) \in Nat /\ Len(buf) \in Nat /\ Len(b) >= Len(buf)
      /\ MaxCollect \in Nat /\ Len(buf) <= MaxCollect /\ consumed \in 0..Len(buf)
  BY <1>1, ScriptAssumption, ConcatProperties DEF ScriptTypes
<1>3. o \in 0..Len(b) /\ Len(b) - o <= MaxCollect
  BY <1>1, <1>2 DEF Over
<1>4. buf' = SubSeq(b, o + 1, Len(b)) /\ Shift(o)
  BY <1>1 DEF Feed
<1>5. Cut(b, o, buf')
  BY <1>2, <1>3, <1>4, CutIs
<1>6. buf' \in Seq(DataFrame) /\ Len(buf') = Len(b) - o
  BY <1>5 DEF Cut
<1>7. PICK m, k : m \in Nat /\ m = Len(b) /\ k = consumed
  BY <1>2
<1>8. consumed' \in 0..(m - o)
  <2>1. consumed' = IF k > o THEN k - o ELSE 0
    BY <1>4, <1>7 DEF Shift
  <2>2. k \in Nat /\ k <= m /\ o \in Nat /\ o <= m
    BY <1>2, <1>3, <1>7
  <2>3. CASE k > o
    <3>1. k - o \in 0..(m - o)
      BY <1>7, <2>2, <2>3
    <3> QED
      BY <2>1, <2>3, <3>1
  <2>4. CASE ~(k > o)
    <3>1. 0 \in 0..(m - o)
      BY <1>7, <2>2
    <3> QED
      BY <2>1, <2>4, <3>1
  <2> QED
    BY <2>3, <2>4
<1>9. shown' = shown \o Items(s, q) /\ shown' \in Seq(Item)
  <2>1. Items(s, q) \in Seq(Mine(s))
    BY ItemsType
  <2> QED
    BY <2>1, ShownAdd DEF Feed
<1>10. Len(buf') <= MaxCollect /\ consumed' \in 0..Len(buf')
  BY <1>3, <1>6, <1>7, <1>8
<1> QED
  BY <1>1, <1>4, <1>5, <1>6, <1>9, <1>10

(* The first match after the mark. *)
LEMMA FirstIs ==
  ASSUME ScriptTypes, Matches # {}
  PROVE  /\ First \in 1..Len(buf) /\ First > consumed /\ buf[First].hit
         /\ buf[First] \in DataFrame
         /\ \A j \in 1..Len(buf) : j > consumed /\ buf[j].hit => First <= j
<1>1. Len(buf) \in Nat /\ buf \in Seq(DataFrame)
  BY DEF ScriptTypes
<1>2. Matches \in SUBSET Nat 
  <2>1. Matches \subseteq 1..Len(buf)
    BY DEF Matches
  <2> QED
    BY <1>1, <2>1
<1>3. \E i \in Matches : \A j \in Matches : i <= j
  BY <1>2, LeastOf
<1>4. First \in Matches /\ \A j \in Matches : First <= j
  BY <1>3 DEF First
<1> QED
  BY <1>1, <1>4, ElementOfSeq DEF Matches

LEMMA TypesRunner ==
  ASSUME StateTypes, Runner, UNCHANGED attach
  PROVE  StateTypes'
<1> USE DEF StateTypes
<1>1. AttachTypes' /\ UNCHANGED <<inp, outp, escaping, took, up>>
  BY Stays DEF attach, input
<1>2. CASE RunReady
  <2>1. n \in Sessions /\ cmd = "run" /\ pc = "ready"
    BY <1>2, MineIs DEF RunReady, Course
  <2>2. UNCHANGED <<cmd, tty, code, n, link, down, typed, sent, backlog, prog, step, hits, readErr>>
    BY <1>2 DEF RunReady
  <2>3. CASE pc' = "step"
    <3>0. collects' = TRUE /\ Feed(n, backlog) /\ UNCHANGED err
      BY <1>2, <2>3 DEF RunReady, Goto, Fails
    <3>1. /\ shown' \in Seq(Item) /\ buf' \in Seq(DataFrame)
          /\ Len(buf') <= MaxCollect /\ consumed' \in 0..Len(buf')
      BY <2>1, <3>0, FeedType DEF ClientTypes
    <3>2. ClientTypes'
      BY <2>2, <2>3, <3>0, <3>1 DEF ClientTypes, Places
    <3>3. ScriptTypes'
      BY <2>2, <3>0, <3>1 DEF ScriptTypes
    <3>4. Course'
      BY <2>1, <2>2, <2>3 DEF Course
    <3>5. Begun'
      BY <1>1, <2>1, <2>2, <2>3 DEF Begun, Unused, Asking
    <3> QED
      BY <1>1, <3>2, <3>3, <3>4, <3>5
  <2>4. CASE pc' = "leave"
    <3>0. err' = "error" /\ UNCHANGED <<collects, buf, consumed, shown>>
      BY <1>2, <2>4 DEF RunReady, Goto, Fails
    <3>1. ClientTypes' /\ ScriptTypes'
      BY <2>2, <2>4, <3>0 DEF ClientTypes, ScriptTypes, Places, Errors
    <3>2. Course'
      BY <2>1, <2>2, <2>4 DEF Course
    <3>3. Begun'
      BY <1>1, <2>1, <2>2, <2>4 DEF Begun, Unused, Asking
    <3> QED
      BY <1>1, <3>1, <3>2, <3>3
  <2>5. pc' \in {"step", "leave"}
    BY <1>2 DEF RunReady, Goto, Fails
  <2> QED
    BY <2>3, <2>4, <2>5
<1>3. CASE LinkLost \/ SendOrSleep \/ SendFails \/ WaitBegins \/ WaitHit \/ WaitMiss \/ WaitAgain \/ WaitTimeout \/ Settle
  <2>1. UNCHANGED <<cmd, tty, code, n, link, down, typed, sent, backlog, shown, prog, buf, collects>>
    BY <1>3 DEF LinkLost, SendOrSleep, SendFails, WaitBegins, WaitHit, WaitMiss, WaitAgain, WaitTimeout, Settle, script
  <2>2. /\ pc \in {"step", "send", "wait", "missed"} /\ pc' \in {"step", "wait", "missed", "leave"}
        /\ err' \in Errors
    BY <1>3 DEF LinkLost, SendOrSleep, SendFails, WaitBegins, WaitHit, WaitMiss, WaitAgain, WaitTimeout, Settle,
                Goto, Fails, Errors, ClientTypes
  <2>3. step' \in Nat /\ readErr' \in {None, "error"}
    BY <1>3 DEF LinkLost, SendOrSleep, SendFails, WaitBegins, WaitHit, WaitMiss, WaitAgain, WaitTimeout, Settle,
                script, ScriptTypes
  <2>4. consumed' \in 0..Len(buf) /\ hits' \in Seq(Nat)
    <3>1. CASE WaitHit
      <4>1. First \in 1..Len(buf) /\ buf[First].k \in Nat
        BY <3>1, FirstIs DEF WaitHit, DataFrame
      <4>2. Append(hits, buf[First].k) \in Seq(Nat)
        BY <4>1, AppendProperties DEF ScriptTypes
      <4>3. Len(buf) \in Nat
        BY DEF ScriptTypes
      <4> QED
        BY <3>1, <4>1, <4>2, <4>3 DEF WaitHit
    <3>2. CASE UNCHANGED <<consumed, hits>>
      BY <3>2 DEF ScriptTypes
    <3> QED
      BY <1>3, <3>1, <3>2 DEF LinkLost, SendOrSleep, SendFails, WaitBegins, WaitMiss, WaitAgain, WaitTimeout, Settle, script
  <2>5. ClientTypes'
    BY <2>1, <2>2 DEF ClientTypes, Places
  <2>6. ScriptTypes'
    BY <2>1, <2>3, <2>4 DEF ScriptTypes
  <2>7. Course'
    BY <2>1, <2>2 DEF Course
  <2>8. Begun'
    BY <1>1, <2>1, <2>2 DEF Begun, Unused, Asking
  <2> QED
    BY <1>1, <2>5, <2>6, <2>7, <2>8
<1>4. CASE SendBlocks
  <2>1. /\ pc = "step" /\ pc' = "send" /\ Blocks(n) /\ UNCHANGED script
        /\ UNCHANGED <<cmd, tty, err, code, n, down, typed, sent, backlog, shown>>
    BY <1>4 DEF SendBlocks, Goto
  <2>2. n \in Sessions
    BY <2>1, MineIs DEF Course
  <2>3. ClientTypes'
    BY <2>1, <2>2, BlocksIs DEF ClientTypes, Places
  <2>4. ScriptTypes' /\ UNCHANGED collects
    BY <2>1, Stays DEF script
  <2>5. Course'
    BY <2>1, <2>4 DEF Course
  <2>6. Begun'
    <3>1. \A t \in Sessions : Unused(t) => Unused(t)'
      BY <1>1 DEF Unused
    <3>2. \A t \in Sessions : t > n => t # n
      BY DEF ClientTypes
    <3> QED
      BY <2>1, <2>2, <3>1, <3>2, BlocksIs DEF Begun, Asking
  <2> QED
    BY <1>1, <2>3, <2>4, <2>5, <2>6
<1> QED
  BY <1>2, <1>3, <1>4 DEF Runner

LEMMA TypesCollector ==
  ASSUME StateTypes, Collector, UNCHANGED attach
  PROVE  StateTypes'
<1> USE DEF StateTypes
<1>1. AttachTypes' /\ UNCHANGED <<inp, outp, escaping, took, up>>
  BY Stays DEF attach, input
<1>2. n \in Sessions /\ cmd = "run" /\ collects /\ n \in Nat
  BY MineIs DEF Collector, Collect, CollectEnds, Course, Sessions, ClientTypes
<1>3. CASE Collect
  <2>1. /\ UNCHANGED <<cmd, tty, pc, err, code, n, link, typed, sent, backlog, prog, step, hits>>
        /\ CanRead(n) /\ Take(n)
    BY <1>3 DEF Collect
  <2>2. /\ down' \in [Sessions -> Seq(Frame)] /\ Head(down[n]) \in Frame
        /\ \A t \in Sessions : t # n => down'[t] = down[t]
    BY <1>2, <2>1, TakeType
  <2>3. PICK f \in Frame : f = Head(down[n])
    BY <2>2
  <2>4. /\ IF f.op = "data" THEN Feed(n, <<f>>) ELSE UNCHANGED <<buf, consumed, shown>>
        /\ collects' = (f.op # "error") /\ readErr' = IF f.op = "error" THEN "error" ELSE readErr
    BY <1>3, <2>3 DEF Collect
  <2>5. /\ shown' \in Seq(Item) /\ buf' \in Seq(DataFrame)
        /\ Len(buf') <= MaxCollect /\ consumed' \in 0..Len(buf')
    <3>1. CASE f.op = "data"
      <4>1. <<f>> \in Seq(DataFrame)
        BY <3>1, DataFrames
      <4> QED
        BY <1>2, <2>4, <3>1, <4>1, FeedType DEF ClientTypes
    <3>2. CASE f.op # "data"
      BY <2>4, <3>2 DEF ClientTypes, ScriptTypes
    <3> QED
      BY <3>1, <3>2
  <2>6. ClientTypes'
    BY <2>1, <2>2, <2>5 DEF ClientTypes
  <2>7. ScriptTypes'
    BY <2>1, <2>4, <2>5 DEF ScriptTypes
  <2>8. Course'
    BY <1>2, <2>1 DEF Course
  <2>9. Begun'
    BY <1>1, <1>2, <2>1, <2>2 DEF Begun, Unused
  <2> QED
    BY <1>1, <2>6, <2>7, <2>8, <2>9
<1>4. CASE CollectEnds
  <2>1. UNCHANGED client /\ collects' = FALSE /\ readErr' = "error" /\ UNCHANGED <<prog, step, buf, consumed, hits>>
    BY <1>4 DEF CollectEnds
  <2>2. UNCHANGED <<cmd, tty, pc, n, link, down, sent>>
    BY <2>1 DEF client
  <2>3. ScriptTypes'
    BY <2>1 DEF ScriptTypes
  <2>4. Course' /\ Begun'
    BY <1>1, <2>1, <2>2, Stays DEF Course
  <2> QED
    BY <1>1, <2>1, <2>3, <2>4, Stays
<1> QED
  BY <1>3, <1>4 DEF Collector

LEMMA TypesNext == StateTypes /\ [Next]_vars => StateTypes'
<1> SUFFICES ASSUME StateTypes, [Next]_vars PROVE StateTypes'
  OBVIOUS
<1>1. CASE Main
  BY <1>1, TypesCommon, TypesAttacher, TypesRunner DEF Main
<1>2. ASSUME NEW s \in Sessions, Goroutines(s) PROVE StateTypes'
  BY <1>2, TypesInput, TypesOutput, TypesFills DEF Goroutines
<1>3. CASE Collecting
  BY <1>3, TypesCollector DEF Collecting
<1>4. CASE User
  BY <1>4, TypesUser DEF User
<1>5. CASE Daemon
  BY <1>5, TypesOutside DEF Daemon
<1>6. CASE UNCHANGED vars
  <2>1. UNCHANGED <<client, attach, script>>
    BY <1>6 DEF vars
  <2>2. UNCHANGED <<cmd, pc, n, link, down, sent, inp, outp, escaping, took, up, collects>>
    BY <2>1 DEF client, attach, input, script
  <2> QED
    BY <2>1, <2>2, Stays DEF StateTypes
<1> QED
  BY <1>1, <1>2, <1>3, <1>4, <1>5, <1>6 DEF Next, Exited

----------------------------------------------------------------------------
(* What is typed arrives. *)

LEMMA MeaningNow == \A q : Meaning(q) = MeaningOf(tty, q)
BY DEF Meaning, MeaningOf

(* A session that has just begun. *)
LEMMA KeysBegin ==
  ASSUME NEW l, NEW i \in {"none", "read"}, NEW e \in Escape, ~e.open
  PROVE  KeysFit(tty, l, i, <<>>, <<>>, e)
<1>1. <<>> \in Seq(KeyRec) /\ Meaning(<<>>) = <<>> /\ Len(<<>>) = 0
  BY EmptySeq, MeaningType
<1>2. IsPrefix(<<>>, MeaningOf(tty, <<>>)) /\ MeaningOf(tty, <<>>) = <<>>
  BY <1>1, PrefixGrows, MeaningNow
<1>3. OpenAfter(<<>>) = FALSE
  <2>1. Open(<<>>)[0] = FALSE
    BY <1>1, OpenIs
  <2> QED
    BY <1>1, <2>1 DEF OpenAfter
<1>4. e.open = FALSE
  BY DEF Escape
<1> QED
  BY <1>2, <1>3, <1>4 DEF KeysFit

(* A session of which at most the link got worse or the end was reached. *)
Still(s) ==
  /\ inp'[s] = inp[s] /\ up'[s] = up[s] /\ took'[s] = took[s] /\ escaping'[s] = escaping[s]
  /\ \/ link'[s] = link[s] \/ link'[s] \in {"cut", "closed"}
     \/ link[s] = "up" /\ link'[s] = "silent"
     \/ link[s] \in {"silent", "full"} /\ link'[s] = "full"
  /\ ended[s] => ended'[s]

LEMMA StillFits ==
  ASSUME NEW s, Still(s), UNCHANGED tty,
         KeysFit(tty, link[s], inp[s], up[s], took[s], escaping[s]),
         PipeFits(tty, link[s], inp[s], ended[s])
  PROVE  /\ KeysFit(tty', link'[s], inp'[s], up'[s], took'[s], escaping'[s])
         /\ PipeFits(tty', link'[s], inp'[s], ended'[s])
BY DEF Still, KeysFit, PipeFits

LEMMA KeysStill ==
  ASSUME KeysInv, UNCHANGED <<tty, n>>, \A s \in 1..n : Still(s)
  PROVE  KeysInv'
<1>1. ASSUME NEW s \in 1..n
      PROVE  /\ KeysFit(tty', link'[s], inp'[s], up'[s], took'[s], escaping'[s])
             /\ PipeFits(tty', link'[s], inp'[s], ended'[s])
  BY StillFits DEF KeysInv
<1> QED
  BY <1>1 DEF KeysInv

LEMMA KeysUnchanged ==
  ASSUME KeysInv, UNCHANGED <<tty, n, link, inp, up, took, escaping, ended>>
  PROVE  KeysInv'
BY DEF KeysInv

LEMMA KeysCommon ==
  ASSUME StateTypes, KeysInv, Common, UNCHANGED attach
  PROVE  KeysInv'
<1>0. UNCHANGED <<inp, up, took, escaping, ended>>
  BY DEF attach, input, fate
<1>1. CASE Dispatch \/ BadUsage \/ DialFails \/ Handshake \/ Exit
  <2>1. UNCHANGED <<tty, n, link>>
    BY <1>1 DEF Dispatch, BadUsage, DialFails, Handshake, Exit, Hello, OpenPort, Ask, ReadUntil, ReadFails
  <2> QED
    BY <1>0, <2>1, KeysUnchanged
<1>2. CASE Close
  <2>1. UNCHANGED <<tty, n>> /\ link' = [link EXCEPT ![n] = "closed"]
    BY <1>2 DEF Close
  <2>2. \A s \in 1..n : s \in Sessions
    BY MineIs DEF StateTypes
  <2>3. \A s \in 1..n : link'[s] \in {link[s], "closed"}
    BY <2>1, <2>2 DEF StateTypes, ClientTypes
  <2>4. \A s \in 1..n : Still(s)
    BY <1>0, <2>3 DEF Still
  <2> QED
    BY <2>1, <2>4, KeysStill
<1>3. CASE Dial
  <2>1. n' = n + 1 /\ n \in Nat /\ n' \in Sessions /\ UNCHANGED tty
    BY <1>3, ClientAssumption DEF Dial, StateTypes, ClientTypes, Sessions
  <2>2. \A s \in 1..n : link'[s] = link[s]
    BY <1>3, <2>1, ClientAssumption DEF Dial, StateTypes, ClientTypes, Sessions
  <2>3. Unused(n') /\ escaping[n'] \in Escape
    BY <2>1 DEF StateTypes, Begun, AttachTypes
  <2>4. /\ KeysFit(tty', link'[n'], inp'[n'], up'[n'], took'[n'], escaping'[n'])
        /\ PipeFits(tty', link'[n'], inp'[n'], ended'[n'])
    <3>1. inp[n'] = "none" /\ up[n'] = <<>> /\ took[n'] = <<>> /\ ~escaping[n'].open
      BY <2>3 DEF Unused
    <3>2. PICK l : l = link'[n']
      OBVIOUS
    <3>3. KeysFit(tty, l, "none", <<>>, <<>>, escaping[n'])
      BY <2>3, <3>1, KeysBegin
    <3>4. PipeFits(tty, l, "none", ended[n'])
      BY DEF PipeFits
    <3> QED
      BY <1>0, <2>1, <3>1, <3>2, <3>3, <3>4
  <2>5. \A s \in 1..n' : s = n' \/ s \in 1..n
    BY <2>1
  <2>6. \A s \in 1..n : /\ KeysFit(tty', link'[s], inp'[s], up'[s], took'[s], escaping'[s])
                        /\ PipeFits(tty', link'[s], inp'[s], ended'[s])
    BY <1>0, <2>1, <2>2 DEF KeysInv
  <2> QED
    BY <2>4, <2>5, <2>6 DEF KeysInv
<1> QED
  BY <1>1, <1>2, <1>3 DEF Common

LEMMA KeysOutside ==
  ASSUME StateTypes, KeysInv, Outside, UNCHANGED attach
  PROVE  KeysInv'
<1>0. UNCHANGED <<inp, up, took, escaping, ended>>
  BY DEF attach, input, fate
<1>1. PICK s \in 1..n : Answer(s) \/ Data(s) \/ Remark(s) \/ LinkFails(s) \/ KeepAlive(s)
  BY DEF Outside
<1>2. CASE Answer(s) \/ Data(s) \/ Remark(s)
  <2>1. UNCHANGED <<tty, n, link>>
    BY <1>2 DEF Answer, Data, Remark
  <2> QED
    BY <1>0, <2>1, KeysUnchanged
<1>3. CASE LinkFails(s) \/ KeepAlive(s)
  <2>1. \A t \in 1..n : t \in Sessions
    BY MineIs DEF StateTypes
  <2>2. /\ UNCHANGED <<tty, n>>
        /\ \A t \in 1..n : \/ link'[t] = link[t] \/ link'[t] \in {"cut", "closed"}
                           \/ (link[t] = "up" /\ link'[t] = "silent")
    BY <1>3, <2>1 DEF LinkFails, KeepAlive, Talks, StateTypes, ClientTypes
  <2>3. \A t \in 1..n : Still(t)
    BY <1>0, <2>2 DEF Still
  <2> QED
    BY <2>2, <2>3, KeysStill
<1> QED
  BY <1>1, <1>2, <1>3

(* More keys never mean less. *)
LEMMA MeaningGrows ==
  ASSUME NEW q \in Seq(KeyRec), NEW keys \in Seq(KeyRec)
  PROVE  IsPrefix(Meaning(q), Meaning(q \o keys))
<1>0. Meaning(q) \in Seq(KeyRec) /\ q \o keys \in Seq(KeyRec) /\ Meaning(q \o keys) \in Seq(KeyRec)
  BY ConcatProperties, MeaningType
<1>1. CASE tty
  <2>1. PICK m \in KeyRec \union {None} : OpenAfter(q) => m = Last(q) /\ m \in KeyRec
    <3>1. CASE Len(q) = 0
      <4>1. OpenAfter(q) = FALSE
        BY <3>1, OpenIs DEF OpenAfter
      <4> QED
        BY <4>1
    <3>2. CASE Len(q) # 0
      <4>1. Last(q) \in KeyRec
        BY <3>2, ElementOfSeq DEF Last
      <4> QED
        BY <4>1
    <3> QED
      BY <3>1, <3>2
  <2>2. OpenAfter(q) \in BOOLEAN
    <3>1. Len(q) \in 0..Len(q)
      OBVIOUS
    <3>2. Open(q) \in [0..Len(q) -> BOOLEAN]
      BY OpenIs
    <3> QED
      BY <3>1, <3>2 DEF OpenAfter
  <2>3. PICK d \in Good : /\ d.stop = None /\ d.emit = <<>> /\ d.esc = OpenAfter(q)
                          /\ d.esc => d.mark = Last(q)
    <3>1. [esc |-> OpenAfter(q), mark |-> m, emit |-> <<>>, log |-> FALSE, stop |-> None] \in Good
      BY <2>1, <2>2, EmptySeq DEF Good, Decoder
    <3> QED
      BY <2>1, <3>1
  <2>4. PICK e \in Good : IsPrefix(Meaning(q) \o e.emit, Meaning(q \o keys))
    BY <1>1, <2>3, DecodeMeans, AttachAssumption DEF DecodesOn
  <2>5. e.emit \in Seq(KeyRec) /\ IsPrefix(Meaning(q), Meaning(q) \o e.emit)
        /\ Meaning(q) \o e.emit \in Seq(KeyRec)
    BY <1>0, PrefixGrows, ConcatProperties DEF Good, Decoder
  <2> QED
    BY <1>0, <2>4, <2>5, PrefixTrans
<1>2. CASE ~tty
  <2>1. Meaning(q) = q /\ Meaning(q \o keys) = q \o keys
    BY <1>0, <1>2, MeaningType
  <2> QED
    BY <2>1, PrefixGrows
<1> QED
  BY <1>1, <1>2

(* Nothing arrives on a link that is not up, whatever is read. *)
LEMMA GrownFits ==
  ASSUME NEW l, l # "up", NEW i, NEW j, j = "stuck" => l \in {"full", "cut", "closed"},
         NEW u \in Seq(KeyRec), NEW q \in Seq(KeyRec),
         NEW keys \in Seq(KeyRec), NEW e, NEW f, KeysFit(tty, l, i, u, q, e)
  PROVE  KeysFit(tty, l, j, u, q \o keys, f) /\ KeysFit(tty, l, j, u, q, f)
<1>1. /\ q \o keys \in Seq(KeyRec) /\ Meaning(q) \in Seq(KeyRec) /\ Meaning(q \o keys) \in Seq(KeyRec)
      /\ Meaning(q) = MeaningOf(tty, q) /\ Meaning(q \o keys) = MeaningOf(tty, q \o keys)
  BY ConcatProperties, MeaningType, MeaningNow
<1>2. IsPrefix(u, Meaning(q))
  BY <1>1 DEF KeysFit
<1>3. IsPrefix(u, Meaning(q \o keys))
  BY <1>1, <1>2, MeaningGrows, PrefixTrans
<1> QED
  BY <1>1, <1>2, <1>3 DEF KeysFit

(* A read of a live link starts where the keys stand, on a terminal. *)
LEMMA FreshStands ==
  ASSUME NEW s, NEW u, NEW q, tty, KeysFit(tty, "up", "read", u, q, escaping[s])
  PROVE  Fresh(s).esc = OpenAfter(q) /\ (Fresh(s).esc => Fresh(s).mark = Last(q))
<1>1. escaping[s].open = OpenAfter(q) /\ (escaping[s].open => escaping[s].mark = Last(q))
  BY DEF KeysFit
<1>2. Fresh(s).esc = escaping[s].open /\ Fresh(s).mark = escaping[s].mark
  BY DEF Fresh
<1> QED
  BY <1>1, <1>2

(* The keys of a read, on a terminal and on a pipe. *)
LEMMA ReadFits ==
  ASSUME StateTypes, NEW s \in Sessions, inp[s] = "read", link[s] # "none",
         KeysFit(tty, link[s], "read", up[s], took[s], escaping[s]),
         NEW keys \in Seq(KeyRec), NEW d \in Good, d = Handled(s, keys), Handles(s, d),
         Waits(s) => Sends(d) = <<>>
  PROVE  /\ KeysFit(tty, link[s], inp'[s], up'[s], took[s] \o keys, escaping'[s])
         /\ PipeFits(tty, link[s], inp'[s], ended[s])
<1> USE DEF StateTypes
<1>1. /\ escaping'[s].open = d.esc /\ escaping'[s].mark = d.mark
      /\ up'[s] = IF link[s] = "up" THEN up[s] \o Sends(d) ELSE up[s]
      /\ inp'[s] = "read" => d.stop = None
      /\ inp'[s] = "done" => d.stop # None \/ (Sends(d) # <<>> /\ ~CanWrite(s))
      /\ inp'[s] \in {"read", "done"}
  BY HandlesType
<1>2. PICK q, u, m, w : q = took[s] /\ u = up[s] /\ m = MeaningOf(tty, q) /\ w = MeaningOf(tty, q \o keys)
  OBVIOUS
<1>3. /\ q \in Seq(KeyRec) /\ u \in Seq(KeyRec) /\ m \in Seq(KeyRec) /\ w \in Seq(KeyRec)
      /\ m = Meaning(q) /\ w = Meaning(q \o keys) /\ d.emit \in Seq(KeyRec)
  <2>1. q \in Seq(KeyRec) /\ u \in Seq(KeyRec) /\ q \o keys \in Seq(KeyRec)
    BY <1>2, ConcatProperties DEF AttachTypes
  <2> QED
    BY <1>2, <2>1, MeaningType, MeaningNow DEF Good, Decoder
<1>4. IsPrefix(u, m) /\ (link[s] = "up" => u = m)
  BY <1>2 DEF KeysFit
<1>13. PipeFits(tty, link[s], inp'[s], ended[s])
  <2>1. ASSUME ~tty PROVE d.stop = None
    <3>1. d = [Fresh(s) EXCEPT !.emit = keys]
      BY <2>1 DEF Handled, Literal
    <3> QED
      BY <3>1, FreshIs DEF Good, Decoder
  <2>2. ~tty => d.stop = None
    BY <2>1
  <2> QED
    BY <1>1, <2>2 DEF PipeFits, CanWrite, Waits, ClientTypes
<1>14. CASE link[s] # "up"
  <2>1. up'[s] = up[s] /\ KeysFit(tty, link[s], inp'[s], up[s], took[s] \o keys, escaping'[s])
    BY <1>1, <1>2, <1>3, <1>14, GrownFits
  <2> QED
    BY <1>13, <2>1
<1>15. CASE link[s] = "up"
  (* What both ways of handling the keys have in common. *)
  <2>5. /\ IsPrefix(m \o d.emit, w)
        /\ d.stop = None => m \o d.emit = w
        /\ d.stop = None /\ tty => d.esc = OpenAfter(q \o keys) /\ (d.esc => d.mark = Last(q \o keys))
        /\ ~tty => d.stop = None
    <3>1. CASE tty
      <4>0. Fresh(s).esc = OpenAfter(q) /\ (Fresh(s).esc => Fresh(s).mark = Last(q))
        <5>1. KeysFit(tty, "up", "read", up[s], took[s], escaping[s])
          BY <1>15
        <5>2. KeysFit(tty, "up", "read", u, q, escaping[s])
          BY <1>2, <5>1
        <5> QED
          BY <3>1, <5>2, FreshStands
      <4>1. PICK d0 \in Good : d0 = Fresh(s) /\ d0.stop = None /\ d0.emit = <<>>
        BY FreshIs
      <4>2. d = Decoded(d0, keys)
        BY <3>1, <4>1 DEF Handled, Decode
      <4>3. d0.esc = OpenAfter(q) /\ (d0.esc => d0.mark = Last(q))
        BY <4>0, <4>1
      <4>4. DecodesOn(q, d0, keys)
        BY <1>3, <3>1, <4>1, <4>3, DecodeMeans, AttachAssumption
      <4> QED
        BY <1>3, <3>1, <4>2, <4>4 DEF DecodesOn
    <3>2. CASE ~tty
      <4>1. d.emit = keys /\ d.stop = None
        BY <3>2, FreshIs DEF Handled, Literal, Good, Decoder
      <4>2. m = q /\ w = q \o keys
        BY <1>2, <3>2 DEF MeaningOf
      <4>3. IsPrefix(w, w)
        BY <1>3, PrefixGrows
      <4> QED
        BY <3>2, <4>1, <4>2, <4>3
    <3> QED
      BY <3>1, <3>2
  <2>6. IsPrefix(m, w)
    <3>1. IsPrefix(m, m \o d.emit) /\ m \o d.emit \in Seq(KeyRec)
      BY <1>3, PrefixGrows, ConcatProperties
    <3> QED
      BY <1>3, <2>5, <3>1, PrefixTrans
  <2>8. Sends(d) = d.emit \/ (Sends(d) = <<>> /\ d.stop # None)
    BY AttachAssumption DEF Sends
  <2>9. IsPrefix(up'[s], w)
    <3>1. up'[s] = m \o Sends(d)
      BY <1>1, <1>2, <1>4, <1>15
    <3>2. m \o <<>> = m
      BY <1>3, ConcatEmptySeq
    <3> QED
      BY <2>5, <2>6, <2>8, <3>1, <3>2
  <2>10. inp'[s] = "read" => up'[s] = w
    BY <1>1, <1>2, <1>4, <1>15, <2>5, <2>8
  <2>11. inp'[s] = "read" /\ tty =>
           /\ escaping'[s].open = OpenAfter(q \o keys)
           /\ escaping'[s].open => escaping'[s].mark = Last(q \o keys)
    BY <1>1, <2>5
  <2>12. KeysFit(tty, link[s], inp'[s], up'[s], q \o keys, escaping'[s])
    BY <1>1, <1>2, <2>9, <2>10, <2>11 DEF KeysFit
  <2> QED
    BY <1>2, <1>13, <2>12
<1> QED
  BY <1>14, <1>15

LEMMA KeysInput ==
  ASSUME StateTypes, KeysInv, NEW s \in Sessions, PumpInput(s)
  PROVE  KeysInv'
<1> USE DEF StateTypes
<1>1. UNCHANGED <<tty, n, link, ended>>
  BY DEF PumpInput, ReadKeys, WriteFails, EndOfInput, Unpark, client, fate
<1>2. s \in 1..n /\ link[s] # "none"
  <2>1. ~Unused(s)
    BY DEF PumpInput, ReadKeys, Fetch, WriteFails, EndOfInput, Unpark, Unused
  <2>2. s \in 1..n
    BY <2>1, UsedIs
  <2> QED
    BY <2>2 DEF Begun
<1>3. KeysFit(tty, link[s], inp[s], up[s], took[s], escaping[s])
  BY <1>2 DEF KeysInv
<1>4. /\ KeysFit(tty, link[s], inp'[s], up'[s], took'[s], escaping'[s])
      /\ PipeFits(tty, link[s], inp'[s], ended[s])
      /\ \A t \in Sessions : t # s => /\ inp'[t] = inp[t] /\ up'[t] = up[t]
                                      /\ took'[t] = took[t] /\ escaping'[t] = escaping[t]
  <2>1. CASE ReadKeys(s)
    <3>1. PICK k \in 1..Len(stdin) :
            /\ Fetch(s, k) /\ HandleKeys(s, Handled(s, SubSeq(stdin, 1, k)))
            /\ Waits(s) => \A i \in 1..k : ~Writes(s, SubSeq(stdin, 1, k), i)
      BY <2>1 DEF ReadKeys
    <3>2. PICK keys \in Seq(KeyRec) : keys = SubSeq(stdin, 1, k)
      BY ReadTakes
    <3>3. PICK d \in Good : d = Handled(s, keys) /\ Handles(s, d)
      BY <3>1, <3>2, HandledType, HandleIs
    <3>4. /\ took'[s] = took[s] \o keys
          /\ \A t \in Sessions : t # s => took'[t] = took[t]
      BY <3>1, <3>2, FetchTakes
    <3>5. \A t \in Sessions : t # s => inp'[t] = inp[t] /\ up'[t] = up[t] /\ escaping'[t] = escaping[t]
      BY <3>3, HandlesType
    <3>6. inp[s] = "read"
      BY <3>1 DEF Fetch
    <3>8. Waits(s) => Sends(Handled(s, keys)) = <<>>
      BY <3>1, <3>2, ReadTakes DEF Writes
    <3>7. /\ KeysFit(tty, link[s], inp'[s], up'[s], took[s] \o keys, escaping'[s])
          /\ PipeFits(tty, link[s], inp'[s], ended[s])
      BY <1>2, <1>3, <3>3, <3>6, <3>8, ReadFits
    <3> QED
      BY <3>4, <3>5, <3>7
  <2>2. CASE EndOfInput(s) \/ Unpark(s)
    <3>1. /\ UNCHANGED <<up, took, escaping>> /\ inp'[s] \in {"done", "parked"}
          /\ \A t \in Sessions : t # s => inp'[t] = inp[t]
          /\ inp'[s] = "done" => tty \/ ended[s]
      BY <2>2 DEF EndOfInput, Unpark, InputClosed, AttachTypes
    <3>2. KeysFit(tty, link[s], inp'[s], up'[s], took'[s], escaping'[s])
      BY <1>3, <3>1 DEF KeysFit
    <3>3. PipeFits(tty, link[s], inp'[s], ended[s])
      BY <3>1 DEF PipeFits
    <3> QED
      BY <3>1, <3>2, <3>3
  <2>3. CASE WriteFails(s)
    <3>1. /\ held[s].done \in Good /\ held[s].rest \in Seq(KeyRec)
          /\ took[s] \in Seq(KeyRec) /\ up[s] \in Seq(KeyRec)
      BY DEF AttachTypes
    <3>2. PICK d \in Good : d = Decoded(held[s].done, held[s].rest) /\ Handles(s, d)
      BY <2>3, <3>1, DecodedType, HandleIs DEF WriteFails
    <3>3. inp[s] = "stuck" /\ UNCHANGED took
      BY <2>3 DEF WriteFails
    <3>4. link[s] \in {"cut", "closed"}
      BY <1>3, <2>3, <3>3 DEF KeysFit, WriteFails, Waits
    <3>5. /\ up'[s] = up[s] /\ inp'[s] \in {"read", "done"}
          /\ \A t \in Sessions : t # s => inp'[t] = inp[t] /\ up'[t] = up[t] /\ escaping'[t] = escaping[t]
      BY <3>2, <3>4, HandlesType
    <3>6. KeysFit(tty, link[s], inp'[s], up[s], took[s], escaping'[s])
      BY <1>3, <3>1, <3>4, <3>5, EmptySeq, GrownFits
    <3>7. PipeFits(tty, link[s], inp'[s], ended[s])
      BY <3>4 DEF PipeFits
    <3> QED
      BY <3>3, <3>5, <3>6, <3>7
  <2> QED
    BY <2>1, <2>2, <2>3 DEF PumpInput
<1>5. ASSUME NEW t \in 1..n
      PROVE  /\ KeysFit(tty', link'[t], inp'[t], up'[t], took'[t], escaping'[t])
             /\ PipeFits(tty', link'[t], inp'[t], ended'[t])
  <2>1. t \in Sessions
    BY MineIs
  <2>2. CASE t = s
    BY <1>1, <1>4, <2>2
  <2>3. CASE t # s
    BY <1>1, <1>4, <2>1, <2>3 DEF KeysInv
  <2> QED
    BY <2>2, <2>3
<1> QED
  BY <1>1, <1>5 DEF KeysInv

(* A write that blocks: the keys of its read do not arrive. *)
LEMMA KeysFill ==
  ASSUME StateTypes, KeysInv, NEW s \in Sessions, PipeFills(s)
  PROVE  KeysInv'
<1> USE DEF StateTypes
<1>1. Blocks(s) /\ UNCHANGED <<tty, n, up, ended>>
  BY DEF PipeFills, WriteBlocks, PingBlocks, attach, input, fate
<1>2. /\ link[s] \in {"silent", "full"} /\ link'[s] = "full"
      /\ \A t \in Sessions : t # s => link'[t] = link[t]
  BY <1>1, BlocksIs
<1>3. \A t \in 1..n : t \in Sessions
  BY MineIs
<1>4. CASE PingBlocks(s)
  <2>1. UNCHANGED <<inp, took, escaping>>
    BY <1>4 DEF PingBlocks, attach, input
  <2>2. \A t \in 1..n : Still(t)
    BY <1>1, <1>2, <1>3, <2>1 DEF Still
  <2> QED
    BY <1>1, <2>2, KeysStill
<1>5. CASE WriteBlocks(s)
  <2>0. PICK k \in 1..Len(stdin) : Fetch(s, k) /\ \E d : Notes(s, d)
    BY <1>5 DEF WriteBlocks
  <2>1. PICK d : Notes(s, d)
    BY <2>0
  <2>2. inp[s] = "read" /\ inp' = [inp EXCEPT ![s] = "stuck"]
    BY <1>5, <2>0 DEF WriteBlocks, Fetch
  <2>3. PICK keys \in Seq(KeyRec) :
          /\ took'[s] = took[s] \o keys
          /\ \A t \in Sessions : t # s => took'[t] = took[t]
    BY <2>0, FetchTakes, ReadTakes
  <2>4. /\ inp'[s] = "stuck"
        /\ \A t \in Sessions : t # s => inp'[t] = inp[t] /\ escaping'[t] = escaping[t]
    BY <2>1, <2>2 DEF Notes, AttachTypes
  <2>5. ASSUME NEW t \in 1..n
        PROVE  /\ KeysFit(tty', link'[t], inp'[t], up'[t], took'[t], escaping'[t])
               /\ PipeFits(tty', link'[t], inp'[t], ended'[t])
    <3>1. CASE t # s
      BY <1>1, <1>2, <1>3, <2>3, <2>4, <3>1 DEF KeysInv
    <3>2. CASE t = s
      <4>1. /\ KeysFit(tty, link[s], inp[s], up[s], took[s], escaping[s])
            /\ took[s] \in Seq(KeyRec) /\ up[s] \in Seq(KeyRec)
        BY <1>3, <3>2 DEF KeysInv, AttachTypes
      <4>2. KeysFit(tty, "full", inp[s], up[s], took[s], escaping[s])
        BY <1>2, <2>2, <4>1 DEF KeysFit
      <4>3. KeysFit(tty, "full", "stuck", up[s], took[s] \o keys, escaping'[s])
        BY <4>1, <4>2, GrownFits
      <4> QED
        BY <1>1, <1>2, <2>3, <2>4, <3>2, <4>3 DEF PipeFits
    <3> QED
      BY <3>1, <3>2
  <2> QED
    BY <1>1, <2>5 DEF KeysInv
<1> QED
  BY <1>4, <1>5 DEF PipeFills

LEMMA KeysBeat ==
  ASSUME StateTypes, KeysInv, NEW s \in Sessions, Heartbeat(s)
  PROVE  KeysInv'
<1>1. UNCHANGED <<tty, n, link, inp, up, took, escaping>>
  BY DEF Heartbeat, client, input
<1>2. \A t \in Sessions : ended[t] => ended'[t]
  BY DEF Heartbeat, Beat, Fail, StateTypes, AttachTypes
<1>3. \A t \in 1..n : Still(t)
  BY <1>1, <1>2, MineIs DEF Still, StateTypes
<1> QED
  BY <1>1, <1>3, KeysStill

LEMMA KeysAttacher ==
  ASSUME StateTypes, KeysInv, Attacher
  PROVE  KeysInv'
<1> USE DEF StateTypes
<1>1. UNCHANGED <<tty, n, link, up, took, escaping, ended>>
  BY DEF Attacher, Begin, SessionEnds, Restore, Again, Retry, attach, input, fate
<1>2. CASE UNCHANGED inp
  BY <1>1, <1>2, KeysUnchanged
<1>3. CASE inp' = [inp EXCEPT ![n] = "read"] /\ Begin
  <2>1. n \in Sessions /\ pc \in Asking
    BY <1>3, MineIs DEF Begin, Goto, Fails, Course, Asking
  <2>2. Unused(n) /\ escaping[n] \in Escape
    BY <2>1 DEF Begun, AttachTypes
  <2>3. up[n] = <<>> /\ took[n] = <<>> /\ ~escaping[n].open /\ inp'[n] = "read"
        /\ \A t \in Sessions : t # n => inp'[t] = inp[t]
    BY <1>3, <2>1, <2>2 DEF Unused, AttachTypes
  <2>4. KeysFit(tty, link[n], "read", <<>>, <<>>, escaping[n])
    BY <2>2, <2>3, KeysBegin
  <2>5. PipeFits(tty, link[n], "read", ended[n])
    BY DEF PipeFits
  <2>6. ASSUME NEW t \in 1..n
        PROVE  /\ KeysFit(tty', link'[t], inp'[t], up'[t], took'[t], escaping'[t])
               /\ PipeFits(tty', link'[t], inp'[t], ended'[t])
    <3>1. t \in Sessions
      BY MineIs
    <3>2. CASE t = n
      BY <1>1, <2>3, <2>4, <2>5, <3>2
    <3>3. CASE t # n
      BY <1>1, <2>3, <3>1, <3>3 DEF KeysInv
    <3> QED
      BY <3>2, <3>3
  <2> QED
    BY <1>1, <2>6 DEF KeysInv
<1> QED
  BY <1>2, <1>3 DEF Attacher, Begin, SessionEnds, Restore, Again, Retry, attach, input

LEMMA KeysNext == StateTypes /\ KeysInv /\ [Next]_vars => KeysInv'
<1> SUFFICES ASSUME StateTypes, KeysInv, [Next]_vars PROVE KeysInv'
  OBVIOUS
<1>1. CASE Main
  <2>1. CASE Runner /\ UNCHANGED attach
    <3>1. UNCHANGED <<inp, up, took, escaping, ended>>
      BY <2>1 DEF attach, input, fate
    <3>2. CASE SendBlocks
      <4>1. Blocks(n) /\ n \in Sessions /\ UNCHANGED <<tty, n>>
        BY <3>2, MineIs DEF SendBlocks, Goto, StateTypes, Course
      <4>2. \A t \in 1..n : Still(t)
        BY <3>1, <4>1, MineIs, BlocksIs DEF Still, StateTypes
      <4> QED
        BY <4>1, <4>2, KeysStill
    <3>3. CASE ~SendBlocks
      <4>1. UNCHANGED <<tty, n, link>>
        BY <2>1, <3>3 DEF Runner, RunReady, LinkLost, SendOrSleep, SendFails, WaitBegins, WaitHit,
                          WaitMiss, WaitAgain, WaitTimeout, Settle
      <4> QED
        BY <3>1, <4>1, KeysUnchanged
    <3> QED
      BY <3>2, <3>3
  <2> QED
    BY <1>1, <2>1, KeysCommon, KeysAttacher DEF Main
<1>2. ASSUME NEW s \in Sessions, Goroutines(s) PROVE KeysInv'
  <2>1. CASE PumpOutput(s)
    <3>1. UNCHANGED <<tty, n, link, inp, up, took, escaping, ended>>
      BY <2>1 DEF PumpOutput, Receive, OutputEnds, client, input, fate
    <3> QED
      BY <3>1, KeysUnchanged
  <2> QED
    BY <1>2, <2>1, KeysInput, KeysBeat, KeysFill DEF Goroutines
<1>3. CASE Collecting
  <2>1. UNCHANGED <<tty, n, link, inp, up, took, escaping, ended>>
    BY <1>3 DEF Collecting, Collector, Collect, CollectEnds, client, attach, input, fate
  <2> QED
    BY <2>1, KeysUnchanged
<1>4. CASE User
  <2>1. UNCHANGED <<tty, n, link, inp, up, took, escaping, ended>>
    BY <1>4 DEF User, Type, CloseInput, Signal, Interrupt, client, attach, input, fate
  <2> QED
    BY <2>1, KeysUnchanged
<1>5. CASE Daemon
  BY <1>5, KeysOutside DEF Daemon
<1>6. CASE UNCHANGED vars
  <2>1. UNCHANGED <<tty, n, link, inp, up, took, escaping, ended>>
    BY <1>6 DEF vars, client, attach, input, fate
  <2> QED
    BY <2>1, KeysUnchanged
<1> QED
  BY <1>1, <1>2, <1>3, <1>4, <1>5, <1>6 DEF Next, Exited

LEMMA KeysHold == KeysInv => KeysMeanWhatWasTyped
BY MeaningNow DEF KeysInv, KeysFit, PipeFits, KeysMeanWhatWasTyped, KeysSent, PipeKeepsReading

----------------------------------------------------------------------------
(* What the daemon sends is shown. *)

(* A step that moves no chunk. *)
LEMMA ShownStill ==
  ASSUME ShownInv, UNCHANGED <<n, shown, sent, backlog>>,
         \A s \in 1..n : DataOf(s, down'[s]) = DataOf(s, down[s]),
         \A s \in 1..n : Reads(s)' => Reads(s),
         pc' \in Asking => pc \in Asking /\ n \in 1..n
  PROVE  ShownInv'
<1>1. ASSUME NEW s \in 1..n PROVE ChunksFit(s, sent'[s], shown', down'[s], Reads(s)')
  <2>1. ChunksFit(s, sent[s], shown, down[s], Reads(s))
    BY DEF ShownInv
  <2> QED
    BY <2>1 DEF ChunksFit
<1>2. ASSUME pc' \in Asking PROVE BacklogFits(n', sent'[n'], shown', down'[n'], backlog')
  <2>1. BacklogFits(n, sent[n], shown, down[n], backlog)
    BY <1>2 DEF ShownInv
  <2> QED
    BY <1>2, <2>1 DEF BacklogFits
<1> QED
  BY <1>1, <1>2 DEF ShownInv

(* The reader takes a frame and shows it, if it is data. *)
LEMMA ChunkShown ==
  ASSUME NEW s \in Sessions, NEW m \in Nat, NEW v \in Seq(Item), NEW q \in Seq(Frame), q # <<>>,
         ChunksFit(s, m, v, q, TRUE)
  PROVE  /\ ChunksFit(s, m, v \o One(s, Head(q)), Tail(q), TRUE)
         /\ \A reads \in BOOLEAN : Head(q).op # "data" => ChunksFit(s, m, v, Tail(q), reads)
         /\ ChunksFit(s, m, v, Tail(q), FALSE)
<1>1. PICK f \in Frame, r \in Seq(Frame) : f = Head(q) /\ r = Tail(q)
  BY HeadTailProperties
<1>2. PICK a, c, d : a = ShownBy(v, s) /\ c = One(s, f) /\ d = DataOf(s, r)
  OBVIOUS
<1>3. a \in Seq(Item) /\ c \in Seq(Item) /\ d \in Seq(Item) /\ c \in Seq(Mine(s))
  <2>1. Mine(s) \subseteq Item
    BY DEF Item, Mine
  <2>2. c \in Seq(Mine(s)) /\ d \in Seq(Mine(s))
    BY <1>1, <1>2, OneIs, DataType
  <2>3. a \in Seq(Item)
    BY <1>2, OnlyType DEF ShownBy
  <2> QED
    BY <2>1, <2>2, <2>3, SeqMonotonic
<1>4. DataOf(s, q) = c \o d
  BY <1>1, <1>2, DataHead
<1>5. ShownBy(v \o c, s) = a \o c
  <2>1. ShownBy(v \o c, s) = ShownBy(v, s) \o c
    BY <1>3, ShownAdd
  <2> QED
    BY <1>2, <2>1
<1>6. a \o (c \o d) = SentOf(s, m) /\ IsPrefix(a, SentOf(s, m))
  BY <1>2, <1>4 DEF ChunksFit
<1>7. (a \o c) \o d = SentOf(s, m)
  <2>1. a \in Seq(Item) /\ c \in Seq(Item) /\ d \in Seq(Item)
    BY <1>3
  <2>2. Cat(Cat(a, c), d) = Cat(a, Cat(c, d))
    BY <2>1, Regroup
  <2> QED
    BY <1>6, <2>2 DEF Cat
<1>8. IsPrefix(a \o c, SentOf(s, m))
  <2>1. a \o c \in Seq(Item)
    BY <1>3, ConcatProperties
  <2>2. IsPrefix(a \o c, (a \o c) \o d)
    BY <1>3, <2>1, PrefixGrows
  <2> QED
    BY <1>7, <2>2
<1>9. f.op # "data" => c = <<>> /\ a \o c = a
  BY <1>2, <1>3, ConcatEmptySeq DEF One
<1> QED
  BY <1>1, <1>2, <1>5, <1>6, <1>7, <1>8, <1>9 DEF ChunksFit

(* The daemon sends a chunk. *)
(* What a holds, and then what is data in q, are the m chunks sent in session s. *)
Covers(a, s, q, m) == a \o DataOf(s, q) = SentOf(s, m)

LEMMA ChunkSent ==
  ASSUME NEW s \in Sessions, NEW m \in Nat, NEW q \in Seq(Frame), NEW a \in Seq(Item),
         NEW j, j = m + 1, NEW f \in Frame, f.op = "data", f.k = j
  PROVE  /\ Covers(a, s, q, m) => Covers(a, s, Append(q, f), j)
         /\ IsPrefix(a, SentOf(s, m)) => IsPrefix(a, SentOf(s, j))
<1>2. PICK d, c : d = DataOf(s, q) /\ c = << <<s, j>> >>
  OBVIOUS
<1>3. DataOf(s, Append(q, f)) = d \o c
  <2>1. One(s, f) = c
    BY <1>2 DEF One
  <2> QED
    BY <1>2, <2>1, DataAppend
<1>4. SentOf(s, j) = SentOf(s, m) \o c
  BY <1>2, SentType DEF SentOf
<1>5. d \in Seq(Item) /\ c \in Seq(Item) /\ SentOf(s, m) \in Seq(Item)
  <2>1. Mine(s) \subseteq Item
    BY DEF Item, Mine
  <2>2. d \in Seq(Mine(s)) /\ SentOf(s, m) \in Seq(Mine(s))
    BY <1>2, DataType, SentType DEF SentOf
  <2>3. c \in Seq(Mine(s))
    <3>1. <<s, j>> \in Mine(s)
      BY DEF Mine
    <3> QED
      BY <1>2, <3>1
  <2> QED
    BY <2>1, <2>2, <2>3, SeqMonotonic
<1>6. (a \o d) \o c = a \o (d \o c)
  <2>1. Cat(Cat(a, d), c) = Cat(a, Cat(d, c))
    BY <1>5, Regroup
  <2> QED
    BY <2>1 DEF Cat
<1>7. IsPrefix(a, SentOf(s, m)) => IsPrefix(a, SentOf(s, m) \o c)
  <2>1. PICK b : b = SentOf(s, m)
    OBVIOUS
  <2>2. IsPrefix(a, b) => IsPrefix(a, b \o c)
    BY <1>5, <2>1, PrefixGrows
  <2> QED
    BY <2>1, <2>2
<1> QED
  BY <1>2, <1>3, <1>4, <1>6, <1>7 DEF Covers

(* The daemon sends one more chunk, while the session is live and while the port is asked for. *)
LEMMA ChunksSent ==
  ASSUME NEW s \in Sessions, NEW m \in Nat, NEW q \in Seq(Frame), NEW v \in Seq(Item),
         NEW j, j = m + 1, NEW f \in Frame, f.op = "data", f.k = j, NEW reads,
         ChunksFit(s, m, v, q, reads)
  PROVE  ChunksFit(s, j, v, Append(q, f), reads)
<1>1. PICK a \in Seq(Item) : a = ShownBy(v, s)
  BY OnlyType DEF ShownBy
<1>2. /\ Covers(a, s, q, m) => Covers(a, s, Append(q, f), j)
      /\ IsPrefix(a, SentOf(s, m)) => IsPrefix(a, SentOf(s, j))
  BY ChunkSent
<1> QED
  BY <1>1, <1>2 DEF ChunksFit, Covers

LEMMA BacklogSent ==
  ASSUME NEW s \in Sessions, NEW m \in Nat, NEW q \in Seq(Frame), NEW v, NEW b \in Seq(DataFrame),
         NEW j, j = m + 1, NEW f \in Frame, f.op = "data", f.k = j,
         BacklogFits(s, m, v, q, b)
  PROVE  BacklogFits(s, j, v, Append(q, f), b)
<1>1. PICK a \in Seq(Item) : a = DataOf(s, b)
  <2>1. DataOf(s, b) \in Seq(Mine(s))
    BY DataIsFrame, DataType
  <2>2. Mine(s) \subseteq Item
    BY DEF Mine, Item
  <2> QED
    BY <2>1, <2>2, SeqMonotonic
<1>2. Covers(a, s, q, m) => Covers(a, s, Append(q, f), j)
  BY ChunkSent
<1> QED
  BY <1>1, <1>2 DEF BacklogFits, Covers

(* A frame that is no data changes nothing. *)
LEMMA CtrlSent ==
  ASSUME NEW s, NEW q \in Seq(Frame), NEW f \in Frame, f.op # "data"
  PROVE  DataOf(s, Append(q, f)) = DataOf(s, q)
<1>1. One(s, f) = <<>>
  BY DEF One
<1>2. DataOf(s, q) \in Seq(Mine(s))
  BY DataType
<1>3. DataOf(s, q) \o <<>> = DataOf(s, q)
  BY <1>2, ConcatEmptySeq
<1> QED
  BY <1>1, <1>3, DataAppend

(* The backlog is shown, whole. *)
LEMMA BacklogShown ==
  ASSUME NEW s \in Sessions, NEW m \in Nat, NEW v \in Seq(Item), NEW q \in Seq(Frame),
         NEW b \in Seq(DataFrame), BacklogFits(s, m, v, q, b)
  PROVE  ChunksFit(s, m, v \o Items(s, b), q, TRUE)
<1>1. PICK c, d : c = Items(s, b) /\ d = DataOf(s, q)
  OBVIOUS
<1>2. c \in Seq(Mine(s)) /\ d \in Seq(Mine(s)) /\ DataOf(s, b) = c
  BY <1>1, ItemsType, DataType, DataAll
<1>3. ShownBy(v \o c, s) = c
  <2>2. ShownBy(v \o c, s) = ShownBy(v, s) \o c
    BY <1>2, ShownAdd
  <2>3. ShownBy(v, s) = <<>>
    BY DEF BacklogFits
  <2>4. <<>> \o c = c
    BY <1>2, ConcatEmptySeq
  <2> QED
    BY <2>2, <2>3, <2>4
<1>4. c \o d = SentOf(s, m)
  BY <1>1, <1>2 DEF BacklogFits
<1>5. IsPrefix(c, c \o d)
  BY <1>2, PrefixGrows
<1> QED
  BY <1>1, <1>3, <1>4, <1>5 DEF ChunksFit

(* A frame that comes before the reply is kept, if it is data. *)
LEMMA BacklogKept ==
  ASSUME NEW s \in Sessions, NEW m \in Nat, NEW v, NEW q \in Seq(Frame), q # <<>>,
         NEW b \in Seq(DataFrame), BacklogFits(s, m, v, q, b), NEW f, f = Head(q), NEW b1,
         b1 = IF f.op = "data" THEN Append(b, f) ELSE b
  PROVE  BacklogFits(s, m, v, Tail(q), b1)
<1>1. f \in Frame /\ Tail(q) \in Seq(Frame) /\ b \in Seq(Frame)
  BY HeadTailProperties, DataIsFrame
<1>2. PICK a, c, d : a = DataOf(s, b) /\ c = One(s, f) /\ d = DataOf(s, Tail(q))
  OBVIOUS
<1>3. a \in Seq(Mine(s)) /\ c \in Seq(Mine(s)) /\ d \in Seq(Mine(s))
  BY <1>1, <1>2, DataType, OneIs
<1>4. a \o (c \o d) = SentOf(s, m)
  BY <1>2, DataHead DEF BacklogFits
<1>5. DataOf(s, b1) = a \o c
  <2>1. CASE f.op = "data"
    BY <1>1, <1>2, <2>1, DataAppend
  <2>2. CASE f.op # "data"
    <3>1. c = <<>> /\ a \o <<>> = a
      BY <1>2, <1>3, <2>2, ConcatEmptySeq DEF One
    <3> QED
      BY <1>2, <2>2, <3>1
  <2> QED
    BY <2>1, <2>2
<1>6. (a \o c) \o d = a \o (c \o d)
  <2>1. PICK X : X = Mine(s)
    OBVIOUS
  <2>2. a \in Seq(X) /\ c \in Seq(X) /\ d \in Seq(X)
    BY <1>3, <2>1
  <2>3. Cat(Cat(a, c), d) = Cat(a, Cat(c, d))
    BY <2>2, Regroup
  <2> QED
    BY <2>3 DEF Cat
<1> QED
  BY <1>2, <1>4, <1>5, <1>6 DEF BacklogFits

(* What is shown belongs to sessions that were begun. *)
LEMMA ShownRange ==
  ASSUME StateTypes, NEW m \in Nat
  PROVE  /\ \A s \in 1..m : Mine(s) \subseteq (1..m) \X Nat
         /\ m <= MaxDials => (1..m) \X Nat \subseteq Item
<1>1. \A s \in 1..m : Mine(s) \subseteq (1..m) \X Nat
  BY DEF Mine
<1>2. m <= MaxDials => (1..m) \X Nat \subseteq Item
  BY ClientAssumption DEF Item, Sessions
<1> QED
  BY <1>1, <1>2

LEMMA ShownGrows ==
  ASSUME NEW m \in Nat, NEW s \in 1..m, NEW v \in Seq((1..m) \X Nat), NEW w \in Seq(Mine(s))
  PROVE  v \o w \in Seq((1..m) \X Nat)
<1>1. PICK X : X = (1..m) \X Nat
  OBVIOUS
<1>2. Mine(s) \subseteq X
  BY <1>1 DEF Mine
<1>3. v \in Seq(X) /\ w \in Seq(X)
  BY <1>1, <1>2, SeqMonotonic
<1> QED
  BY <1>1, <1>3, ConcatProperties

(* Nothing of a session that was not begun is shown. *)
LEMMA ShownNothing ==
  ASSUME NEW m \in Nat, NEW v \in Seq((1..m) \X Nat), NEW s, s \notin 1..m
  PROVE  ShownBy(v, s) = <<>>
<1>1. PICK X : X = (1..m) \X Nat
  OBVIOUS
<1>2. X \intersect Mine(s) = {} /\ v \in Seq(X)
  BY <1>1 DEF Mine
<1> QED
  BY <1>2, OnlyNone DEF ShownBy

(* A step that only moves chunks of session s. *)
Fits(s) == ChunksFit(s, sent[s], shown, down[s], Reads(s))

LEMMA ShownMoves ==
  ASSUME StateTypes, ShownInv, UNCHANGED n, NEW s \in 1..n,
         shown' \in Seq((1..n) \X Nat),
         \A t \in 1..n : t # s => /\ ShownBy(shown', t) = ShownBy(shown, t)
                                  /\ sent'[t] = sent[t] /\ DataOf(t, down'[t]) = DataOf(t, down[t])
                                  /\ Reads(t)' => Reads(t),
         ChunksFit(s, sent'[s], shown', down'[s], Reads(s)'),
         pc' \in Asking => BacklogFits(n, sent'[n], shown', down'[n], backlog')
  PROVE  ShownInv'
<1>1. ASSUME NEW t \in 1..n PROVE ChunksFit(t, sent'[t], shown', down'[t], Reads(t)')
  <2>1. CASE t = s
    BY <2>1
  <2>2. CASE t # s
    <3>1. ChunksFit(t, sent[t], shown, down[t], Reads(t))
      BY DEF ShownInv
    <3> QED
      BY <2>2, <3>1 DEF ChunksFit
  <2> QED
    BY <2>1, <2>2
<1> QED
  BY <1>1 DEF ShownInv

(* While the port is asked for, nothing reads the session. *)
LEMMA AskingAlone ==
  ASSUME StateTypes, pc \in Asking
  PROVE  n \in Sessions /\ n \in 1..n /\ ~Reads(n) /\ ~collects /\ outp[n] = "none"
<1> USE DEF StateTypes
<1>1. n \in Sessions /\ n \in 1..n
  BY MineIs DEF Course, Asking
<1>2. outp[n] = "none"
  BY <1>1 DEF Begun, Unused
<1>3. ~collects
  BY DEF Course, Asking
<1> QED
  BY <1>1, <1>2, <1>3 DEF Reads

LEMMA ShownCommon ==
  ASSUME StateTypes, ShownInv, Common, UNCHANGED <<attach, script>>
  PROVE  ShownInv'
<1> USE DEF StateTypes
<1>0. UNCHANGED <<outp, collects>> /\ n \in Nat
  BY DEF attach, script, ClientTypes
<1>1. CASE Dispatch \/ BadUsage \/ DialFails \/ Close \/ Exit
  <2>1. UNCHANGED <<n, shown, sent, backlog, down>> /\ pc' \notin Asking
    BY <1>1 DEF Dispatch, BadUsage, DialFails, Close, Exit, Goto, Asking
  <2>2. \A s \in 1..n : Reads(s)' => Reads(s)
    BY <1>0, <2>1 DEF Reads
  <2> QED
    BY <2>1, <2>2, ShownStill
<1>2. CASE Handshake
  <2>1. ASSUME NEW l \in Asking, NEW l1 \in Asking, NEW q, Ask(l, l1, q) \/ ReadFails(l) PROVE ShownInv'
    <3>1. UNCHANGED <<n, shown, sent, backlog, down>> /\ pc = l
      BY <2>1 DEF Ask, ReadFails, Goto, Fails
    <3>2. \A s \in 1..n : Reads(s)' => Reads(s)
      BY <1>0, <3>1 DEF Reads
    <3>3. n \in 1..n
      BY <2>1, <3>1, AskingAlone
    <3> QED
      BY <2>1, <3>1, <3>2, <3>3, ShownStill
  <2>2. ASSUME NEW l \in Asking, NEW want, NEW l1 \in Asking, ReadUntil(l, want, l1) PROVE ShownInv'
    <3>1. pc = l /\ Take(n) /\ CanRead(n) /\ Keep(Head(down[n])) /\ UNCHANGED <<n, sent, shown>>
      BY <2>2 DEF ReadUntil, Goto, Fails
    <3>2. n \in Sessions /\ n \in 1..n /\ ~Reads(n) /\ ~collects /\ outp[n] = "none"
      BY <2>2, <3>1, AskingAlone
    <3>3. /\ down[n] \in Seq(Frame) /\ down[n] # <<>> /\ down'[n] = Tail(down[n])
          /\ \A t \in Sessions : t # n => down'[t] = down[t]
      BY <3>1, <3>2, TakeType DEF ClientTypes, CanRead
    <3>4. ~Reads(n)' /\ \A t \in 1..n : t # n => (Reads(t)' => Reads(t))
      BY <1>0, <3>1, <3>2 DEF Reads
    <3>5. BacklogFits(n, sent[n], shown, down[n], backlog)
      BY <2>2, <3>1 DEF ShownInv
    <3>6. PICK m \in Nat, v \in Seq(Item), q \in Seq(Frame), b \in Seq(DataFrame) :
            m = sent[n] /\ v = shown /\ q = down[n] /\ b = backlog
      BY <3>2 DEF ClientTypes
    <3>7. PICK f, b1 : f = Head(q) /\ b1 = backlog' /\ b1 = IF f.op = "data" THEN Append(b, f) ELSE b
      BY <3>1, <3>6 DEF Keep
    <3>8. BacklogFits(n, m, v, Tail(q), b1)
      BY <3>2, <3>3, <3>5, <3>6, <3>7, BacklogKept
    <3>9. BacklogFits(n, sent'[n], shown', down'[n], backlog')
      BY <3>1, <3>3, <3>6, <3>7, <3>8
    <3>10. ChunksFit(n, sent'[n], shown', down'[n], Reads(n)')
      <4>1. ChunksFit(n, sent[n], shown, down[n], Reads(n))
        BY <3>2 DEF ShownInv
      <4> QED
        BY <3>1, <3>4, <4>1 DEF ChunksFit
    <3>11. shown' \in Seq((1..n) \X Nat)
      BY <3>1 DEF ShownInv
    <3>12. \A t \in 1..n : t # n => DataOf(t, down'[t]) = DataOf(t, down[t])
      BY <3>3, MineIs
    <3> QED
      BY <3>1, <3>2, <3>4, <3>9, <3>10, <3>11, <3>12, ShownMoves
  <2> QED
    BY <1>2, <2>1, <2>2 DEF Handshake, Hello, OpenPort, Asking
<1>3. CASE Dial
  <2>1. /\ n' = n + 1 /\ n' \in Sessions /\ pc = "dial" /\ backlog' = <<>>
        /\ UNCHANGED <<shown, sent, down>>
    BY <1>3, ClientAssumption DEF Dial, Goto, ClientTypes, Sessions
  <2>2. PICK m : m = n'
    OBVIOUS
  <2>3. m \in Sessions /\ m = n + 1 /\ m > n /\ m \notin 1..n /\ down[m] = <<>> /\ sent[m] = 0 /\ Unused(m)
    BY <1>0, <2>1, <2>2 DEF Begun
  <2>4. ~collects
    BY <2>1 DEF Course
  <2>5. ShownBy(shown, m) = <<>> /\ SentOf(m, 0) = <<>> /\ DataOf(m, <<>>) = <<>>
    <3>1. ShownBy(shown, m) = <<>>
      BY <1>0, <2>3, ShownNothing DEF ShownInv
    <3>2. SentOf(m, 0) = <<>>
      BY DEF SentOf
    <3> QED
      BY <3>1, <3>2, DataEmpty
  <2>6. BacklogFits(m, 0, shown, <<>>, <<>>)
    <3>1. <<>> \o <<>> = <<>>
      OBVIOUS
    <3> QED
      BY <2>5, <3>1 DEF BacklogFits
  <2>7. ChunksFit(m, 0, shown, <<>>, FALSE)
    <3>1. <<>> \in Seq(Item)
      BY EmptySeq
    <3>2. IsPrefix(<<>>, <<>>)
      BY <3>1, PrefixGrows
    <3> QED
      BY <2>5, <3>2 DEF ChunksFit
  <2>8. ~Reads(m)'
    BY <1>0, <2>3, <2>4 DEF Reads, Unused
  <2>9. \A t \in 1..n : ChunksFit(t, sent'[t], shown', down'[t], Reads(t)')
    <3> TAKE t \in 1..n
    <3>1. ChunksFit(t, sent[t], shown, down[t], Reads(t)) /\ (Reads(t)' => Reads(t))
      BY <1>0, <2>4 DEF ShownInv, Reads
    <3> QED
      BY <2>1, <3>1 DEF ChunksFit
  <2>10. ChunksFit(m, sent'[m], shown', down'[m], Reads(m)')
    BY <2>1, <2>3, <2>7, <2>8 DEF ChunksFit
  <2>11. BacklogFits(m, sent'[m], shown', down'[m], backlog')
    BY <2>1, <2>3, <2>6
  <2>12. \A t \in 1..m : t = m \/ t \in 1..n
    BY <1>0, <2>3
  <2>13. shown \in Seq((1..m) \X Nat)
    <3>1. (1..n) \X Nat \subseteq (1..m) \X Nat
      BY <1>0, <2>3
    <3>2. PICK X, Y : X = (1..n) \X Nat /\ Y = (1..m) \X Nat
      OBVIOUS
    <3>3. shown \in Seq(X)
      BY <3>2 DEF ShownInv
    <3>4. shown \in Seq(Y)
      BY <3>1, <3>2, <3>3, SeqMonotonic
    <3> QED
      BY <3>2, <3>4
  <2> QED
    BY <2>1, <2>2, <2>9, <2>10, <2>11, <2>12, <2>13 DEF ShownInv
<1> QED
  BY <1>1, <1>2, <1>3 DEF Common

LEMMA ShownOutside ==
  ASSUME StateTypes, ShownInv, Outside, UNCHANGED <<attach, script>>
  PROVE  ShownInv'
<1> USE DEF StateTypes
<1>1. PICK s \in 1..n : Answer(s) \/ Data(s) \/ Remark(s) \/ LinkFails(s) \/ KeepAlive(s)
  BY DEF Outside
<1>2. s \in Sessions /\ \A t \in 1..n : t \in Sessions
  BY MineIs
<1>3. /\ UNCHANGED <<outp, collects, n, pc, shown, backlog>>
      /\ \A t : Reads(t)' = Reads(t)
      /\ pc \in Asking => n \in 1..n
  <2>1. UNCHANGED <<outp, collects, n, pc, shown, backlog>>
    BY <1>1 DEF Answer, Data, Remark, LinkFails, KeepAlive, attach, script
  <2> QED
    BY <2>1, AskingAlone DEF Reads
<1>4. CASE LinkFails(s) \/ KeepAlive(s)
  <2>1. UNCHANGED <<sent, down>>
    BY <1>4 DEF LinkFails, KeepAlive
  <2> QED
    BY <1>3, <2>1, ShownStill
<1>5. CASE Answer(s) \/ Remark(s)
  <2>1. UNCHANGED sent /\ \E f \in Frame : f.op # "data" /\ Says(s, f)
    <3>1. \E op \in {"welcome", "opened", "error", "closed"} : Says(s, Ctrl(op))
      BY <1>5 DEF Answer, Remark
    <3>2. PICK op \in {"welcome", "opened", "error", "closed"} : Says(s, Ctrl(op))
      BY <3>1
    <3>3. Ctrl(op) \in Frame /\ Ctrl(op).op # "data"
      BY FramesAre
    <3> QED
      BY <1>5, <3>2, <3>3 DEF Answer, Remark
  <2>2. PICK f \in Frame : f.op # "data" /\ Says(s, f)
    BY <2>1
  <2>3. /\ down'[s] = Append(down[s], f) /\ down[s] \in Seq(Frame)
        /\ \A t \in Sessions : t # s => down'[t] = down[t]
    BY <1>2, <2>2, SaysType DEF ClientTypes
  <2>4. DataOf(s, down'[s]) = DataOf(s, down[s])
    BY <2>2, <2>3, CtrlSent
  <2>5. \A t \in 1..n : DataOf(t, down'[t]) = DataOf(t, down[t])
    BY <1>2, <2>3, <2>4
  <2> QED
    BY <1>3, <2>1, <2>5, ShownStill
<1>6. CASE Data(s)
  <2>1. /\ sent'[s] = sent[s] + 1 /\ sent[s] \in Nat
        /\ \A t \in Sessions : t # s => sent'[t] = sent[t]
    BY <1>2, <1>6 DEF Data, ClientTypes
  <2>2. PICK hit \in BOOLEAN : Says(s, Chunk(sent'[s], hit))
    BY <1>6 DEF Data
  <2>3. PICK m \in Nat : m = sent[s]
    BY <2>1
  <2>4. Says(s, Chunk(m + 1, hit)) /\ Chunk(m + 1, hit) \in Frame
    <3>1. m + 1 \in Nat
      OBVIOUS
    <3> QED
      BY <2>1, <2>2, <2>3, <3>1, FramesAre
  <2>5. /\ down'[s] = Append(down[s], Chunk(m + 1, hit)) /\ down[s] \in Seq(Frame)
        /\ \A t \in Sessions : t # s => down'[t] = down[t]
    BY <1>2, <2>4, SaysType DEF ClientTypes
  <2>6. PICK q, r : q \in Seq(Frame) /\ q = down[s] /\ r = down'[s] /\ r = Append(q, Chunk(m + 1, hit))
    BY <2>5
  <2>0. PICK j, f : f \in Frame /\ j = m + 1 /\ f.op = "data" /\ f.k = j /\ r = Append(q, f)
    <3>1. PICK f : f = Chunk(m + 1, hit)
      OBVIOUS
    <3>2. f \in Frame /\ f.op = "data" /\ f.k = m + 1 /\ r = Append(q, f)
      BY <2>4, <2>6, <3>1 DEF Chunk
    <3> QED
      BY <3>2
  <2>7. ChunksFit(s, sent'[s], shown', down'[s], Reads(s)')
    <3>1. shown \in Seq(Item) /\ ChunksFit(s, m, shown, q, Reads(s))
      BY <2>3, <2>6 DEF ShownInv, ClientTypes
    <3>4. ChunksFit(s, j, shown, r, Reads(s))
      BY <1>2, <2>0, <2>6, <3>1, ChunksSent
    <3> QED
      BY <1>3, <2>0, <2>1, <2>3, <2>6, <3>4
  <2>8. pc' \in Asking => BacklogFits(n, sent'[n], shown', down'[n], backlog')
    <3>1. SUFFICES ASSUME pc \in Asking PROVE BacklogFits(n, sent'[n], shown, down'[n], backlog)
      BY <1>3
    <3>2. BacklogFits(n, sent[n], shown, down[n], backlog)
      BY <3>1 DEF ShownInv
    <3>3. CASE n # s
      BY <1>2, <1>3, <2>1, <2>5, <3>1, <3>2, <3>3
    <3>4. CASE n = s
      <4>1. backlog \in Seq(DataFrame) /\ BacklogFits(s, m, shown, q, backlog)
        BY <2>3, <2>6, <3>2, <3>4 DEF ClientTypes
      <4>5. BacklogFits(s, j, shown, r, backlog)
        BY <1>2, <2>0, <2>6, <4>1, BacklogSent
      <4> QED
        BY <2>0, <2>1, <2>3, <2>6, <3>4, <4>5
    <3> QED
      BY <3>3, <3>4
  <2>9. shown' \in Seq((1..n) \X Nat)
    BY <1>3 DEF ShownInv
  <2>10. \A t \in 1..n : t # s => /\ ShownBy(shown', t) = ShownBy(shown, t)
                                  /\ sent'[t] = sent[t] /\ DataOf(t, down'[t]) = DataOf(t, down[t])
                                  /\ Reads(t)' => Reads(t)
    BY <1>2, <1>3, <2>1, <2>5
  <2> QED
    BY <1>3, <2>7, <2>8, <2>9, <2>10, ShownMoves
<1> QED
  BY <1>1, <1>4, <1>5, <1>6

(* A goroutine takes the frame f of its session and shows it, if it is data, or ends. *)
LEMMA ShownReceive ==
  ASSUME StateTypes, ShownInv, NEW s \in Sessions, s \in 1..n, Reads(s), CanRead(s), Take(s),
         UNCHANGED <<n, pc, sent, backlog>>, \A t \in 1..n : t # s => (Reads(t)' => Reads(t)),
         \/ shown' = shown \o One(s, Head(down[s]))
         \/ UNCHANGED shown /\ ~Reads(s)'
  PROVE  ShownInv'
<1> USE DEF StateTypes
<1>1. /\ down[s] \in Seq(Frame) /\ down[s] # <<>> /\ down'[s] = Tail(down[s])
      /\ \A t \in Sessions : t # s => down'[t] = down[t]
      /\ Head(down[s]) \in Frame
  BY TakeType DEF ClientTypes, CanRead
<1>2. PICK m \in Nat, v \in Seq(Item), q \in Seq(Frame) : m = sent[s] /\ v = shown /\ q = down[s] /\ q # <<>>
  BY <1>1 DEF ClientTypes
<1>3. ChunksFit(s, m, v, q, TRUE)
  BY <1>2 DEF ShownInv, ChunksFit
<1>4. PICK c : c = One(s, Head(q)) /\ c \in Seq(Mine(s))
  BY <1>1, <1>2, OneIs
<1>5. /\ ChunksFit(s, m, v \o c, Tail(q), TRUE)
      /\ ChunksFit(s, m, v, Tail(q), FALSE)
  BY <1>2, <1>3, <1>4, ChunkShown
<1>6. n \in Nat /\ shown \in Seq((1..n) \X Nat)
  BY DEF ClientTypes, ShownInv
<1>7. shown' \in Seq((1..n) \X Nat)
  <2>1. v \in Seq((1..n) \X Nat)
    BY <1>2, <1>6
  <2>2. v \o c \in Seq((1..n) \X Nat)
    BY <1>4, <1>6, <2>1, ShownGrows
  <2> QED
    BY <1>2, <1>4, <2>1, <2>2
<1>8. \A t \in 1..n : t # s => ShownBy(shown', t) = ShownBy(shown, t)
  <2>1. \A t : t # s => ShownBy(v \o c, t) = ShownBy(v, t)
    BY <1>2, <1>4, ShownAdd
  <2> QED
    BY <1>2, <1>4, <2>1
<1>9. ChunksFit(s, sent'[s], shown', down'[s], Reads(s)')
  <2>1. CASE shown' = v \o c
    <3>1. ChunksFit(s, m, shown', Tail(q), Reads(s)')
      BY <1>5, <2>1 DEF ChunksFit
    <3> QED
      BY <1>1, <1>2, <3>1
  <2>2. CASE shown' = v /\ ~Reads(s)'
    <3>1. ChunksFit(s, m, shown', Tail(q), Reads(s)')
      BY <1>5, <2>2 DEF ChunksFit
    <3> QED
      BY <1>1, <1>2, <3>1
  <2> QED
    BY <1>2, <1>4, <2>1, <2>2
<1>10. pc' \in Asking => BacklogFits(n, sent'[n], shown', down'[n], backlog')
  <2>1. SUFFICES ASSUME pc \in Asking PROVE BacklogFits(n, sent[n], shown', down'[n], backlog)
    OBVIOUS
  <2>2. n # s /\ n \in Sessions /\ n \in 1..n
    BY <2>1, AskingAlone
  <2>3. BacklogFits(n, sent[n], shown, down[n], backlog)
    BY <2>1 DEF ShownInv
  <2> QED
    BY <1>1, <1>8, <2>2, <2>3 DEF BacklogFits
<1>11. \A t \in 1..n : t # s => /\ ShownBy(shown', t) = ShownBy(shown, t)
                                /\ sent'[t] = sent[t] /\ DataOf(t, down'[t]) = DataOf(t, down[t])
                                /\ Reads(t)' => Reads(t)
  BY <1>1, <1>8, MineIs
<1> QED
  BY <1>7, <1>9, <1>10, <1>11, ShownMoves

LEMMA OneShown ==
  ASSUME NEW s, NEW f \in Frame
  PROVE  /\ f.op = "data" => Items(s, <<f>>) = One(s, f)
         /\ \A v \in Seq(Item) : f.op # "data" => v \o One(s, f) = v
<1>1. f.op = "data" => Items(s, <<f>>) = One(s, f)
  BY OneIs, DataFrames DEF IfIn
<1>2. \A v \in Seq(Item) : f.op # "data" => v \o One(s, f) = v
  BY ConcatEmptySeq DEF One
<1> QED
  BY <1>1, <1>2

LEMMA ShownOutput ==
  ASSUME StateTypes, ShownInv, NEW s \in Sessions, PumpOutput(s), UNCHANGED script
  PROVE  ShownInv'
<1> USE DEF StateTypes
<1>1. /\ ~Unused(s) /\ outp[s] = "read" /\ UNCHANGED <<collects, n, pc, sent, backlog>>
      /\ \A t \in Sessions : t # s => outp'[t] = outp[t]
  BY DEF PumpOutput, Receive, OutputEnds, Unused, script, client, AttachTypes
<1>2. s \in 1..n /\ cmd = "attach" /\ ~collects /\ ~(s = n /\ pc \in Asking)
  BY <1>1, UsedIs DEF Course
<1>3. Reads(s) /\ \A t \in 1..n : t # s => (Reads(t)' => Reads(t))
  BY <1>1, <1>2, MineIs DEF Reads
<1>4. CASE Receive(s)
  <2>1. PICK f \in Frame : f = Head(down[s])
    BY <1>4, TakeType DEF Receive
  <2>2. CanRead(s) /\ Take(s)
    BY <1>4 DEF Receive
  <2>3. \/ f.op = "data" /\ shown' = shown \o Items(s, <<f>>)
        \/ UNCHANGED shown /\ outp' = [outp EXCEPT ![s] = "done"]
        \/ f.op # "data" /\ UNCHANGED shown
    BY <1>4, <2>1 DEF Receive, Show
  <2>4. \/ shown' = shown \o One(s, f)
        \/ UNCHANGED shown /\ ~Reads(s)'
    <3>1. CASE f.op = "data" /\ shown' = shown \o Items(s, <<f>>)
      BY <3>1, OneShown
    <3>2. CASE UNCHANGED shown /\ outp' = [outp EXCEPT ![s] = "done"]
      BY <1>1, <1>2, <3>2 DEF Reads, AttachTypes
    <3>3. CASE f.op # "data" /\ UNCHANGED shown
      BY <3>3, OneShown DEF ClientTypes
    <3> QED
      BY <2>3, <3>1, <3>2, <3>3
  <2> QED
    BY <1>1, <1>2, <1>3, <2>1, <2>2, <2>4, ShownReceive
<1>5. CASE OutputEnds(s)
  <2>1. UNCHANGED <<shown, down>> /\ outp'[s] = "done"
    BY <1>5 DEF OutputEnds, client, AttachTypes
  <2>2. \A t \in 1..n : Reads(t)' => Reads(t)
    BY <1>3
  <2>3. pc' \in Asking => pc \in Asking /\ n \in 1..n
    BY <1>1, AskingAlone
  <2> QED
    BY <1>1, <2>1, <2>2, <2>3, ShownStill
<1> QED
  BY <1>4, <1>5 DEF PumpOutput

(* The session of the main goroutine begins: the backlog is shown, and one goroutine reads on. *)
LEMMA ShownBegin ==
  ASSUME StateTypes, ShownInv, pc = "ready", pc' \notin Asking, shown' = shown \o Items(n, backlog),
         UNCHANGED <<n, sent, down>>, \A t \in 1..n : t # n => (Reads(t)' => Reads(t))
  PROVE  ShownInv'
<1> USE DEF StateTypes
<1>1. n \in Sessions /\ n \in 1..n /\ n \in Nat
  BY AskingAlone DEF Asking, ClientTypes
<1>2. PICK m \in Nat, v \in Seq(Item), q \in Seq(Frame), b \in Seq(DataFrame) :
        m = sent[n] /\ v = shown /\ q = down[n] /\ b = backlog
  BY <1>1 DEF ClientTypes
<1>3. BacklogFits(n, m, v, q, b)
  BY <1>2 DEF ShownInv, Asking
<1>4. PICK c : c = Items(n, b) /\ c \in Seq(Mine(n))
  BY ItemsType
<1>5. ChunksFit(n, m, v \o c, q, TRUE)
  BY <1>1, <1>3, <1>4, BacklogShown
<1>6. shown' \in Seq((1..n) \X Nat)
  BY <1>1, <1>2, <1>4, ShownGrows DEF ShownInv
<1>7. \A t : t # n => ShownBy(shown', t) = ShownBy(shown, t)
  BY <1>1, <1>2, <1>4, ShownAdd
<1>8. ChunksFit(n, sent'[n], shown', down'[n], Reads(n)')
  <2>1. ChunksFit(n, m, v \o c, q, Reads(n)')
    BY <1>5 DEF ChunksFit
  <2> QED
    BY <1>2, <1>4, <2>1
<1> QED
  BY <1>1, <1>6, <1>7, <1>8, ShownMoves

LEMMA ShownAttacher ==
  ASSUME StateTypes, ShownInv, Attacher, UNCHANGED script
  PROVE  ShownInv'
<1> USE DEF StateTypes
<1>1. UNCHANGED <<n, sent, down, backlog, collects>> /\ pc' \notin Asking
  BY DEF Attacher, Begin, SessionEnds, Restore, Again, Retry, AttachExit, Goto, Fails, Asking, script
<1>2. CASE UNCHANGED <<shown, outp>>
  <2>1. \A t \in 1..n : Reads(t)' => Reads(t)
    BY <1>1, <1>2 DEF Reads
  <2> QED
    BY <1>1, <1>2, <2>1, ShownStill
<1>3. CASE pc = "ready" /\ shown' = shown \o Items(n, backlog) /\ outp' = [outp EXCEPT ![n] = "read"]
  <2>1. \A t \in 1..n : t # n => (Reads(t)' => Reads(t))
    BY <1>1, <1>3, MineIs DEF Reads, AttachTypes
  <2> QED
    BY <1>1, <1>3, <2>1, ShownBegin
<1> QED
  BY <1>2, <1>3 DEF Attacher, Begin, BeginWith, Show, Goto, SessionEnds, Restore, Again, Retry, attach

LEMMA ShownRunner ==
  ASSUME StateTypes, ShownInv, Runner, UNCHANGED attach
  PROVE  ShownInv'
<1> USE DEF StateTypes
<1>1. UNCHANGED <<n, sent, down, backlog, outp>> /\ pc' \notin Asking
  BY DEF Runner, RunReady, LinkLost, SendOrSleep, SendBlocks, SendFails, WaitBegins, WaitHit, WaitMiss, WaitAgain,
         WaitTimeout, Settle, Goto, Fails, Asking, attach
<1>2. CASE UNCHANGED <<shown, collects>>
  <2>1. \A t \in 1..n : Reads(t)' => Reads(t)
    BY <1>1, <1>2 DEF Reads
  <2> QED
    BY <1>1, <1>2, <2>1, ShownStill
<1>3. CASE pc = "ready" /\ shown' = shown \o Items(n, backlog)
  <2>1. \A t \in 1..n : t # n => (Reads(t)' => Reads(t))
    BY <1>1 DEF Reads
  <2> QED
    BY <1>1, <1>3, <2>1, ShownBegin
<1> QED
  BY <1>2, <1>3 DEF Runner, RunReady, Feed, LinkLost, SendOrSleep, SendBlocks, SendFails, WaitBegins, WaitHit, WaitMiss,
                    WaitAgain, WaitTimeout, Settle, script

LEMMA ShownCollector ==
  ASSUME StateTypes, ShownInv, Collector, UNCHANGED attach
  PROVE  ShownInv'
<1> USE DEF StateTypes
<1>1. /\ n \in Sessions /\ n \in 1..n /\ collects /\ cmd = "run" /\ Reads(n)
      /\ UNCHANGED <<n, pc, sent, backlog, outp>>
      /\ \A t \in 1..n : t # n => (Reads(t)' => Reads(t))
  <2>1. collects /\ UNCHANGED <<n, pc, sent, backlog, outp>>
    BY DEF Collector, Collect, CollectEnds, client, attach
  <2>2. n \in Sessions /\ n \in 1..n /\ cmd = "run"
    BY <2>1, MineIs DEF Course
  <2> QED
    BY <2>1, <2>2 DEF Reads
<1>2. CASE Collect
  <2>1. PICK f \in Frame : f = Head(down[n])
    BY <1>1, <1>2, TakeType DEF Collect
  <2>2. CanRead(n) /\ Take(n)
    BY <1>2 DEF Collect
  <2>3. shown' = shown \o One(n, f)
    BY <1>2, <2>1, OneShown DEF Collect, Feed, ClientTypes
  <2> QED
    BY <1>1, <2>1, <2>2, <2>3, ShownReceive
<1>3. CASE CollectEnds
  <2>1. UNCHANGED <<shown, down>> /\ collects' = FALSE
    BY <1>3 DEF CollectEnds, client
  <2>2. \A t \in 1..n : Reads(t)' => Reads(t)
    BY <1>1, <2>1 DEF Reads
  <2>3. pc' \in Asking => pc \in Asking /\ n \in 1..n
    BY <1>1
  <2> QED
    BY <1>1, <2>1, <2>2, <2>3, ShownStill
<1> QED
  BY <1>2, <1>3 DEF Collector

LEMMA ShownNext == StateTypes /\ ShownInv /\ [Next]_vars => ShownInv'
<1> SUFFICES ASSUME StateTypes, ShownInv, [Next]_vars PROVE ShownInv'
  OBVIOUS
<1>0. ASSUME UNCHANGED <<n, shown, sent, backlog, down, outp, collects>>, pc' = pc \/ pc' \notin Asking
      PROVE  ShownInv'
  <2>1. \A t \in 1..n : Reads(t)' => Reads(t)
    BY <1>0 DEF Reads
  <2> QED
    BY <1>0, <2>1, AskingAlone, ShownStill
<1>1. CASE Main
  BY <1>1, ShownCommon, ShownAttacher, ShownRunner DEF Main
<1>2. ASSUME NEW s \in Sessions, Goroutines(s) PROVE ShownInv'
  <2>1. CASE PumpInput(s) \/ Heartbeat(s) \/ PipeFills(s)
    <3>1. UNCHANGED <<n, shown, sent, backlog, down, outp, collects, pc>>
      BY <1>2, <2>1 DEF Goroutines, PumpInput, ReadKeys, WriteFails, EndOfInput, Unpark, Heartbeat,
            PipeFills, WriteBlocks, PingBlocks, client, attach, script
    <3> QED
      BY <1>0, <3>1
  <2> QED
    BY <1>2, <2>1, ShownOutput DEF Goroutines
<1>3. CASE Collecting
  BY <1>3, ShownCollector DEF Collecting
<1>4. CASE User
  <2>1. UNCHANGED <<n, shown, sent, backlog, down, outp, collects>> /\ (pc' = pc \/ pc' \notin Asking)
    BY <1>4 DEF User, Type, CloseInput, Signal, Interrupt, Goto, client, attach, script, Asking
  <2> QED
    BY <1>0, <2>1
<1>5. CASE Daemon
  BY <1>5, ShownOutside DEF Daemon
<1>6. CASE UNCHANGED vars
  <2>1. UNCHANGED <<n, shown, sent, backlog, down, outp, collects, pc>>
    BY <1>6 DEF vars, client, attach, script
  <2> QED
    BY <1>0, <2>1
<1> QED
  BY <1>1, <1>2, <1>3, <1>4, <1>5, <1>6 DEF Next, Exited

----------------------------------------------------------------------------
(* What is shown is new; the log follows it. *)

LEMMA ItemsNew ==
  ASSUME NEW s \in Sessions, NEW m \in Nat, NEW v \in Seq(Item), NEW c \in Seq(Mine(s)),
         IsPrefix(ShownBy(v \o c, s), SentOf(s, m))
  PROVE  /\ ToSet(c) \intersect ToSet(v) = {}
         /\ \A i \in 1..Len(c) : c[i] = <<s, Len(ShownBy(v, s)) + i>>
<1>1. PICK a, b : a = ShownBy(v, s) /\ b = SentOf(s, m)
  OBVIOUS
<1>2. a \in Seq(Item) /\ b \in Seq(Item) /\ c \in Seq(Item)
  <2>1. Mine(s) \subseteq Item
    BY DEF Item, Mine
  <2>2. b \in Seq(Mine(s))
    BY <1>1, SentType DEF SentOf
  <2>3. a \in Seq(Item)
    BY <1>1, OnlyType DEF ShownBy
  <2> QED
    BY <2>1, <2>2, <2>3, SeqMonotonic
<1>3. PICK w : w = a \o c /\ w \in Seq(Item)
  BY <1>2, ConcatProperties
<1>4. IsPrefix(w, b)
  BY <1>1, <1>3, ShownAdd
<1>5. /\ Len(w) = Len(a) + Len(c) /\ Len(a) \in Nat /\ Len(c) \in Nat
      /\ \A i \in 1..Len(a) : w[i] = a[i]
      /\ \A i \in 1..Len(c) : w[Len(a) + i] = c[i]
  BY <1>2, <1>3
<1>6. Len(w) <= Len(b) /\ \A i \in 1..Len(w) : w[i] = b[i]
  <2>1. w \in Seq(Item) /\ b \in Seq(Item)
    BY <1>2, <1>3
  <2> QED
    BY <1>4, <2>1, PrefixIs
<1>7. Len(b) = m /\ \A i \in 1..m : b[i] = <<s, i>>
  BY <1>1, SentType DEF SentOf
<1>8. \A i \in 1..Len(w) : w[i] = <<s, i>>
  BY <1>5, <1>6, <1>7
<1>9. \A i \in 1..Len(c) : c[i] = <<s, Len(a) + i>>
  <2> TAKE i \in 1..Len(c)
  <2>1. Len(a) + i \in 1..Len(w)
    BY <1>5
  <2> QED
    BY <1>5, <1>8, <2>1
<1>10. \A i \in 1..Len(a) : a[i] = <<s, i>>
  <2> TAKE i \in 1..Len(a)
  <2>1. i \in 1..Len(w)
    BY <1>5
  <2> QED
    BY <1>5, <1>8, <2>1
<1>11. ASSUME NEW y, y \in ToSet(c), y \in ToSet(v) PROVE FALSE
  <2>1. PICK i \in 1..Len(c) : y = c[i]
    BY <1>11 DEF ToSet
  <2>2. y \in Mine(s)
    BY <2>1, ElementOfSeq
  <2>3. y \in ToSet(a)
    BY <1>1, <1>11, <2>2, OnlyKeeps DEF ShownBy
  <2>4. PICK j \in 1..Len(a) : y = a[j]
    BY <1>2, <2>3 DEF ToSet
  <2>5. <<s, Len(a) + i>> = <<s, j>>
    BY <1>9, <1>10, <2>1, <2>4
  <2>6. Len(a) + i = j
    BY <2>5
  <2> QED
    BY <1>5, <2>6
<1> QED
  BY <1>1, <1>9, <1>11

LEMMA SeqOfItsSet ==
  ASSUME NEW X, NEW q \in Seq(X)
  PROVE  q \in Seq(ToSet(q))
BY DEF ToSet

LEMMA LogKept ==
  ASSUME NEW v \in Seq(Item), NEW w \in Seq(Item), NEW c \in Seq(Item),
         ToSet(c) \intersect ToSet(v) = {}, LogFits(v, w)
  PROVE  LogFits(v \o c, w) /\ LogFits(v \o c, w \o c)
<1>1. PICK V, W, C : V = ToSet(v) /\ W = ToSet(w) /\ C = ToSet(c)
  OBVIOUS
<1>2. v \in Seq(V) /\ c \in Seq(C) /\ W \subseteq V /\ C \intersect V = {} /\ w = Only(v, W)
  BY <1>1, SeqOfItsSet DEF LogFits
<1>3. ToSet(v \o c) = V \union C /\ ToSet(w \o c) = W \union C
  BY <1>1, ToSetConcat
<1>4. \A S : Only(v \o c, S) = Only(v, S) \o Only(c, S)
  BY OnlyConcat
<1>5. LogFits(v \o c, w)
  <2>1. C \intersect W = {}
    BY <1>2
  <2>2. Only(c, W) = <<>>
    BY <1>2, <2>1, OnlyNone
  <2>3. w \o <<>> = w
    BY ConcatEmptySeq
  <2> QED
    BY <1>1, <1>2, <1>3, <1>4, <2>2, <2>3 DEF LogFits
<1>6. LogFits(v \o c, w \o c)
  <2>1. PICK T : T = W \union C
    OBVIOUS
  <2>2. Only(c, T) = c
    BY <1>2, <2>1, OnlyAll
  <2>3. V \intersect T = V \intersect W
    BY <1>2, <2>1
  <2>4. Only(v, T) = Only(v, W)
    BY <1>2, <2>3, OnlySame
  <2>5. w \o c = Only(v \o c, ToSet(w \o c))
    BY <1>2, <1>3, <1>4, <2>1, <2>2, <2>4
  <2>6. ToSet(w \o c) \subseteq ToSet(v \o c)
    BY <1>2, <1>3
  <2> QED
    BY <2>5, <2>6 DEF LogFits
<1> QED
  BY <1>5, <1>6

(* What a step shows: nothing, or items of one session, which the log may get as well. *)
Shows(s, c) == /\ s \in 1..n /\ n' = n /\ c \in Seq(Mine(s))
               /\ shown' = shown \o c /\ logged' \in {logged, logged \o c}

LEMMA WhatIsShown ==
  ASSUME StateTypes, [Next]_vars
  PROVE  UNCHANGED <<shown, logged>> \/ \E s \in Sessions : \E c : Shows(s, c)
<1> USE DEF StateTypes
<1>0. DEFINE Goal == UNCHANGED <<shown, logged>> \/ \E s \in Sessions : \E c : Shows(s, c)
<1>1. CASE Main
  <2>1. CASE Common /\ UNCHANGED <<attach, script>>
    BY <2>1 DEF Common, Dispatch, BadUsage, Dial, DialFails, Handshake, Hello, OpenPort, Ask, ReadUntil,
                ReadFails, Close, Exit, attach, local
  <2>2. CASE Begin
    <3>1. CASE UNCHANGED <<shown, logged>>
      BY <3>1
    <3>2. CASE pc = "ready" /\ Show(n, Items(n, backlog)) /\ UNCHANGED n
      <4>1. n \in Sessions /\ n \in 1..n
        BY <3>2, AskingAlone DEF Asking
      <4>2. Items(n, backlog) \in Seq(Mine(n))
        BY ItemsType DEF ClientTypes
      <4>3. Shows(n, Items(n, backlog))
        BY <3>2, <4>1, <4>2 DEF Shows, Show
      <4> QED
        BY <4>1, <4>3
    <3> QED
      BY <2>2, <3>1, <3>2 DEF Begin, BeginWith, Goto
  <2>3. CASE SessionEnds \/ Restore \/ Again \/ Retry
    BY <2>3 DEF SessionEnds, Restore, Again, Retry, attach, local
  <2>4. CASE RunReady /\ UNCHANGED attach
    <3>0. UNCHANGED logged
      BY <2>4 DEF attach, local
    <3>1. CASE UNCHANGED shown
      BY <3>0, <3>1
    <3>2. CASE pc = "ready" /\ shown' = shown \o Items(n, backlog) /\ UNCHANGED n
      <4>1. n \in Sessions /\ n \in 1..n
        BY <3>2, AskingAlone DEF Asking
      <4>2. Items(n, backlog) \in Seq(Mine(n))
        BY ItemsType DEF ClientTypes
      <4>3. Shows(n, Items(n, backlog))
        BY <3>0, <3>2, <4>1, <4>2 DEF Shows
      <4> QED
        BY <4>1, <4>3
    <3> QED
      BY <2>4, <3>1, <3>2 DEF RunReady, Feed, Goto
  <2>5. CASE /\ LinkLost \/ SendOrSleep \/ SendBlocks \/ SendFails \/ WaitBegins \/ WaitHit \/ WaitMiss \/ WaitAgain \/ WaitTimeout \/ Settle
             /\ UNCHANGED attach
    BY <2>5 DEF LinkLost, SendOrSleep, SendBlocks, SendFails, WaitBegins, WaitHit, WaitMiss, WaitAgain, WaitTimeout, Settle, attach, local
  <2> QED
    BY <1>1, <2>1, <2>2, <2>3, <2>4, <2>5 DEF Main, Attacher, Runner
<1>2. ASSUME NEW s \in Sessions, Goroutines(s)
      PROVE  UNCHANGED <<shown, logged>> \/ \E t \in Sessions : \E c : Shows(t, c)
  <2>1. CASE PumpInput(s) \/ Heartbeat(s) \/ PipeFills(s) \/ OutputEnds(s)
    BY <2>1 DEF PumpInput, ReadKeys, WriteFails, EndOfInput, Unpark, Heartbeat, OutputEnds, PipeFills,
                WriteBlocks, PingBlocks, client, attach, local
  <2>2. CASE Receive(s)
    <3>1. s \in 1..n /\ UNCHANGED n
      <4>1. ~Unused(s)
        BY <2>2 DEF Receive, Unused
      <4> QED
        BY <2>2, <4>1, UsedIs DEF Receive
    <3>2. PICK f \in Frame : f = Head(down[s])
      BY <2>2, TakeType DEF Receive
    <3>3. CASE f.op = "data" /\ Show(s, Items(s, <<f>>))
      <4>1. <<f>> \in Seq(DataFrame)
        BY <3>3, DataFrames
      <4>2. Items(s, <<f>>) \in Seq(Mine(s))
        BY <4>1, ItemsType
      <4>3. Shows(s, Items(s, <<f>>))
        BY <3>1, <3>3, <4>2 DEF Shows, Show
      <4> QED
        BY <4>3
    <3>4. CASE UNCHANGED <<shown, logged>>
      BY <3>4
    <3> QED
      BY <2>2, <3>2, <3>3, <3>4 DEF Receive
  <2> QED
    BY <1>2, <2>1, <2>2 DEF Goroutines, PumpOutput
<1>3. CASE Collecting
  <2>0. UNCHANGED logged
    BY <1>3 DEF Collecting, attach, local
  <2>1. CASE CollectEnds
    BY <2>0, <2>1 DEF CollectEnds, client
  <2>2. CASE Collect
    <3>1. n \in Sessions /\ n \in 1..n /\ UNCHANGED n
      BY <2>2, MineIs DEF Collect, Course
    <3>2. PICK f \in Frame : f = Head(down[n])
      BY <2>2, <3>1, TakeType DEF Collect
    <3>3. CASE f.op = "data" /\ shown' = shown \o Items(n, <<f>>)
      <4>1. <<f>> \in Seq(DataFrame)
        BY <3>3, DataFrames
      <4>2. Items(n, <<f>>) \in Seq(Mine(n))
        BY <4>1, ItemsType
      <4>3. Shows(n, Items(n, <<f>>))
        BY <2>0, <3>1, <3>3, <4>2 DEF Shows
      <4> QED
        BY <3>1, <4>3
    <3>4. CASE UNCHANGED shown
      BY <2>0, <3>4
    <3> QED
      BY <2>2, <3>2, <3>3, <3>4 DEF Collect, Feed
  <2> QED
    BY <1>3, <2>1, <2>2 DEF Collecting, Collector
<1>4. CASE User
  BY <1>4 DEF User, Type, CloseInput, Signal, Interrupt, client, attach, local
<1>5. CASE Daemon
  BY <1>5 DEF Daemon, Outside, Answer, Data, Remark, LinkFails, KeepAlive, attach, local
<1>6. CASE UNCHANGED vars
  BY <1>6 DEF vars, client, attach, local
<1> QED
  BY <1>1, <1>2, <1>3, <1>4, <1>5, <1>6 DEF Next, Exited

(* So it is new. *)
LEMMA ShowsNew ==
  ASSUME StateTypes, StateTypes', ShownInv', NEW s \in Sessions, NEW c, Shows(s, c)
  PROVE  /\ ToSet(c) \intersect ToSet(shown) = {}
         /\ \A i \in 1..Len(c) : c[i] = <<s, Len(ShownBy(shown, s)) + i>>
<1>1. ChunksFit(s, sent'[s], shown', down'[s], Reads(s)')
  BY DEF Shows, ShownInv
<1>2. IsPrefix(ShownBy(shown', s), SentOf(s, sent'[s]))
  BY <1>1 DEF ChunksFit
<1>3. PICK m \in Nat, v \in Seq(Item) : m = sent'[s] /\ v = shown
  BY DEF StateTypes, ClientTypes
<1>4. c \in Seq(Mine(s)) /\ shown' = v \o c
  BY <1>3 DEF Shows
<1>5. IsPrefix(ShownBy(v \o c, s), SentOf(s, m))
  BY <1>2, <1>3, <1>4
<1> QED
  BY <1>3, <1>4, <1>5, ItemsNew

LEMMA LoggedNext == StateTypes /\ ShownInv' /\ LoggedInv /\ [Next]_vars => LoggedInv'
<1> SUFFICES ASSUME StateTypes, ShownInv', LoggedInv, [Next]_vars PROVE LoggedInv'
  OBVIOUS
<1>0. StateTypes'
  BY TypesNext
<1>1. CASE UNCHANGED <<shown, logged>>
  BY <1>1 DEF LoggedInv
<1>2. ASSUME NEW s \in Sessions, NEW c, Shows(s, c) PROVE LoggedInv'
  <2>1. PICK v \in Seq(Item), w \in Seq(Item) : v = shown /\ w = logged
    BY DEF StateTypes, ClientTypes, AttachTypes
  <2>2. c \in Seq(Item) /\ ToSet(c) \intersect ToSet(v) = {}
    <3>1. Mine(s) \subseteq Item
      BY DEF Mine, Item
    <3>2. c \in Seq(Item)
      BY <1>2, <3>1, SeqMonotonic DEF Shows
    <3> QED
      BY <1>0, <1>2, <2>1, <3>2, ShowsNew
  <2>3. LogFits(v \o c, w) /\ LogFits(v \o c, w \o c)
    BY <2>1, <2>2, LogKept DEF LoggedInv
  <2> QED
    BY <1>2, <2>1, <2>3 DEF Shows, LoggedInv
<1> QED
  BY <1>1, <1>2, WhatIsShown

----------------------------------------------------------------------------
(* The transcript is the end of what was shown. *)

LEMMA WaitFed ==
  ASSUME NEW z \in Nat, NEW b \in Seq(DataFrame), NEW c, NEW l, WaitFits(z, b, c, l),
         NEW q \in Seq(DataFrame), \A i \in 1..Len(q) : q[i].k = z + i,
         NEW o, NEW b1, Cut(b \o q, o, b1)
  PROVE  WaitFits(z + Len(q), b1, IF c > o THEN c - o ELSE 0, l)
<1>1. PICK x \in Nat, y \in Nat : x = Len(b) /\ y = Len(q)
  OBVIOUS
<1>2. PICK w : w = b \o q
  OBVIOUS
<1>3. /\ Len(w) = x + y
      /\ \A i \in 1..x : w[i] = b[i]
      /\ \A i \in 1..y : w[x + i] = q[i]
  BY <1>1, <1>2
<1>4. x <= z /\ l \in 0..z /\ \A i \in 1..x : b[i].k = z - x + i
  BY <1>1 DEF WaitFits
<1>5. c = IF l > z - x THEN l - (z - x) ELSE 0
  BY <1>1 DEF WaitFits
<1>6. o \in 0..(x + y) /\ Len(b1) = x + y - o /\ \A i \in 1..Len(b1) : b1[i] = w[o + i]
  BY <1>2, <1>3 DEF Cut
<1>7. \A i \in 1..Len(b1) : b1[i].k = (z + y) - Len(b1) + i
  <2> TAKE i \in 1..Len(b1)
  <2>1. CASE o + i <= x
    <3>1. o + i \in 1..x
      BY <1>1, <1>6, <2>1
    <3>2. b1[i] = b[o + i] /\ b[o + i].k = z - x + (o + i)
      BY <1>3, <1>4, <1>6, <3>1
    <3>3. PICK p : p = Len(b1)
      OBVIOUS
    <3>4. p = x + y - o /\ o \in Nat /\ i \in Nat
      BY <1>1, <1>6, <3>3
    <3>5. z - x + (o + i) = (z + y) - p + i
      BY <3>4
    <3> QED
      BY <3>2, <3>3, <3>5
  <2>2. CASE o + i > x
    <3>1. PICK j : j = o + i - x
      OBVIOUS
    <3>2. j \in 1..y /\ o + i = x + j
      BY <1>1, <1>6, <2>2, <3>1
    <3>3. b1[i].k = z + j
      BY <1>1, <1>3, <1>6, <3>2
    <3>4. PICK p : p = Len(b1)
      OBVIOUS
    <3>5. p = x + y - o /\ o \in Nat /\ i \in Nat
      BY <1>1, <1>6, <3>4
    <3>6. z + j = (z + y) - p + i
      BY <3>2, <3>5
    <3> QED
      BY <3>3, <3>4, <3>6
  <2> QED
    BY <1>1, <1>6, <2>1, <2>2
<1>8. Len(b1) <= z + y /\ l \in 0..(z + y)
  BY <1>1, <1>4, <1>6
<1>9. (IF c > o THEN c - o ELSE 0) = IF l > (z + y) - Len(b1) THEN l - ((z + y) - Len(b1)) ELSE 0
  BY <1>1, <1>4, <1>5, <1>6
<1> QED
  BY <1>1, <1>7, <1>8, <1>9 DEF WaitFits

LEMMA WaitMet ==
  ASSUME NEW z \in Nat, NEW b \in Seq(DataFrame), NEW c, NEW l, WaitFits(z, b, c, l),
         NEW f \in 1..Len(b)
  PROVE  WaitFits(z, b, f, b[f].k)
<1>1. PICK x \in Nat : x = Len(b)
  OBVIOUS
<1>2. x <= z /\ f \in 1..x /\ \A i \in 1..x : b[i].k = z - x + i
  BY <1>1 DEF WaitFits
<1>3. PICK l1 : l1 = b[f].k
  OBVIOUS
<1>4. l1 = z - x + f
  BY <1>2, <1>3
<1>5. l1 \in 0..z /\ f = IF l1 > z - x THEN l1 - (z - x) ELSE 0
  BY <1>1, <1>2, <1>4
<1> QED
  BY <1>1, <1>2, <1>3, <1>5 DEF WaitFits

LEMMA WaitFeeds ==
  ASSUME StateTypes, StateTypes', ShownInv, ShownInv', WaitInv, cmd = "run", UNCHANGED <<n, hits, logged>>,
         n \in 1..n, n \in Sessions, NEW q \in Seq(DataFrame), Feed(n, q)
  PROVE  WaitInv'
<1> USE DEF StateTypes
<1>1. PICK z \in Nat, v \in Seq(Item), b \in Seq(DataFrame), s \in Sessions :
        z = Len(shown) /\ v = shown /\ b = buf /\ s = n
  BY DEF ClientTypes, ScriptTypes
<1>2. PICK c : c = Items(s, q)
  OBVIOUS
<1>3. c \in Seq(Mine(s)) /\ Len(c) = Len(q) /\ \A i \in 1..Len(q) : c[i] = <<s, q[i].k>>
  BY <1>2, ItemsType DEF Items
<1>4. /\ shown' = v \o c
      /\ Cut(b \o q, Over(b \o q), buf')
      /\ consumed' = IF consumed > Over(b \o q) THEN consumed - Over(b \o q) ELSE 0
  BY <1>1, <1>2, FeedType DEF ClientTypes, Shift
<1>5. Shows(s, c)
  BY <1>1, <1>3, <1>4 DEF Shows
<1>6. \A i \in 1..Len(c) : c[i] = <<s, Len(ShownBy(shown, s)) + i>>
  BY <1>5, ShowsNew
<1>7. ShownBy(v, s) = v
  <2>1. s = 1
    BY <1>1 DEF Course, ClientTypes
  <2>2. v \in Seq((1..s) \X Nat)
    BY <1>1 DEF ShownInv
  <2>3. (1..s) \X Nat \subseteq Mine(s)
    BY <2>1 DEF Mine
  <2> QED
    BY <2>2, <2>3, OnlyAll DEF ShownBy
<1>8. \A i \in 1..Len(q) : q[i].k = z + i
  <2> TAKE i \in 1..Len(q)
  <2>1. <<s, q[i].k>> = <<s, z + i>>
    BY <1>1, <1>3, <1>6, <1>7
  <2> QED
    BY <2>1
<1>9. WaitFits(z, b, consumed, LastHit)
  BY <1>1 DEF WaitInv
<1>10. WaitFits(z + Len(q), buf', consumed', LastHit)
  <2>1. PICK o, k, l, b1 : o = Over(b \o q) /\ k = consumed /\ l = LastHit /\ b1 = buf'
    OBVIOUS
  <2>2. WaitFits(z, b, k, l) /\ Cut(b \o q, o, b1) /\ consumed' = IF k > o THEN k - o ELSE 0
    BY <1>4, <1>9, <2>1
  <2>3. WaitFits(z + Len(q), b1, IF k > o THEN k - o ELSE 0, l)
    BY <1>8, <2>2, WaitFed
  <2> QED
    BY <2>1, <2>2, <2>3
<1>11. Len(shown') = z + Len(q)
  <2>1. Mine(s) \subseteq Item
    BY DEF Item, Mine
  <2>2. c \in Seq(Item)
    BY <1>3, <2>1, SeqMonotonic
  <2>3. Len(v \o c) = Len(v) + Len(c)
    BY <2>2, ConcatProperties
  <2> QED
    BY <1>1, <1>3, <1>4, <2>3
<1>12. LastHit' = LastHit
  BY DEF LastHit
<1> QED
  BY <1>10, <1>11, <1>12 DEF WaitInv

LEMMA WaitStill ==
  ASSUME WaitInv, UNCHANGED <<cmd, shown, buf, consumed, hits>>
  PROVE  WaitInv'
BY DEF WaitInv, LastHit

LEMMA WaitNext == StateTypes /\ ShownInv /\ ShownInv' /\ WaitInv /\ [Next]_vars => WaitInv'
<1> SUFFICES ASSUME StateTypes, ShownInv, ShownInv', WaitInv, [Next]_vars PROVE WaitInv'
  OBVIOUS
<1>0. StateTypes'
  BY TypesNext
<1> USE DEF StateTypes
<1>1. CASE Main
  <2>1. CASE Common /\ UNCHANGED <<attach, script>>
    BY <2>1, WaitStill DEF Common, Dispatch, BadUsage, Dial, DialFails, Handshake, Hello, OpenPort, Ask,
         ReadUntil, ReadFails, Close, Exit, script
  <2>2. CASE Attacher /\ UNCHANGED script
    <3>1. CASE Begin
      BY <2>2, <3>1 DEF Begin, WaitInv
    <3>2. CASE SessionEnds \/ Restore \/ Again \/ Retry
      BY <2>2, <3>2, WaitStill DEF SessionEnds, Restore, Again, Retry, script
    <3> QED
      BY <2>2, <3>1, <3>2 DEF Attacher
  <2>3. CASE Runner /\ UNCHANGED attach
    <3>1. CASE RunReady
      <4>1. UNCHANGED <<cmd, n, hits, logged>> /\ cmd = "run" /\ pc = "ready"
        BY <2>3, <3>1 DEF RunReady, attach, local
      <4>2. CASE UNCHANGED <<buf, consumed, shown>>
        BY <4>1, <4>2, WaitStill
      <4>3. CASE Feed(n, backlog)
        <5>1. n \in 1..n /\ n \in Sessions
          BY <4>1, AskingAlone DEF Asking
        <5>2. backlog \in Seq(DataFrame)
          BY DEF ClientTypes
        <5> QED
          BY <1>0, <4>1, <4>3, <5>1, <5>2, WaitFeeds
      <4> QED
        BY <3>1, <4>2, <4>3 DEF RunReady
    <3>2. CASE WaitHit
      <4>1. /\ consumed' = First /\ hits' = Append(hits, buf[First].k) /\ First \in 1..Len(buf)
            /\ UNCHANGED <<cmd, shown, buf>> /\ buf[First] \in DataFrame
        BY <3>2, FirstIs DEF WaitHit
      <4>2. LastHit' = buf[First].k
        <5>1. PICK h \in Seq(Nat), x \in Nat : h = hits /\ x = buf[First].k
          BY <4>1 DEF ScriptTypes, DataFrame
        <5>2. Append(h, x) # <<>> /\ Last(Append(h, x)) = x
          BY <5>1, AppendProperties DEF Last
        <5> QED
          BY <4>1, <5>1, <5>2 DEF LastHit
      <4>3. CASE cmd = "run"
        <5>0. Len(shown) \in Nat /\ buf \in Seq(DataFrame)
          BY DEF ClientTypes, ScriptTypes
        <5>1. PICK z, b, c, l, f :
                /\ z \in Nat /\ b \in Seq(DataFrame)
                /\ z = Len(shown) /\ b = buf /\ c = consumed /\ l = LastHit
                /\ f = First /\ f \in 1..Len(b)
          BY <4>1, <5>0, Zenon
        <5>2. WaitFits(z, b, c, l)
          BY <4>3, <5>1 DEF WaitInv
        <5>3. WaitFits(z, b, f, b[f].k)
          BY <5>1, <5>2, WaitMet
        <5>4. WaitFits(Len(shown'), buf', consumed', LastHit')
          BY <4>1, <4>2, <5>1, <5>3
        <5> QED
          BY <5>4 DEF WaitInv
      <4> QED
        BY <4>1, <4>3 DEF WaitInv
    <3>3. CASE LinkLost \/ SendOrSleep \/ SendBlocks \/ SendFails \/ WaitBegins \/ WaitMiss \/ WaitAgain \/ WaitTimeout \/ Settle
      BY <2>3, <3>3, WaitStill DEF LinkLost, SendOrSleep, SendBlocks, SendFails, WaitBegins, WaitMiss, WaitAgain, WaitTimeout,
           Settle, script
    <3> QED
      BY <2>3, <3>1, <3>2, <3>3 DEF Runner
  <2> QED
    BY <1>1, <2>1, <2>2, <2>3 DEF Main
<1>2. ASSUME NEW s \in Sessions, Goroutines(s) PROVE WaitInv'
  <2>1. CASE PumpInput(s) \/ Heartbeat(s) \/ PipeFills(s) \/ OutputEnds(s)
    BY <1>2, <2>1, WaitStill DEF Goroutines, PumpInput, ReadKeys, WriteFails, EndOfInput, Unpark, Heartbeat, OutputEnds,
         PipeFills, WriteBlocks, PingBlocks, client, script
  <2>2. CASE Receive(s)
    <3>1. cmd = "attach" /\ cmd' = cmd
      <4>1. ~Unused(s)
        BY <2>2 DEF Receive, Unused
      <4> QED
        BY <2>2, <4>1 DEF Begun, Receive
    <3> QED
      BY <3>1 DEF WaitInv
  <2> QED
    BY <1>2, <2>1, <2>2 DEF Goroutines, PumpOutput
<1>3. CASE Collecting
  <2>1. CASE CollectEnds
    BY <2>1, WaitStill DEF CollectEnds, client
  <2>2. CASE Collect
    <3>1. n \in Sessions /\ n \in 1..n /\ cmd = "run" /\ UNCHANGED <<cmd, n, hits, logged>>
      BY <1>3, <2>2, MineIs DEF Collect, Course, Collecting, attach, local
    <3>2. PICK f \in Frame : f = Head(down[n])
      BY <2>2, <3>1, TakeType DEF Collect
    <3>3. CASE f.op = "data"
      <4>1. <<f>> \in Seq(DataFrame)
        BY <3>3, DataFrames
      <4>2. Feed(n, <<f>>)
        BY <2>2, <3>2, <3>3 DEF Collect
      <4> QED
        BY <1>0, <3>1, <4>1, <4>2, WaitFeeds
    <3>4. CASE f.op # "data"
      BY <2>2, <3>1, <3>2, <3>4, WaitStill DEF Collect
    <3> QED
      BY <3>3, <3>4
  <2> QED
    BY <1>3, <2>1, <2>2 DEF Collecting, Collector
<1>4. CASE User
  BY <1>4, WaitStill DEF User, Type, CloseInput, Signal, Interrupt, client, script
<1>5. CASE Daemon
  BY <1>5, WaitStill DEF Daemon, Outside, Answer, Data, Remark, LinkFails, KeepAlive, script
<1>6. CASE UNCHANGED vars
  BY <1>6, WaitStill DEF vars, client, script
<1> QED
  BY <1>1, <1>2, <1>3, <1>4, <1>5, <1>6 DEF Next, Exited

----------------------------------------------------------------------------
(* The inductive invariant. *)

LEMMA SessionInit == Init => SessionInv
<1> SUFFICES ASSUME Init PROVE SessionInv
  OBVIOUS
<1>1. StateTypes
  BY TypesInit
<1>2. n = 0 /\ pc = "main" /\ shown = <<>> /\ logged = <<>> /\ buf = <<>> /\ consumed = 0 /\ hits = <<>>
  BY DEF Init, ClientInit, AttachInit, ScriptInit
<1>3. 1..n = {}
  BY <1>2
<1>4. KeysInv
  BY <1>3 DEF KeysInv
<1>5. ShownInv
  <2>1. shown \in Seq((1..n) \X Nat)
    BY <1>2, EmptySeq
  <2>2. pc \notin Asking
    BY <1>2 DEF Asking
  <2> QED
    BY <1>3, <2>1, <2>2 DEF ShownInv
<1>6. LoggedInv
  <2>1. ToSet(<<>>) = {}
    BY DEF ToSet
  <2> QED
    BY <1>2, <2>1, OnlyEmpty DEF LoggedInv, LogFits
<1>7. WaitInv
  <2>1. LastHit = 0 /\ Len(shown) = 0 /\ Len(buf) = 0
    BY <1>2 DEF LastHit
  <2>2. WaitFits(0, buf, consumed, 0)
    BY <1>2, <2>1 DEF WaitFits
  <2> QED
    BY <2>1, <2>2 DEF WaitInv
<1> QED
  BY <1>1, <1>4, <1>5, <1>6, <1>7 DEF SessionInv

LEMMA SessionNext == SessionInv /\ [Next]_vars => SessionInv'
<1> SUFFICES ASSUME SessionInv, [Next]_vars PROVE SessionInv'
  OBVIOUS
<1>1. StateTypes /\ KeysInv /\ ShownInv /\ LoggedInv /\ WaitInv
  BY DEF SessionInv
<1>2. StateTypes'
  BY <1>1, TypesNext
<1>3. KeysInv'
  BY <1>1, KeysNext
<1>4. ShownInv'
  BY <1>1, ShownNext
<1>5. LoggedInv'
  BY <1>1, <1>4, LoggedNext
<1>6. WaitInv'
  BY <1>1, <1>4, WaitNext
<1> QED
  BY <1>2, <1>3, <1>4, <1>5, <1>6 DEF SessionInv

(* Whatever order the goroutines, the user and the daemon run in, the keys of each session are where  *)
(* pumpInput left them, its chunks where the pump, readUntil or the collector did, and the            *)
(* transcript of a run is the end of what was shown: what the theorems below rest on.                 *)
THEOREM SessionInvariant == Spec => []SessionInv
<1> QED
  BY SessionInit, SessionNext, PTL DEF Spec

----------------------------------------------------------------------------
(* What it says. *)

LEMMA TypesHold == StateTypes => TypeOK
<1> SUFFICES ASSUME StateTypes PROVE TypeOK
  OBVIOUS
<1>1. ClientTypes /\ AttachTypes /\ ScriptTypes
  BY DEF StateTypes
<1> QED
  BY <1>1 DEF ClientTypes, AttachTypes, ScriptTypes, TypeOK

LEMMA ShownHolds ==
  ASSUME StateTypes, ShownInv, LoggedInv
  PROVE  ConsoleComplete
<1>1. ASSUME NEW s \in 1..n
      PROVE  /\ ShownOf(s) = ShownBy(shown, s) /\ Sent(s) = SentOf(s, sent[s])
             /\ ChunksFit(s, sent[s], shown, down[s], Reads(s))
  BY <1>1 DEF ShownOf, ShownBy, Mine, Sent, SentOf, ShownInv
<1>2. \A s \in 1..n : /\ IsPrefix(ShownOf(s), Sent(s))
                      /\ outp[s] = "read" => ShownOf(s) \o DataOf(s, down[s]) = Sent(s)
  BY <1>1 DEF ChunksFit, Reads
<1>3. collects => ShownOf(n) \o DataOf(n, down[n]) = Sent(n)
  <2>1. collects => n \in 1..n
    BY DEF StateTypes, Course, ClientTypes
  <2> QED
    BY <1>1, <2>1 DEF ChunksFit, Reads
<1>4. pc = "ready" => DataOf(n, backlog) \o DataOf(n, down[n]) = Sent(n)
  BY DEF ShownInv, Asking, BacklogFits, Sent, SentOf
<1>5. logged = Only(shown, ToSet(logged))
  BY DEF LoggedInv, LogFits
<1> QED
  BY <1>2, <1>3, <1>4, <1>5 DEF ConsoleComplete

(* The chunk that ends a wait is the first match behind the one before it. *)
Next1(b, l, k) ==
  /\ k > l
  /\ \E i \in DOMAIN b : b[i].k = k /\ b[i].hit
  /\ \A i \in DOMAIN b : b[i].hit /\ b[i].k > l => k <= b[i].k

LEMMA FirstIsNext ==
  ASSUME NEW z \in Nat, NEW b \in Seq(DataFrame), NEW c, NEW l, WaitFits(z, b, c, l),
         NEW f \in 1..Len(b), f > c, b[f].hit, \A j \in 1..Len(b) : j > c /\ b[j].hit => f <= j
  PROVE  /\ Next1(b, l, b[f].k)
         /\ \A k \in {e.k : e \in {b[i] : i \in DOMAIN b}} : Next1(b, l, k) => k = b[f].k
<1>1. PICK x \in Nat : x = Len(b) /\ DOMAIN b = 1..x
  OBVIOUS
<1>2. /\ x <= z /\ l \in 0..z /\ \A i \in 1..x : b[i].k = z - x + i
      /\ c = IF l > z - x THEN l - (z - x) ELSE 0
  BY <1>1 DEF WaitFits
<1>3. f \in 1..x /\ f > c /\ \A j \in 1..x : j > c /\ b[j].hit => f <= j
  BY <1>1
<1>4. \A i \in 1..x : b[i].k > l <=> i > c
  <2> TAKE i \in 1..x
  <2>1. z - x + i > l <=> i > c
    BY <1>2
  <2> QED
    BY <1>2, <2>1
<1>5. \A i \in 1..x : b[i].hit /\ b[i].k > l => b[f].k <= b[i].k
  <2> TAKE i \in 1..x
  <2>1. SUFFICES ASSUME b[i].hit, b[i].k > l PROVE b[f].k <= b[i].k
    OBVIOUS
  <2>2. f <= i
    BY <1>3, <1>4, <2>1
  <2>3. z - x + f <= z - x + i
    BY <1>2, <1>3, <2>2
  <2> QED
    BY <1>2, <1>3, <2>3
<1>6. Next1(b, l, b[f].k)
  BY <1>1, <1>3, <1>4, <1>5 DEF Next1
<1>7. ASSUME NEW k, Next1(b, l, k) PROVE k = b[f].k
  <2>1. PICK i \in 1..x : b[i].k = k /\ b[i].hit
    BY <1>1, <1>7 DEF Next1
  <2>2. b[f].k <= k /\ k <= b[f].k
    BY <1>1, <1>3, <1>4, <1>5, <1>7, <2>1 DEF Next1
  <2>3. b[i].k \in Int /\ b[f].k \in Int
    <3>1. z - x + i \in Int /\ z - x + f \in Int
      BY <1>3
    <3>2. b[i].k = z - x + i /\ b[f].k = z - x + f
      BY <1>2, <1>3
    <3> QED
      BY <3>1, <3>2
  <2> QED
    BY <2>1, <2>2, <2>3
<1> QED
  BY <1>6, <1>7

LEMMA WaitHolds ==
  ASSUME SessionInv, [Next]_vars, hits' # hits
  PROVE  Last(hits') = CHOOSE k \in {e.k : e \in {buf[i] : i \in DOMAIN buf}} : Next1(buf, LastHit, k)
<1>0. StateTypes /\ WaitInv
  BY DEF SessionInv
<1> USE <1>0 DEF StateTypes
<1>1. WaitHit
  <2>1. CASE Main
    <3>1. CASE Runner
      BY <3>1 DEF Runner, RunReady, LinkLost, SendOrSleep, SendBlocks, SendFails, WaitBegins, WaitMiss, WaitAgain, WaitTimeout,
                  Settle, script
    <3> QED
      BY <2>1, <3>1 DEF Main, script
  <2>2. ASSUME NEW s \in Sessions, Goroutines(s) PROVE WaitHit
    BY <2>2 DEF Goroutines, script
  <2>3. CASE Collecting
    BY <2>3 DEF Collecting, Collector, Collect, CollectEnds
  <2>4. CASE User \/ Daemon
    BY <2>4 DEF User, Daemon, script
  <2>5. CASE UNCHANGED vars
    BY <2>5 DEF vars, script
  <2> QED
    BY <2>1, <2>2, <2>3, <2>4, <2>5 DEF Next, Exited
<1>2. cmd = "run"
  BY <1>1 DEF WaitHit, Goto, Course
<1>3. /\ hits' = Append(hits, buf[First].k)
      /\ First \in 1..Len(buf) /\ First > consumed /\ buf[First].hit /\ buf[First] \in DataFrame
      /\ \A j \in 1..Len(buf) : j > consumed /\ buf[j].hit => First <= j
  BY <1>1, FirstIs DEF WaitHit
<1>4. PICK z, b, c, l, f : /\ z \in Nat /\ b \in Seq(DataFrame)
                           /\ z = Len(shown) /\ b = buf /\ c = consumed /\ l = LastHit /\ f = First
  <2>1. Len(shown) \in Nat /\ buf \in Seq(DataFrame)
    BY DEF ClientTypes, ScriptTypes
  <2> HIDE DEF StateTypes
  <2> QED
    BY <2>1
<1>5. WaitFits(z, b, c, l)
  BY <1>2, <1>4 DEF WaitInv
<1>6. /\ f \in 1..Len(b) /\ f > c /\ b[f].hit /\ \A j \in 1..Len(b) : j > c /\ b[j].hit => f <= j
      /\ z \in Nat /\ b \in Seq(DataFrame)
  BY <1>3, <1>4
<1>7. /\ Next1(b, l, b[f].k)
      /\ \A k \in {e.k : e \in {b[i] : i \in DOMAIN b}} : Next1(b, l, k) => k = b[f].k
  BY <1>5, <1>6, FirstIsNext
<1>8. b[f].k \in {e.k : e \in {b[i] : i \in DOMAIN b}}
  BY <1>6
<1>9. b[f].k = CHOOSE k \in {e.k : e \in {b[i] : i \in DOMAIN b}} : Next1(b, l, k)
  BY <1>7, <1>8
<1>10. Last(hits') = b[f].k
  <2>1. PICK h \in Seq(Nat), x \in Nat : h = hits /\ x = b[f].k
    BY <1>3, <1>4 DEF ScriptTypes, DataFrame
  <2>2. Last(Append(h, x)) = x
    BY <2>1, AppendProperties DEF Last
  <2> QED
    BY <1>3, <1>4, <2>1, <2>2
<1> QED
  BY <1>4, <1>9, <1>10

----------------------------------------------------------------------------
(* The theorems. *)

(* Every variable of a process holds what its declaration lets it hold, and the transcript's mark    *)
(* stays inside the transcript (collector), which is bounded.                                        *)
THEOREM TypeCorrect == Spec => []TypeOK
<1>1. SessionInv => TypeOK
  BY TypesHold DEF SessionInv
<1> QED
  BY <1>1, SessionInvariant, PTL

(* What is typed or piped in reaches the port whole, in order and with its escapes decoded, however  *)
(* the reads of pumpInput cut the keys apart; and a pipe that ends does not end the session.         *)
THEOREM KeysMeanWhatWasTypedHolds == Spec => []KeysMeanWhatWasTyped
<1>1. SessionInv => KeysMeanWhatWasTyped
  BY KeysHold DEF SessionInv
<1> QED
  BY <1>1, SessionInvariant, PTL

(* The console gets every chunk of every session once and in order, across the seam between what     *)
(* readUntil kept and what the pump (or the collector) reads, and the local log follows the console.  *)
THEOREM ConsoleCompleteHolds == Spec => []ConsoleComplete
<1>1. SessionInv => ConsoleComplete
  BY ShownHolds DEF SessionInv
<1> QED
  BY <1>1, SessionInvariant, PTL

(* A wait of a script ends at the first match behind the one before it that the transcript still      *)
(* holds, though the collector cuts the transcript, and moves the mark, between any two looks.        *)
THEOREM NextMatchHolds == Spec => NextMatch
<1>1. SessionInv /\ [Next]_vars =>
        [hits' # hits =>
           Last(hits') = CHOOSE k \in {f.k : f \in {buf[i] : i \in DOMAIN buf}} :
                           /\ k > LastHit
                           /\ \E i \in DOMAIN buf : buf[i].k = k /\ buf[i].hit
                           /\ \A i \in DOMAIN buf : buf[i].hit /\ buf[i].k > LastHit => k <= buf[i].k]_vars
  BY WaitHolds DEF Next1
<1> QED
  BY <1>1, SessionInvariant, PTL DEF Spec, NextMatch

============================================================================
