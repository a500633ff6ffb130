------------------------------- MODULE Stream -------------------------------
(***************************************************************************)
(* The output of one serial port on its way to the clients (internal/hub): *)
(* the worker's fanout, the ring that keeps the backlog, the bounded queue *)
(* of each connection and the loop that empties it onto the transport.     *)
(*                                                                         *)
(* Serial bytes are numbered in the order the device sent them, so a       *)
(* stream that loses, repeats or reorders one shows it.  A control frame   *)
(* carries no serial byte: it is the empty frame.                          *)
(***************************************************************************)
EXTENDS Integers, Sequences, FiniteSets, SequencesExt

CONSTANTS Conns,     \* client connections, each of which attaches once
          Wedged,    \* those whose client never reads what it is sent
          RingSize,  \* Options.BacklogBytes
          Depth,     \* outQueueDepth
          MaxChunk,  \* the bytes one Read of the device may return
          MaxByte    \* bound of the model: how many bytes the device sends

ASSUME StreamAssumption ==
  /\ Wedged \subseteq Conns
  /\ RingSize \in Nat \ {0} /\ Depth \in Nat \ {0}
  /\ MaxChunk \in Nat \ {0} /\ MaxByte \in Nat

VARIABLES
  next,    \* the last byte the device sent
  wpc,     \* where the worker is: "read", "fan", "log", "notice"
  chunk,   \* the copy fanout works on
  snap,    \* goOnline's and goOffline's snapshot of the clients to notify
  ring,    \* ring.buf
  log,     \* the bytes handed to the port's log
  pconns,  \* Port.conns
  at,      \* where the connection is: "out", "opened", "on", "closed", "off"
  queue,   \* Conn.outCh
  hand,    \* the frame writeLoop has taken and not yet written
  got,     \* the serial bytes the client has received
  done     \* Conn.done is closed

vars == <<next, wpc, chunk, snap, ring, log, pconns, at, queue, hand, got, done>>

Ctrl == <<>>         \* a control frame
Nothing == <<0>>     \* writeLoop has no frame in hand

----------------------------------------------------------------------------
(* Operators whose comment begins with [fault] are what a plausible mistake *)
(* would make of the operator that follows them.  No behaviour uses them:   *)
(* they show which property notices the mistake.                            *)

(* [fault] One byte too many is dropped. *)
RingWriteOneLess(buf, b) ==
  IF Len(b) >= RingSize THEN SubSeq(b, Len(b) - RingSize + 1, Len(b))
  ELSE IF Len(buf) + Len(b) > RingSize
         THEN SubSeq(buf, Len(buf) + Len(b) - RingSize + 2, Len(buf)) \o b
         ELSE buf \o b

(* ring.Write: keep the last RingSize bytes. *)
RingWrite(buf, b) ==
  IF Len(b) >= RingSize THEN SubSeq(b, Len(b) - RingSize + 1, Len(b))
  ELSE IF Len(buf) + Len(b) > RingSize
         THEN SubSeq(buf, Len(buf) + Len(b) - RingSize + 1, Len(buf)) \o b
         ELSE buf \o b

(* [fault] A full queue loses the frame and the client stays. *)
EnqueueDrops(S, frame) ==
  /\ queue' = [c \in Conns |->
       IF c \in S /\ ~done[c] /\ Len(queue[c]) < Depth
         THEN Append(queue[c], frame) ELSE queue[c]]
  /\ UNCHANGED done

(* enqueue to every connection of S: nothing for one that is done, kill for *)
(* one whose queue is full.  It never waits.                               *)
Enqueue(S, frame) ==
  /\ queue' = [c \in Conns |->
       IF c \in S /\ ~done[c] /\ Len(queue[c]) < Depth
         THEN Append(queue[c], frame) ELSE queue[c]]
  /\ done' = [c \in Conns |-> done[c] \/ (c \in S /\ Len(queue[c]) = Depth)]

----------------------------------------------------------------------------
(* The worker. *)

(* sp.Read returns a chunk, and fanout's first act is to put it in the ring. *)
WRead(n) ==
  /\ wpc = "read" /\ next + n <= MaxByte
  /\ LET b == [i \in 1..n |-> next + i] IN chunk' = b /\ ring' = RingWrite(ring, b)
  /\ next' = next + n
  /\ wpc' = "fan"
  /\ UNCHANGED <<snap, log, pconns, at, queue, hand, got, done>>

(* fanout's section under p.mu: every attached client gets the chunk. *)
WFan ==
  /\ wpc = "fan"
  /\ Enqueue(pconns, chunk)
  /\ wpc' = "log"
  /\ UNCHANGED <<next, chunk, snap, ring, log, pconns, at, hand, got>>

WLog ==
  /\ wpc = "log"
  /\ log' = log \o chunk
  /\ chunk' = <<>>
  /\ wpc' = "read"
  /\ UNCHANGED <<next, snap, ring, pconns, at, queue, hand, got, done>>

(* The device goes and comes back: the clients of that moment are notified *)
(* after the lock is dropped, if their queues have room.                   *)
WBlip ==
  /\ wpc = "read" /\ pconns # {}
  /\ snap' = pconns
  /\ wpc' = "notice"
  /\ UNCHANGED <<next, chunk, ring, log, pconns, at, queue, hand, got, done>>

(* [fault] A notice takes the place of the last frame of a full queue. *)
WNoticeReplaces(c) ==
  /\ wpc = "notice" /\ c \in snap
  /\ queue' = [queue EXCEPT ![c] =
       IF Len(@) < Depth THEN Append(@, Ctrl) ELSE [@ EXCEPT ![Len(@)] = Ctrl]]
  /\ snap' = snap \ {c}
  /\ wpc' = IF snap' = {} THEN "read" ELSE "notice"
  /\ UNCHANGED <<next, chunk, ring, log, pconns, at, hand, got, done>>

WNotice(c) ==
  /\ wpc = "notice" /\ c \in snap
  /\ queue' = [queue EXCEPT ![c] = IF Len(@) < Depth THEN Append(@, Ctrl) ELSE @]
  /\ snap' = snap \ {c}
  /\ wpc' = IF snap' = {} THEN "read" ELSE "notice"
  /\ UNCHANGED <<next, chunk, ring, log, pconns, at, hand, got, done>>

----------------------------------------------------------------------------
(* A connection's read loop. *)

(* handleOpen's section under p.mu: the backlog is queued, then the         *)
(* connection joins the fan-out set.                                       *)
Open(c) ==
  /\ at[c] = "out"
  /\ IF ring = <<>> THEN UNCHANGED <<queue, done>> ELSE Enqueue({c}, ring)
  /\ pconns' = pconns \union {c}
  /\ at' = [at EXCEPT ![c] = "opened"]
  /\ UNCHANGED <<next, wpc, chunk, snap, ring, log, hand, got>>

(* send: a control reply waits for room, or for done. *)
Send(c) ==
  /\ \/ ~done[c] /\ Len(queue[c]) < Depth /\ queue' = [queue EXCEPT ![c] = Append(@, Ctrl)]
     \/ done[c] /\ UNCHANGED queue

Opened(c) ==
  /\ at[c] = "opened" /\ Send(c)
  /\ at' = [at EXCEPT ![c] = "on"]
  /\ UNCHANGED <<next, wpc, chunk, snap, ring, log, pconns, hand, got, done>>

(* close, the end of the stream, or the loop noticing a kill: detach. *)
Detach(c) ==
  /\ at[c] = "on" /\ c \notin Wedged
  /\ pconns' = pconns \ {c}
  /\ at' = [at EXCEPT ![c] = "closed"]
  /\ UNCHANGED <<next, wpc, chunk, snap, ring, log, queue, hand, got, done>>

Closed(c) ==
  /\ at[c] = "closed" /\ Send(c)
  /\ at' = [at EXCEPT ![c] = "off"]
  /\ UNCHANGED <<next, wpc, chunk, snap, ring, log, pconns, hand, got, done>>

----------------------------------------------------------------------------
(* writeLoop, and the client at the other end. *)

(* select: with both ready Go may choose either, so a frame may still be    *)
(* taken once done is closed.                                              *)
Take(c) ==
  /\ c \notin Wedged /\ hand[c] = Nothing /\ queue[c] # <<>>
  /\ hand' = [hand EXCEPT ![c] = Head(queue[c])]
  /\ queue' = [queue EXCEPT ![c] = Tail(@)]
  /\ UNCHANGED <<next, wpc, chunk, snap, ring, log, pconns, at, got, done>>

(* The frame is written out, in one piece (proto.Writer). *)
Write(c) ==
  /\ hand[c] # Nothing /\ ~done[c]
  /\ got' = [got EXCEPT ![c] = @ \o hand[c]]
  /\ hand' = [hand EXCEPT ![c] = Nothing]
  /\ UNCHANGED <<next, wpc, chunk, snap, ring, log, pconns, at, queue, done>>

(* A failed write, the idle watchdog, the manager closing: kill. *)
Kill(c) ==
  /\ at[c] # "out" /\ ~done[c]
  /\ done' = [done EXCEPT ![c] = TRUE]
  /\ UNCHANGED <<next, wpc, chunk, snap, ring, log, pconns, at, queue, hand, got>>

----------------------------------------------------------------------------
Init ==
  /\ next = 0 /\ wpc = "read" /\ chunk = <<>> /\ snap = {} /\ ring = <<>> /\ log = <<>>
  /\ pconns = {} /\ at = [c \in Conns |-> "out"]
  /\ queue = [c \in Conns |-> <<>>] /\ hand = [c \in Conns |-> Nothing]
  /\ got = [c \in Conns |-> <<>>] /\ done = [c \in Conns |-> FALSE]

Worker ==
  (\E n \in 1..MaxChunk : WRead(n)) \/ WFan \/ WLog \/ WBlip \/ (\E c \in Conns : WNotice(c))

(* The bound is reached: the device has nothing more to say.  Any other     *)
(* state without a step is a deadlock.                                     *)
Silent ==
  /\ next = MaxByte /\ wpc = "read"
  /\ UNCHANGED vars

Next ==
  \/ Worker \/ Silent
  \/ \E c \in Conns : \/ Open(c) \/ Opened(c) \/ Detach(c) \/ Closed(c)
                      \/ Take(c) \/ Write(c) \/ Kill(c)

Spec == Init /\ [][Next]_vars

(* The worker goroutine runs, the device, however often it goes and comes   *)
(* back, keeps sending, and the write loops of clients that read make       *)
(* progress.                                                               *)
Fairness ==
  /\ SF_vars(\E n \in 1..MaxChunk : WRead(n)) /\ WF_vars(WFan) /\ WF_vars(WLog)
  /\ \A c \in Conns : WF_vars(WNotice(c))
  /\ \A c \in Conns \ Wedged : WF_vars(Take(c)) /\ WF_vars(Write(c))

FairSpec == Spec /\ Fairness

----------------------------------------------------------------------------
(* The types of all variables. *)
Types ==
  /\ next \in 0..MaxByte /\ wpc \in {"read", "fan", "log", "notice"}
  /\ chunk \in Seq(1..MaxByte) /\ snap \subseteq Conns
  /\ ring \in Seq(1..MaxByte) /\ Len(ring) <= RingSize
  /\ log \in Seq(1..MaxByte) /\ pconns \subseteq Conns
  /\ at \in [Conns -> {"out", "opened", "on", "closed", "off"}]
  /\ \A c \in Conns : /\ Len(queue[c]) <= Depth
                      /\ \A i \in 1..Len(queue[c]) : queue[c][i] \in Seq(1..MaxByte)
                      /\ hand[c] = Nothing \/ hand[c] \in Seq(1..MaxByte)
                      /\ got[c] \in Seq(1..MaxByte)
  /\ done \in [Conns -> BOOLEAN]

(* Everything sent towards a client, in the order it will see it. *)
Flow(c) ==
  got[c] \o (IF hand[c] = Nothing THEN <<>> ELSE hand[c]) \o FlattenSeq(queue[c])

(* The last byte whose p.mu section of fanout is over. *)
Published == IF wpc = "fan" THEN chunk[1] - 1 ELSE next

(* The ring holds exactly the last RingSize bytes sent, whatever the sizes  *)
(* of the chunks (ring.Write).                                              *)
RingIsTail ==
  LET n == IF next < RingSize THEN next ELSE RingSize
  IN ring = [i \in 1..n |-> next - n + i]

(* No client ever misses a byte inside its stream, at the seam between      *)
(* backlog and live output least of all (fanout, handleOpen, writeLoop).    *)
NoGap ==
  \A c \in Conns : \A i \in 1..Len(Flow(c)) - 1 : Flow(c)[i + 1] <= Flow(c)[i] + 1

(* What a stream repeats it repeats once, at the seam, and it is at most    *)
(* the chunk in flight when the client attached.                            *)
SeamIsOneChunk ==
  \A c \in Conns :
    LET f == Flow(c)
        back == {i \in 1..Len(f) - 1 : f[i + 1] <= f[i]}
    IN /\ Cardinality(back) <= 1
       /\ \A i \in back : f[i] - f[i + 1] < MaxChunk

(* An attached client that was not cut off has been sent everything so far. *)
UpToDate ==
  \A c \in pconns : ~done[c] /\ Published > 0 =>
    Flow(c) # <<>> /\ Last(Flow(c)) >= Published

(* The log misses nothing and repeats nothing. *)
LogComplete == log = [i \in 1..Len(log) |-> i] /\ (wpc \in {"read", "notice"} => Len(log) = next)

(* The types of all variables, and what ring and log hold, byte for byte.   *)
TypeOK == Types /\ RingIsTail /\ LogComplete

(* A client's stream has no hole, repeats itself once at most, and has come *)
(* as far as the device has.                                                *)
StreamIsWhole == NoGap /\ SeamIsOneChunk /\ UpToDate

(* A client that never reads again holds up neither the worker nor the log. *)
WorkerNeverWaits == <>(Len(log) = MaxByte)

(* What is fanned out while a client that reads is attached reaches it,     *)
(* unless the client is cut off.                                           *)
Delivered ==
  \A c \in Conns \ Wedged, n \in 1..MaxByte :
    (c \in pconns /\ wpc = "log" /\ n = next) ~> (Contains(got[c], n) \/ done[c])

(* One wedged client takes nothing from the others, the worker or the log.  *)
NobodyHeldUp == WorkerNeverWaits /\ Delivered

============================================================================
