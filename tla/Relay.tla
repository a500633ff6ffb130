------------------------------- MODULE Relay -------------------------------
(***************************************************************************)
(* relay.Server: connections register for a room as a publisher or an       *)
(* attacher, wait to be paired, and are then spliced.  Each connection has  *)
(* its own handler (ServeConn); both handlers of a pair splice it, with two *)
(* copying goroutines each.                                                 *)
(*                                                                         *)
(* One action is one section under s.mu, one write to a connection or one   *)
(* read from it.  A peer is one connection: whoever dials again is a new    *)
(* peer.  The session's bytes are numbered chunks.                          *)
(***************************************************************************)
EXTENDS Integers, Sequences, FiniteSets, SequencesExt

CONSTANTS Peers, Rooms, Tokens,
          None,      \* no partner, no token, nothing in hand
          PipeSize,  \* the chunks a connection holds that its client has not read
          MaxChunks, \* bounds of the model: the chunks that one client sends, and that
          MaxCrowded \* all send, unless one sends them all to a partner by themselves

ASSUME RelayAssumption ==
  /\ None \notin Peers /\ None \notin Tokens
  /\ None \notin [from : Peers, kind : {"data"}, n : Nat]
  /\ MaxChunks \in Nat /\ MaxCrowded \in Nat /\ PipeSize \in Nat \ {0}

Roles == {"publish", "attach"}
Ways == {"in", "out"}     \* what a splice copies from its own peer, and to it

VARIABLES
  pc,      \* where the peer's handler is in ServeConn
  who,     \* the peer's registration: role, room and token
  tok,     \* the token of a room that exists, or None
  queue,   \* the peers of a role that wait in a room: room.idle, room.waiting
  partner, \* peer.partner
  paired,  \* peer.paired is closed
  open,    \* the relay's end of the connection is open
  gone,    \* the client's end is closed
  sent,    \* how many chunks the client has sent
  inbox,   \* chunks nobody at the relay has read
  outbox,  \* what was written to the client: replies and chunks
  unread,  \* the chunks of them that the client has not read
  copy,    \* where a copying goroutine of the handler is
  hand     \* the chunk it has read, or None

vars == <<pc, who, tok, queue, partner, paired, open, gone, sent, inbox, outbox, unread, copy,
          hand>>

Go(p, l) == pc' = [pc EXCEPT ![p] = l]

Chunk(p, n) == [from |-> p, kind |-> "data", n |-> n]
Reply(x) == [from |-> None, kind |-> x, n |-> 0]
Told(p, x) == \E i \in 1..Len(outbox[p]) : outbox[p][i] = Reply(x)

Say(p, x) == outbox' = [outbox EXCEPT ![p] = Append(@, x)]

Other(role) == IF role = "publish" THEN "attach" ELSE "publish"

(* A write to p's connection has no deadline: it waits for as long as the   *)
(* connection is full.  It fails when the connection is closed here, also   *)
(* when it is already waiting, and may fail when the client has closed it.  *)
Full(p) == unread[p] = PipeSize
CanWrite(p) == open[p] /\ ~Full(p)
CanFail(p) == ~open[p] \/ gone[p]

(* Closing a connection drops what nobody has read. *)
Close(ps) ==
  /\ open' = [p \in Peers |-> open[p] /\ p \notin ps]
  /\ inbox' = [p \in Peers |-> IF p \in ps THEN <<>> ELSE inbox[p]]

----------------------------------------------------------------------------
(* register and unregister.  Operators whose comment begins with [fault]    *)
(* are what a plausible mistake would make of the operator after them.      *)

(* A new room takes the token of its first peer. *)
Admits(r, t) == tok[r] \in {None, t}

Pair(p, w, q) ==
  /\ partner' = [partner EXCEPT ![p] = q, ![q] = p]
  /\ paired' = [paired EXCEPT ![q] = TRUE]
  /\ queue' = [queue EXCEPT ![w.room][Other(w.role)] = Tail(@)]
  /\ Go(p, "greet2")

Enqueue(p, w) ==
  /\ queue' = [queue EXCEPT ![w.room][w.role] = Append(@, p)]
  /\ UNCHANGED <<partner, paired>>
  /\ Go(p, "greet")

(* Whoever waits longest on the other side is the partner. *)
Join(p, w) ==
  IF queue[w.room][Other(w.role)] # <<>>
    THEN Pair(p, w, Head(queue[w.room][Other(w.role)]))
    ELSE Enqueue(p, w)

Register(p, w) ==
  /\ pc[p] = "hello" /\ ~gone[p] /\ Admits(w.room, w.token)
  /\ who' = [who EXCEPT ![p] = w]
  /\ tok' = [tok EXCEPT ![w.room] = w.token]
  /\ Join(p, w)
  /\ UNCHANGED <<open, gone, sent, inbox, outbox, unread, copy, hand>>

(* A token that is not the room's; or a registration that is malformed.     *)
(* The reply that says so is the last thing the client gets, whether it     *)
(* arrives or not; such replies are not recorded.                          *)
Reject(p) ==
  /\ pc[p] = "hello" /\ ~gone[p]
  /\ Go(p, "close")
  /\ UNCHANGED <<who, tok, queue, partner, paired, open, gone, sent, inbox, outbox, unread,
                 copy, hand>>

(* The handshake's time-out, or its end. *)
NoHello(p) ==
  /\ pc[p] = "hello"
  /\ Close({p}) /\ Go(p, "done")
  /\ UNCHANGED <<who, tok, queue, partner, paired, gone, sent, outbox, unread, copy, hand>>

(* remove: a peer is in a list once, if at all (QueuedWaits). *)
Without(list, p) ==
  IF \E i \in DOMAIN list : list[i] = p
    THEN RemoveAt(list, CHOOSE i \in DOMAIN list : list[i] = p)
    ELSE list

(* The peer leaves its queue, and a room without any peer in a queue ends. *)
Unregister(p) ==
  LET r == who[p].room IN
  /\ queue' = [queue EXCEPT ![r] = [role \in Roles |-> Without(@[role], p)]]
  /\ tok' = IF \A role \in Roles : queue'[r][role] = <<>> THEN [tok EXCEPT ![r] = None]
                                                         ELSE tok

----------------------------------------------------------------------------
(* ServeConn after the registration. *)

(* The "waiting" reply; "greet2" is a peer that found its partner at once.  *)
Greet(p) ==
  /\ pc[p] \in {"greet", "greet2"} /\ CanWrite(p)
  /\ Say(p, Reply("waiting"))
  /\ Go(p, IF pc[p] = "greet2" THEN "pair" ELSE "wait")
  /\ UNCHANGED <<who, tok, queue, partner, paired, open, gone, sent, inbox, unread, copy, hand>>

GreetFails(p) ==
  /\ pc[p] \in {"greet", "greet2"} /\ CanFail(p)
  /\ Unregister(p) /\ Go(p, "close")
  /\ UNCHANGED <<who, partner, paired, open, gone, sent, inbox, outbox, unread, copy, hand>>

Found(p) ==
  /\ pc[p] = "wait" /\ paired[p]
  /\ Go(p, "pair")
  /\ UNCHANGED <<who, tok, queue, partner, paired, open, gone, sent, inbox, outbox, unread,
                 copy, hand>>

(* [fault] The peer that gives up stays in its queue. *)
GiveUpQueued(p) ==
  /\ pc[p] = "wait"
  /\ Go(p, "close")
  /\ UNCHANGED <<who, tok, queue, partner, paired, open, gone, sent, inbox, outbox, unread,
                 copy, hand>>

(* The pair time-out, which select may choose although a partner was found. *)
GiveUp(p) ==
  /\ pc[p] = "wait"
  /\ Unregister(p) /\ Go(p, "close")
  /\ UNCHANGED <<who, partner, paired, open, gone, sent, inbox, outbox, unread, copy, hand>>

(* The "paired" reply; the splice begins. *)
PairReply(p) ==
  /\ pc[p] = "pair" /\ CanWrite(p)
  /\ Say(p, Reply("paired"))
  /\ Go(p, "splice")
  /\ copy' = [copy EXCEPT ![p] = [way \in Ways |-> "read"]]
  /\ UNCHANGED <<who, tok, queue, partner, paired, open, gone, sent, inbox, unread, hand>>

PairReplyFails(p) ==
  /\ pc[p] = "pair" /\ CanFail(p)
  /\ Go(p, "both")
  /\ UNCHANGED <<who, tok, queue, partner, paired, open, gone, sent, inbox, outbox, unread,
                 copy, hand>>

From(p, way) == IF way = "in" THEN p ELSE partner[p]
To(p, way) == IF way = "in" THEN partner[p] ELSE p

CopyRead(p, way) ==
  LET s == From(p, way) IN
  /\ copy[p][way] = "read" /\ open[s] /\ inbox[s] # <<>>
  /\ copy' = [copy EXCEPT ![p][way] = "write"]
  /\ hand' = [hand EXCEPT ![p][way] = Head(inbox[s])]
  /\ inbox' = [inbox EXCEPT ![s] = Tail(@)]
  /\ UNCHANGED <<pc, who, tok, queue, partner, paired, open, gone, sent, outbox, unread>>

(* A chunk, written to q's connection; the replies are too short to fill it. *)
Put(q, c) == Say(q, c) /\ unread' = [unread EXCEPT ![q] = @ + 1]

(* [fault] A chunk is offered again after it was written. *)
CopyWriteTwice(p, way) ==
  /\ copy[p][way] = "write" /\ CanWrite(To(p, way))
  /\ Put(To(p, way), hand[p][way])
  /\ copy' = [copy EXCEPT ![p][way] = IF Len(outbox[To(p, way)]) > 2 THEN "read" ELSE "write"]
  /\ UNCHANGED <<pc, who, tok, queue, partner, paired, open, gone, sent, inbox, hand>>

CopyWrite(p, way) ==
  /\ copy[p][way] = "write" /\ CanWrite(To(p, way))
  /\ Put(To(p, way), hand[p][way])
  /\ copy' = [copy EXCEPT ![p][way] = "read"] /\ hand' = [hand EXCEPT ![p][way] = None]
  /\ UNCHANGED <<pc, who, tok, queue, partner, paired, open, gone, sent, inbox>>

(* The end of what there is to read, or an error. *)
CopyEnds(p, way) ==
  LET s == From(p, way) IN
  /\ \/ copy[p][way] = "read" /\ (~open[s] \/ (gone[s] /\ inbox[s] = <<>>))
     \/ copy[p][way] = "write" /\ CanFail(To(p, way))
  /\ copy' = [copy EXCEPT ![p][way] = "ended"] /\ hand' = [hand EXCEPT ![p][way] = None]
  /\ UNCHANGED <<pc, who, tok, queue, partner, paired, open, gone, sent, inbox, outbox, unread>>

(* [fault] The splice goes on until both directions have ended. *)
SpliceEndsBoth(p) ==
  /\ pc[p] = "splice" /\ \A way \in Ways : copy[p][way] = "ended"
  /\ Go(p, "both")
  /\ UNCHANGED <<who, tok, queue, partner, paired, open, gone, sent, inbox, outbox, unread,
                 copy, hand>>

SpliceEnds(p) ==
  /\ pc[p] = "splice" /\ \E way \in Ways : copy[p][way] = "ended"
  /\ Go(p, "both")
  /\ UNCHANGED <<who, tok, queue, partner, paired, open, gone, sent, inbox, outbox, unread,
                 copy, hand>>

(* closeBoth: both connections, then both registrations. *)
CloseBoth(p) ==
  /\ pc[p] = "both"
  /\ Close({p, partner[p]})
  /\ Go(p, "sweep")
  /\ UNCHANGED <<who, tok, queue, partner, paired, gone, sent, outbox, unread, copy, hand>>

Sweep(p) ==
  /\ \/ pc[p] = "sweep" /\ Unregister(p) /\ Go(p, "sweep2")
     \/ pc[p] = "sweep2" /\ Unregister(partner[p]) /\ Go(p, "drain")
  /\ UNCHANGED <<who, partner, paired, open, gone, sent, inbox, outbox, unread, copy, hand>>

Drain(p) ==
  /\ pc[p] = "drain" /\ \A way \in Ways : copy[p][way] \in {"off", "ended"}
  /\ Go(p, "done")
  /\ UNCHANGED <<who, tok, queue, partner, paired, open, gone, sent, inbox, outbox, unread,
                 copy, hand>>

(* The reply that ends a conversation, if there is one, and the deferred    *)
(* Close.                                                                  *)
Return(p) ==
  /\ pc[p] = "close"
  /\ Close({p}) /\ Go(p, "done")
  /\ UNCHANGED <<who, tok, queue, partner, paired, gone, sent, outbox, unread, copy, hand>>

----------------------------------------------------------------------------
(* The clients (Publisher.serve, Attach): they speak when they are told     *)
(* that they are paired, and leave at any time.  What they do once the      *)
(* relay has closed the connection changes nothing.                        *)

(* For a bound: nobody but the pair is there, or was. *)
ByThemselves(p) ==
  \A q \in Peers \ {p, partner[p]} : pc[q] = "done" /\ who[q] = None /\ ~gone[q]

Send(p) ==
  /\ ~gone[p] /\ open[p] /\ Told(p, "paired")
  /\ sent[p] < MaxChunks
  /\ LET all == FoldFunction(+, 0, sent)
     IN  all < MaxCrowded \/ (all = sent[p] /\ ByThemselves(p))
  /\ sent' = [sent EXCEPT ![p] = @ + 1]
  /\ inbox' = [inbox EXCEPT ![p] = Append(@, Chunk(p, sent'[p]))]
  /\ UNCHANGED <<pc, who, tok, queue, partner, paired, open, gone, outbox, unread, copy, hand>>

Leave(p) ==
  /\ ~gone[p] /\ open[p] /\ gone' = [gone EXCEPT ![p] = TRUE]
  /\ UNCHANGED <<pc, who, tok, queue, partner, paired, open, sent, inbox, outbox, unread, copy,
                 hand>>

(* It reads a chunk. *)
Take(p) ==
  /\ ~gone[p] /\ open[p] /\ unread[p] > 0
  /\ unread' = [unread EXCEPT ![p] = @ - 1]
  /\ UNCHANGED <<pc, who, tok, queue, partner, paired, open, gone, sent, inbox, outbox, copy, hand>>

Init ==
  /\ pc = [p \in Peers |-> "hello"] /\ who = [p \in Peers |-> None]
  /\ tok = [r \in Rooms |-> None]
  /\ queue = [r \in Rooms |-> [role \in Roles |-> <<>>]]
  /\ partner = [p \in Peers |-> None] /\ paired = [p \in Peers |-> FALSE]
  /\ open = [p \in Peers |-> TRUE] /\ gone = [p \in Peers |-> FALSE]
  /\ sent = [p \in Peers |-> 0]
  /\ inbox = [p \in Peers |-> <<>>] /\ outbox = [p \in Peers |-> <<>>]
  /\ unread = [p \in Peers |-> 0]
  /\ copy = [p \in Peers |-> [way \in Ways |-> "off"]]
  /\ hand = [p \in Peers |-> [way \in Ways |-> None]]

Hello == [role : Roles, room : Rooms, token : Tokens]

Copying(p, way) == CopyRead(p, way) \/ CopyWrite(p, way) \/ CopyEnds(p, way)

Handler(p) ==
  \/ (\E w \in Hello : Register(p, w)) \/ Reject(p) \/ NoHello(p)
  \/ Greet(p) \/ GreetFails(p) \/ Found(p) \/ GiveUp(p)
  \/ PairReply(p) \/ PairReplyFails(p) \/ SpliceEnds(p) \/ CloseBoth(p) \/ Sweep(p)
  \/ Drain(p) \/ Return(p)

(* Every handler has returned.  Any other state without a step is a         *)
(* deadlock.                                                               *)
Quiet == (\A p \in Peers : pc[p] = "done") /\ UNCHANGED vars

Next ==
  \/ \E p \in Peers : \/ Handler(p) \/ Send(p) \/ Take(p) \/ Leave(p)
                      \/ \E way \in Ways : Copying(p, way)
  \/ Quiet

Spec == Init /\ [][Next]_vars

----------------------------------------------------------------------------
Chunks == {Chunk(p, n) : p \in Peers, n \in 1..MaxChunks}

(* The types of all variables; and a handler that has not begun to splice,  *)
(* or has returned, has no goroutine that copies.                          *)
Types ==
  /\ pc \in [Peers -> {"hello", "greet", "greet2", "wait", "pair", "splice",
                       "both", "sweep", "sweep2", "drain", "close", "done"}]
  /\ who \in [Peers -> Hello \union {None}]
  /\ tok \in [Rooms -> Tokens \union {None}]
  /\ \A r \in Rooms, role \in Roles : queue[r][role] \in Seq(Peers)
  /\ partner \in [Peers -> Peers \union {None}]
  /\ paired \in [Peers -> BOOLEAN] /\ open \in [Peers -> BOOLEAN]
  /\ gone \in [Peers -> BOOLEAN] /\ sent \in [Peers -> 0..MaxChunks]
  /\ unread \in [Peers -> 0..PipeSize]
  /\ \A p \in Peers : inbox[p] \in Seq({Chunk(p, n) : n \in 1..MaxChunks})
  /\ \A p \in Peers : outbox[p] \in Seq(Chunks \union {Reply("waiting"), Reply("paired")})
  /\ \A p \in Peers, way \in Ways :
       /\ copy[p][way] \in {"off", "read", "write", "ended"}
       /\ hand[p][way] \in Chunks \union {None} /\ (hand[p][way] # None <=> copy[p][way] = "write")
       /\ pc[p] \in {"close", "done"} => copy[p][way] \in {"off", "ended"}

(* A partner is a partner in return, has the other role, and is in the same *)
(* room with the same token (register).                                    *)
PairsMatch ==
  \A p \in Peers : partner[p] # None =>
    LET q == partner[p] IN
    /\ partner[q] = p
    /\ who[q] = [who[p] EXCEPT !.role = Other(who[p].role)]

(* What is written to a client came from its partner, each chunk once,      *)
(* although four goroutines copy (splice).                                 *)
FromThePartner ==
  \A p \in Peers : \A i \in 1..Len(outbox[p]) :
    outbox[p][i].kind = "data" =>
      /\ outbox[p][i].from = partner[p]
      /\ \A j \in 1..Len(outbox[p]) : outbox[p][j] = outbox[p][i] => i = j

(* Publishers and attachers never wait past each other (register).         *)
NobodyPassedOver ==
  \A r \in Rooms : \E role \in Roles : queue[r][role] = <<>>

(* Who waits in a queue is exactly who can still be paired: its handler     *)
(* waits, it has no partner, and it is there once, in the room and the role *)
(* it registered for (register, unregister).                               *)
QueuedWaits ==
  \A p \in Peers, r \in Rooms, role \in Roles :
    LET places == {i \in DOMAIN queue[r][role] : queue[r][role][i] = p}
        waits == pc[p] \in {"greet", "wait"} /\ ~paired[p]
                 /\ who[p].room = r /\ who[p].role = role
    IN  Cardinality(places) = IF waits THEN 1 ELSE 0

(* A room lasts as long as somebody is in it: it never keeps its token when *)
(* all have left (unregister, closeBoth).                                  *)
RoomsEnd ==
  (\A p \in Peers : pc[p] \in {"hello", "done"}) => \A r \in Rooms : tok[r] = None

(* The types of all variables; the rooms' queues and tokens are exactly what *)
(* the peers that wait or are still there make of them.                     *)
TypeOK == Types /\ QueuedWaits /\ RoomsEnd

(* A client is brought together with one that matches it, as soon as there  *)
(* is one, and gets what that one sent and nothing else.                    *)
OnlyThePartner == PairsMatch /\ NobodyPassedOver /\ FromThePartner

(* relay.go:25, "The relay is a dumb byte pipe": what reaches a client      *)
(* reaches it in the order its partner sent it (splice).                   *)
BytePipe ==
  \A p \in Peers : \A i, j \in 1..Len(outbox[p]) :
    (i < j /\ outbox[p][i].kind = "data" /\ outbox[p][j].kind = "data") =>
      outbox[p][i].n < outbox[p][j].n

(* A client that is there and does not read, while its connection is full.  *)
Stalls(q) == q # None /\ open[q] /\ ~gone[q] /\ Full(q)

(* Nobody whose client has left, or whose partner's handler has returned,   *)
(* waits for the other client to say something: its handler, or its         *)
(* partner's, can go on, and a handler takes a bounded number of steps, so  *)
(* that it returns (splice, closeBoth, the pair time-out).  The one         *)
(* exception is the one the code has, since io.Copy writes without a        *)
(* deadline: while the partner's client is there, does not read and its     *)
(* connection is full, both copiers towards it wait, nobody reads the       *)
(* connection of the client that has left, and both handlers wait with it.  *)
NobodyStuck ==
  \A p \in Peers :
    (gone[p] \/ (partner[p] # None /\ pc[partner[p]] = "done")) /\ pc[p] # "done" =>
      \/ \E q \in {p, partner[p]} \ {None} :
           ENABLED (Handler(q) \/ \E way \in Ways : Copying(q, way))
      \/ gone[p] /\ Stalls(partner[p])

============================================================================
