----------------------------- MODULE HubProofs -----------------------------
(***************************************************************************)
(* Machine-checked proofs about module Hub, for every set of connections   *)
(* and ports and every policy.                                             *)
(***************************************************************************)
EXTENDS Hub, FiniteSetTheorems, TLAPS

USE HubAssumption

----------------------------------------------------------------------------
(* Types. *)

LEMMA NoLocType == NoLoc \in LocType
  BY DEF NoLoc, LocType, Results

LEMMA TypeInit == Init => TypeOK
<1> SUFFICES ASSUME Init PROVE TypeOK
  OBVIOUS
<1>1. TypeManager
  <2>1. closed \in BOOLEAN
    BY DEF Init
  <2>2. mconns = {} /\ known = {} /\ todoC = {} /\ todoP = {} /\ fresh = {}
    BY DEF Init
  <2>3. wg = 1 /\ closer = "run" /\ cur = None /\ scan = "idle"
    BY DEF Init
  <2> QED
    BY <2>1, <2>2, <2>3 DEF TypeManager
<1>2. TypePorts
  <2>1. sp \in [Ports -> BOOLEAN] /\ online \in [Ports -> BOOLEAN]
    BY DEF Init
  <2>2. running \in [Ports -> BOOLEAN] /\ logw \in [Ports -> BOOLEAN]
    BY DEF Init
  <2>3. rate \in [Ports -> Bauds] /\ baud \in [Ports -> Bauds]
    BY DEF Init
  <2> QED
    BY <2>1, <2>2, <2>3 DEF Init, TypePorts, WorkerAt
<1>3. TypeLock
  BY DEF Init, TypeLock
<1>4. TypeConns
  <2>1. loc \in [Conns -> LocType] /\ \A c \in Conns : loc[c].next = ""
    BY NoLocType DEF Init, NoLoc
  <2> QED
    BY <2>1 DEF Init, TypeConns, ReaderAt, AtPort
<1> QED
  BY <1>1, <1>2, <1>3, <1>4 DEF TypeOK

(* The connections' and the lock's types depend on nothing else. *)
LEMMA TypeFrame ==
  /\ TypeLock /\ UNCHANGED lock => TypeLock'
  /\ TypeConns /\ UNCHANGED conn => TypeConns'
  BY DEF TypeLock, TypeConns, lock, conn

(* A step of the scanner keeps the types. *)
LEMMA TypeScanner == TypeOK /\ Scanner => TypeOK'
<1> SUFFICES ASSUME TypeOK, Scanner PROVE TypeOK'
  OBVIOUS
<1>1. UNCHANGED <<lock, conn>>
  BY DEF Scanner, Sync, SyncEnsure, ScanStop
<1>2. CASE Sync
  <2>1. PICK found \in SUBSET (Ports \ known), logged \in SUBSET Ports :
          /\ known' = known \union found
          /\ logw' = [p \in Ports |-> logw[p] \/ p \in logged]
          /\ fresh' = IF AutoOpen THEN found ELSE {}
          /\ scan' = IF fresh' = {} THEN "idle" ELSE "ensure"
    BY <1>2, Zenon DEF Sync
  <2>2. known' \in SUBSET Ports /\ fresh' \in SUBSET Ports
    BY <2>1 DEF TypeOK, TypeManager
  <2>3. logw' \in [Ports -> BOOLEAN]
    BY <2>1, Zenon
  <2>4. TypeManager'
    BY <1>2, <2>1, <2>2 DEF Sync, TypeOK, TypeManager, stop
  <2>5. TypePorts'
    BY <1>2, <2>3 DEF Sync, TypeOK, TypePorts
  <2> QED
    BY <1>1, <2>4, <2>5, TypeFrame DEF TypeOK
<1>3. ASSUME NEW p \in Ports, SyncEnsure(p) PROVE TypeOK'
  <2>1. TypeManager'
    BY <1>3 DEF SyncEnsure, EnsureWorker, TypeOK, TypeManager, stop
  <2>2. TypePorts'
    BY <1>3 DEF SyncEnsure, EnsureWorker, TypeOK, TypePorts, WorkerAt
  <2> QED
    BY <1>1, <2>1, <2>2, TypeFrame DEF TypeOK
<1>4. CASE ScanStop
  <2>1. TypeManager' /\ TypePorts'
    BY <1>4 DEF ScanStop, TypeOK, TypeManager, TypePorts, stop, port
  <2> QED
    BY <1>1, <2>1, TypeFrame DEF TypeOK
<1> QED
  BY <1>2, <1>3, <1>4 DEF Scanner

(* A step of a worker keeps the types. *)
LEMMA TypeWorker == ASSUME NEW p \in Ports, TypeOK, Worker(p) PROVE TypeOK'
<1>1. UNCHANGED <<lock, conn, stop, scanv, closed, mconns, known>>
  BY DEF Worker, WTop, WOpen, WOpenFails, WOnline, WRead, WReadFails, WOffline, WSleep,
         WClose, WClear, WRelease, WUnchanged
<1>2. wg' \in Int
  BY DEF Worker, WTop, WOpen, WOpenFails, WOnline, WRead, WReadFails, WOffline, WSleep,
         WClose, WClear, WRelease, TypeOK, TypeManager
<1>3. TypeManager'
  BY <1>1, <1>2 DEF TypeOK, TypeManager, stop, scanv
<1>4. TypePorts'
  <2> USE DEF TypeOK, TypePorts, WorkerAt, Run, port
  <2>1. CASE WTop(p) \/ WOpenFails(p) \/ WRead(p) \/ WReadFails(p) \/ WSleep(p)
    BY <2>1 DEF WTop, WOpenFails, WRead, WReadFails, WSleep, WUnchanged
  <2>2. CASE WOpen(p)
    BY <2>2 DEF WOpen, WUnchanged
  <2>3. CASE WOnline(p)
    BY <2>3 DEF WOnline, WUnchanged
  <2>4. CASE WOffline(p)
    BY <2>4 DEF WOffline, WUnchanged
  <2>5. CASE WClose(p)
    BY <2>5 DEF WClose, WUnchanged
  <2>6. CASE WClear(p)
    BY <2>6 DEF WClear, WUnchanged
  <2>7. CASE WRelease(p)
    BY <2>7 DEF WRelease, Release, WUnchanged
  <2> QED
    BY <2>1, <2>2, <2>3, <2>4, <2>5, <2>6, <2>7 DEF Worker
<1> QED
  BY <1>1, <1>3, <1>4, TypeFrame DEF TypeOK

(* A step of Close keeps the types. *)
LEMMA TypeClosing == TypeOK /\ (Close \/ Closing) => TypeOK'
<1> SUFFICES ASSUME TypeOK, Close \/ Closing PROVE TypeOK'
  OBVIOUS
<1> USE DEF SUnchanged, scanv
<1>1. UNCHANGED <<lock, rpc, cport, writable, loc, mconns, known, wg, scan, fresh>>
  BY DEF Close, Closing, CloseKill, CloseShut, CloseDevice, CloseWait, CloseRelease, CloseReturn
<1>2. TypeLock'
  BY <1>1, TypeFrame DEF TypeOK
<1>3. CASE Close
  BY <1>1, <1>2, <1>3 DEF Close, TypeOK, TypeManager, TypePorts, TypeConns
<1>4. ASSUME NEW c \in Conns, CloseKill(c) PROVE TypeOK'
  BY <1>1, <1>2, <1>4 DEF CloseKill, TypeOK, TypeManager, TypePorts, TypeConns
<1>5. ASSUME NEW p \in Ports, CloseShut(p) PROVE TypeOK'
  <2>1. TypeManager'
    BY <1>1, <1>5 DEF CloseShut, TypeOK, TypeManager
  <2>2. TypePorts'
    BY <1>5 DEF CloseShut, TypeOK, TypePorts
  <2> QED
    BY <1>1, <1>2, <1>5, <2>1, <2>2 DEF CloseShut, TypeOK, TypeConns
<1>6. CASE CloseDevice
  BY <1>1, <1>2, <1>6 DEF CloseDevice, TypeOK, TypeManager, TypePorts, TypeConns
<1>7. CASE CloseWait \/ CloseReturn
  BY <1>1, <1>2, <1>7 DEF CloseWait, CloseReturn, TypeOK, TypeManager, TypePorts, TypeConns
<1>8. ASSUME NEW p \in Ports, CloseRelease(p) PROVE TypeOK'
  <2>1. TypePorts'
    BY <1>8 DEF CloseRelease, Release, TypeOK, TypePorts
  <2> QED
    BY <1>1, <1>2, <1>8, <2>1 DEF CloseRelease, TypeOK, TypeManager, TypeConns
<1> QED
  BY <1>3, <1>4, <1>5, <1>6, <1>7, <1>8 DEF Closing

(* The four parts of the type invariant, where the step leaves them alone. *)
LEMMA TypeOwn == ASSUME TypeOK, Own, TypeConns' PROVE TypeOK'
  BY DEF TypeOK, TypeManager, TypePorts, TypeLock, Own, CUnchanged, stop, scanv, lock

(* detach's first section hands over locals that are well typed. *)
LEMMA TypeDetach ==
  ASSUME TypeOK, NEW c \in Conns, NEW l \in {"attach", "reply", "drop"},
         NEW locals \in LocType, DetachThen(c, l, locals),
         locals.next = "", l = "attach" => locals.port \in Ports,
         UNCHANGED killed
  PROVE  TypeConns'
<1>1. loc'[c] \in LocType /\ loc' \in [Conns -> LocType]
  BY DEF DetachThen, TypeOK, TypeConns, LocType
<1>2. rpc' \in [Conns -> ReaderAt] /\ rpc'[c] \in {l, "unlink"}
  BY DEF DetachThen, Goto, TypeOK, TypeConns, ReaderAt
<1>3. cport' \in [Conns -> Ports \union {None}] /\ writable' \in [Conns -> BOOLEAN]
  BY DEF DetachThen, TypeOK, TypeConns
<1>4. /\ rpc'[c] \in AtPort => loc'[c].port \in Ports
      /\ rpc'[c] \in {"unlink", "closelog"} => loc'[c].old \in Ports /\ loc'[c].next # ""
      /\ loc'[c].next = "attach" => loc'[c].port \in Ports
  BY DEF DetachThen, Goto, TypeOK, TypeConns, LocType, AtPort
<1>5. \A d \in Conns \ {c} : rpc'[d] = rpc[d] /\ loc'[d] = loc[d]
  BY DEF DetachThen, Goto, TypeOK, TypeConns
<1> QED
  BY <1>1, <1>2, <1>3, <1>4, <1>5 DEF TypeOK, TypeConns

(* A read loop that moves to l with locals r, its attachment as it was. *)
LEMMA TypeMove ==
  ASSUME TypeConns, NEW c \in Conns, NEW l \in ReaderAt, NEW r \in LocType,
         rpc' = [rpc EXCEPT ![c] = l], loc' = [loc EXCEPT ![c] = r],
         UNCHANGED <<cport, writable, killed>>,
         l \in AtPort => r.port \in Ports,
         l \in {"unlink", "closelog"} => r.old \in Ports /\ r.next # "",
         r.next = "attach" => r.port \in Ports
  PROVE  TypeConns'
  BY DEF TypeConns

(* The locals with another captured logw. *)
LEMMA TypeLog ==
  ASSUME NEW r \in LocType, NEW b \in BOOLEAN
  PROVE  LET n == [r EXCEPT !.log = b] IN
         n \in LocType /\ n.port = r.port /\ n.old = r.old /\ n.next = r.next
  BY DEF LocType

(* A frame received, the end of the stream, a kill: the types stay. *)
LEMMA TypeReceive ==
  ASSUME TypeOK, NEW c \in Conns, Receive(c) \/ Kill(c) \/ Accept(c) PROVE TypeOK'
<1>1. ASSUME NEW p \in Ports, NEW w \in BOOLEAN, NEW b \in Bauds \union {None},
             RecvOpen(c, p, w, b)
      PROVE TypeOK'
  <2> DEFINE locals == [NoLoc EXCEPT !.port = p, !.write = w, !.baud = b]
  <2>1. locals \in LocType /\ locals.next = "" /\ locals.port \in Ports
    BY NoLocType DEF NoLoc, LocType
  <2>2. DetachThen(c, "attach", locals) /\ Own
    BY <1>1 DEF RecvOpen
  <2> HIDE DEF locals
  <2> QED
    BY <2>1, <2>2, TypeDetach, TypeOwn DEF Own
<1>2. CASE RecvClose(c) \/ RecvEnd(c)
  <2>1. NoLoc.next = ""
    BY DEF NoLoc
  <2>2. Own /\ (DetachThen(c, "reply", NoLoc) \/ DetachThen(c, "drop", NoLoc))
    BY <1>2 DEF RecvClose, RecvEnd
  <2> QED
    BY <2>1, <2>2, NoLocType, TypeDetach, TypeOwn DEF Own
<1>3. CASE RecvAsk(c)
  <2>1. TypeConns'
    BY <1>3 DEF RecvAsk, Goto, Own, TypeOK, TypeConns, ReaderAt, AtPort
  <2> QED
    BY <1>3, <2>1, TypeOwn DEF RecvAsk
<1>4. ASSUME NEW br \in BOOLEAN, RecvInput(c, br) PROVE TypeOK'
  <2>1. TypeConns'
    <3>1. CASE cport[c] # None /\ writable[c]
      <4> DEFINE r == [loc[c] EXCEPT !.port = cport[c], !.write = br]
      <4>1. r \in LocType /\ r.port \in Ports
        <5>1. loc[c] \in LocType /\ cport[c] \in Ports
          BY <3>1 DEF TypeOK, TypeConns
        <5> QED
          BY <5>1 DEF LocType
      <4>2. rpc' = [rpc EXCEPT ![c] = "getdev"] /\ loc' = [loc EXCEPT ![c] = r]
            /\ UNCHANGED <<cport, writable, killed>>
        BY <1>4, <3>1 DEF RecvInput, Goto, Own
      <4> HIDE DEF r
      <4> QED
        BY <4>1, <4>2, TypeMove DEF TypeOK, ReaderAt, AtPort
    <3>2. CASE ~(cport[c] # None /\ writable[c])
      <4>1. /\ \E l \in {"reply", "ending", "read"} : rpc' = [rpc EXCEPT ![c] = l]
            /\ UNCHANGED <<cport, writable, killed, loc>>
        BY <1>4, <3>2 DEF RecvInput, Goto, Own, After
      <4> QED
        BY <4>1 DEF TypeOK, TypeConns, ReaderAt, AtPort
    <3> QED
      BY <3>1, <3>2
  <2> QED
    BY <1>4, <2>1, TypeOwn DEF RecvInput
<1>5. CASE Kill(c)
  BY <1>5 DEF Kill, mgr, stop, scanv, port, lock, TypeOK, TypeManager, TypePorts, TypeLock,
              TypeConns
<1>6. CASE Accept(c)
  <2>1. TypeConns'
    BY ZenonT(60), <1>6 DEF Accept, Goto, TypeOK, TypeConns, ReaderAt, AtPort
  <2>2. TypeManager' /\ TypePorts' /\ TypeLock'
    BY <1>6 DEF Accept, CUnchanged, stop, scanv, lock, TypeOK, TypeManager, TypePorts, TypeLock
  <2> QED
    BY <2>1, <2>2 DEF TypeOK
<1> QED
  BY <1>1, <1>2, <1>3, <1>4, <1>5, <1>6 DEF Receive

(* A step of a handler keeps the types. *)
LEMMA TypeHandle == ASSUME TypeOK, NEW c \in Conns, Handle(c) PROVE TypeOK'
<1>1. CASE Unlink(c)
  <2>1. loc[c].old \in Ports
    BY <1>1 DEF Unlink, TypeOK, TypeConns
  <2>2. TypeLock'
    BY <1>1, <2>1 DEF Unlink, TypeOK, TypeLock
  <2>3. TypeConns'
    <3> DEFINE b == logw[loc[c].old]
               r == [loc[c] EXCEPT !.log = b]
    <3>1. b \in BOOLEAN
      BY <2>1 DEF TypeOK, TypePorts
    <3>2. rpc' = [rpc EXCEPT ![c] = "closelog"] /\ loc' = [loc EXCEPT ![c] = r]
          /\ UNCHANGED <<cport, writable, killed>>
      BY <1>1 DEF Unlink, Goto
    <3>3. /\ loc[c] \in LocType /\ loc[c].next # ""
          /\ loc[c].next = "attach" => loc[c].port \in Ports
      BY <1>1 DEF Unlink, TypeOK, TypeConns
    <3> HIDE DEF b
    <3>4. r \in LocType /\ r.port = loc[c].port /\ r.old = loc[c].old /\ r.next = loc[c].next
      BY <3>1, <3>3, TypeLog
    <3> HIDE DEF r
    <3> QED
      BY <2>1, <3>2, <3>3, <3>4, TypeMove DEF TypeOK, ReaderAt, AtPort
  <2>4. TypeManager' /\ TypePorts'
    BY <1>1 DEF Unlink, CUnchanged, stop, scanv, TypeOK, TypeManager, TypePorts
  <2> QED
    BY <2>2, <2>3, <2>4 DEF TypeOK
<1>2. CASE CloseLog(c)
  <2>1. TypePorts'
    BY <1>2 DEF CloseLog, Note, CUnchanged, TypeOK, TypePorts
  <2>2. TypeConns'
    <3> DEFINE r == [loc[c] EXCEPT !.log = FALSE, !.old = None, !.next = ""]
    <3>1. rpc' = [rpc EXCEPT ![c] = loc[c].next] /\ loc' = [loc EXCEPT ![c] = r]
          /\ UNCHANGED <<cport, writable, killed>>
      BY <1>2 DEF CloseLog, Goto
    <3>2. /\ loc[c] \in LocType /\ loc[c].next \in {"attach", "reply", "drop"}
          /\ loc[c].next = "attach" => loc[c].port \in Ports
      BY <1>2 DEF CloseLog, TypeOK, TypeConns, LocType
    <3>3. r \in LocType /\ r.port = loc[c].port /\ r.next = ""
      BY <3>2 DEF LocType
    <3> HIDE DEF r
    <3> QED
      BY <3>1, <3>2, <3>3, TypeMove DEF TypeOK, ReaderAt, AtPort
  <2>3. TypeManager' /\ TypeLock'
    BY <1>2 DEF CloseLog, CUnchanged, stop, scanv, lock, TypeOK, TypeManager, TypeLock
  <2> QED
    BY <2>1, <2>2, <2>3 DEF TypeOK
<1>3. CASE Attach(c)
  <2>1. loc[c].port \in Ports /\ loc[c].baud \in Bauds \union {None}
    BY <1>3 DEF Attach, TypeOK, TypeConns, AtPort, LocType
  <2>2. TypeLock'
    BY <1>3, <2>1 DEF Attach, TypeOK, TypeLock
  <2>3. TypeConns'
    <3> DEFINE b == logw[loc[c].port]
               r == [loc[c] EXCEPT !.log = b]
    <3>1. b \in BOOLEAN
      BY <2>1 DEF TypeOK, TypePorts
    <3>2. rpc' = [rpc EXCEPT ![c] = "bind"] /\ loc' = [loc EXCEPT ![c] = r]
          /\ UNCHANGED <<cport, writable, killed>>
      BY <1>3 DEF Attach, Goto
    <3>3. loc[c] \in LocType
      BY DEF TypeOK, TypeConns
    <3> HIDE DEF b
    <3>4. r \in LocType /\ r.port = loc[c].port /\ r.old = loc[c].old /\ r.next = loc[c].next
      BY <3>1, <3>3, TypeLog
    <3> HIDE DEF r
    <3> QED
      BY <2>1, <3>2, <3>4, TypeMove DEF TypeOK, ReaderAt, AtPort
  <2>4. baud' \in [Ports -> Bauds]
    BY <1>3, <2>1 DEF Attach, TypeOK, TypePorts
  <2>5. TypeManager' /\ TypePorts'
    BY <1>3, <2>4 DEF Attach, CUnchanged, stop, scanv, TypeOK, TypeManager, TypePorts
  <2> QED
    BY <2>2, <2>3, <2>5 DEF TypeOK
<1>4. CASE AttachFails(c)
  <2>1. Verdict(c) \in Results
    <3>1. Verdict(c) # "ok"
      BY <1>4 DEF AttachFails
    <3> QED
      BY <3>1 DEF Verdict, Results
  <2>2. [NoLoc EXCEPT !.port = loc[c].port, !.res = Verdict(c)] \in LocType
    BY <2>1, NoLocType DEF TypeOK, TypeConns, LocType
  <2>3. [NoLoc EXCEPT !.port = loc[c].port, !.res = Verdict(c)].next = ""
    BY DEF NoLoc
  <2> DEFINE locals == [NoLoc EXCEPT !.port = loc[c].port, !.res = Verdict(c)]
  <2>4. loc' = [loc EXCEPT ![c] = locals] /\ rpc' = [rpc EXCEPT ![c] = "reply"]
        /\ UNCHANGED <<cport, writable, killed>>
    BY <1>4 DEF AttachFails, Goto, Own
  <2> HIDE DEF locals
  <2>5. locals \in LocType /\ locals.next = ""
    BY <2>2, <2>3 DEF locals
  <2>6. TypeConns'
    BY <2>4, <2>5 DEF TypeOK, TypeConns, ReaderAt, AtPort
  <2> QED
    BY <1>4, <2>6, TypeOwn DEF AttachFails
<1>5. CASE Bind(c)
  <2>1. TypeConns'
    BY <1>5 DEF Bind, Goto, Own, TypeOK, TypeConns, ReaderAt, AtPort, LocType
  <2> QED
    BY <1>5, <2>1, TypeOwn DEF Bind
<1>6. CASE Ensure(c)
  <2>1. TypeConns'
    BY <1>6 DEF Ensure, Goto, TypeOK, TypeConns, ReaderAt, AtPort
  <2>2. TypePorts'
    BY <1>6 DEF Ensure, EnsureWorker, CUnchanged, TypeOK, TypePorts, WorkerAt
  <2>3. TypeManager' /\ TypeLock'
    BY <1>6 DEF Ensure, EnsureWorker, CUnchanged, stop, scanv, lock, TypeOK, TypeManager, TypeLock
  <2> QED
    BY <2>1, <2>2, <2>3 DEF TypeOK
<1>7. CASE OpenLog(c) \/ NoteWrite(c)
  <2>1. TypePorts'
    BY <1>7 DEF OpenLog, NoteWrite, Note, CUnchanged, TypeOK, TypePorts
  <2>2. /\ loc' = [loc EXCEPT ![c] = NoLoc] /\ UNCHANGED <<cport, writable, killed>>
        /\ \E l \in {"reply", "ending", "read"} : rpc' = [rpc EXCEPT ![c] = l]
    BY <1>7 DEF OpenLog, NoteWrite, Goto, After
  <2>3. NoLoc.next = ""
    BY DEF NoLoc
  <2>4. TypeConns'
    BY <2>2, <2>3, NoLocType DEF TypeOK, TypeConns, ReaderAt, AtPort
  <2>5. TypeManager' /\ TypeLock'
    BY <1>7 DEF OpenLog, NoteWrite, CUnchanged, stop, scanv, lock, TypeOK, TypeManager, TypeLock
  <2> QED
    BY <2>1, <2>4, <2>5 DEF TypeOK
<1>8. CASE Reply(c) \/ \E ok \in BOOLEAN : DevWrite(c, ok)
  <2>1. /\ UNCHANGED <<cport, writable, killed>> /\ Own
        /\ \/ \E l \in {"reply", "notelock"} :
                  rpc[c] = "devwrite" /\ rpc' = [rpc EXCEPT ![c] = l] /\ loc' = loc
           \/ /\ loc' = [loc EXCEPT ![c] = NoLoc]
              /\ \E l \in {"ending", "read"} : rpc' = [rpc EXCEPT ![c] = l]
    BY <1>8 DEF Reply, DevWrite, Goto, After, Own
  <2>2. NoLoc.next = ""
    BY DEF NoLoc
  <2>3. TypeConns'
    <3>1. ASSUME NEW l \in {"reply", "notelock"}, rpc[c] = "devwrite",
                 rpc' = [rpc EXCEPT ![c] = l], loc' = loc
          PROVE TypeConns'
      BY <2>1, <3>1 DEF TypeOK, TypeConns, ReaderAt, AtPort
    <3>2. ASSUME NEW l \in {"ending", "read"}, rpc' = [rpc EXCEPT ![c] = l],
                 loc' = [loc EXCEPT ![c] = NoLoc]
          PROVE TypeConns'
      BY <2>1, <2>2, <3>2, NoLocType, TypeMove DEF TypeOK, ReaderAt, AtPort
    <3> QED
      BY <2>1, <3>1, <3>2
  <2> QED
    BY <2>1, <2>3, TypeOwn
<1>9. CASE GetDevice(c)
  <2>1. TypeConns'
    BY <1>9 DEF GetDevice, Goto, Own, TypeOK, TypeConns, ReaderAt, AtPort
  <2> QED
    BY <1>9, <2>1, TypeOwn DEF GetDevice
<1>10. CASE NoteLock(c)
  <2>1. logw[loc[c].port] \in BOOLEAN
    BY <1>10 DEF NoteLock, TypeOK, TypeConns, TypePorts, AtPort
  <2>2. TypeConns'
    <3> DEFINE b == logw[loc[c].port]
               r == [loc[c] EXCEPT !.log = b]
    <3>1. rpc' = [rpc EXCEPT ![c] = "notewrite"] /\ loc' = [loc EXCEPT ![c] = r]
          /\ UNCHANGED <<cport, writable, killed>>
      BY <1>10 DEF NoteLock, Goto, Own
    <3>2. /\ loc[c] \in LocType /\ loc[c].port \in Ports
          /\ loc[c].next = "attach" => loc[c].port \in Ports
      BY <1>10 DEF NoteLock, TypeOK, TypeConns, AtPort
    <3> HIDE DEF b
    <3>3. r \in LocType /\ r.port = loc[c].port /\ r.old = loc[c].old /\ r.next = loc[c].next
      BY <2>1, <3>2, TypeLog DEF b
    <3> HIDE DEF r
    <3> QED
      BY <3>1, <3>2, <3>3, TypeMove DEF TypeOK, ReaderAt, AtPort
  <2> QED
    BY <1>10, <2>2, TypeOwn DEF NoteLock
<1>11. CASE Drop(c) \/ Unregister(c)
  <2>1. TypeConns'
    BY ZenonT(60), <1>11 DEF Drop, Unregister, Goto, TypeOK, TypeConns, ReaderAt, AtPort
  <2>2. TypeManager' /\ TypePorts' /\ TypeLock'
    BY <1>11 DEF Drop, Unregister, CUnchanged, stop, scanv, lock, TypeOK, TypeManager,
                 TypePorts, TypeLock
  <2> QED
    BY <2>1, <2>2 DEF TypeOK
<1> QED
  BY <1>1, <1>2, <1>3, <1>4, <1>5, <1>6, <1>7, <1>8, <1>9, <1>10, <1>11 DEF Handle

LEMMA TypeStep == TypeOK /\ [Next]_vars => TypeOK'
<1> SUFFICES ASSUME TypeOK, [Next]_vars PROVE TypeOK'
  OBVIOUS
<1>1. CASE UNCHANGED vars \/ Finished
  BY ZenonT(60), <1>1 DEF Finished, vars, mgr, stop, scanv, port, lock, conn, TypeOK, TypeManager,
              TypePorts, TypeLock, TypeConns
<1>2. CASE Next /\ ~Finished
  BY <1>2, TypeScanner, TypeWorker, TypeReceive, TypeHandle, TypeClosing DEF Next
<1> QED
  BY <1>1, <1>2

(* The type invariant of the hub (TypeOK). *)
THEOREM TypeCorrect == Spec => []TypeOK
  BY TypeInit, TypeStep, PTL DEF Spec

----------------------------------------------------------------------------
(* The attachment invariant.                                               *)

LEMMA AttachmentInit == Init => Attachment
  BY DEF Init, Attachment, At, Types

(* Steps of the scanner, the workers, Close and kill touch neither record. *)
LEMMA AttachmentFrame ==
  ASSUME Attachment, UNCHANGED <<lock, rpc, cport, writable, loc>> PROVE Attachment'
  BY DEF Attachment, At, Types, lock

(* A read loop that moves on without touching an attachment. *)
LEMMA AttachmentMove ==
  ASSUME TypeOK, Attachment, NEW c \in Conns, NEW l \in ReaderAt,
         rpc' = [rpc EXCEPT ![c] = l], \A d \in Conns \ {c} : loc'[d] = loc[d],
         UNCHANGED <<lock, cport, writable>>,
         {rpc[c], l} \intersect {"bind", "unlink"} = {},
         l \in {"new", "closelog", "attach", "drop", "unregister", "gone"} =>
           cport[c] = None /\ ~writable[c],
         l \in {"getdev", "devwrite", "notelock", "notewrite"} =>
           loc'[c].port = cport[c] /\ writable[c]
  PROVE  Attachment'
<1>1. rpc'[c] = l /\ \A d \in Conns \ {c} : rpc'[d] = rpc[d]
  BY DEF TypeOK, TypeConns
<1>2. ASSUME NEW d \in Conns, NEW p \in Ports
      PROVE  /\ d \in pconns'[p] <=> At(d)' = p
             /\ owner'[p] = d => d \in pconns'[p]
             /\ d \in pconns'[p] /\ rpc'[d] # "unlink" => (owner'[p] = d <=> Types(d)')
  <2>1. /\ d \in pconns[p] <=> At(d) = p
        /\ owner[p] = d => d \in pconns[p]
        /\ d \in pconns[p] /\ rpc[d] # "unlink" => (owner[p] = d <=> Types(d))
    BY DEF Attachment
  <2>2. pconns'[p] = pconns[p] /\ owner'[p] = owner[p]
    BY DEF lock
  <2>3. At(d)' = At(d) /\ Types(d)' = Types(d) /\ (rpc'[d] = "unlink" <=> rpc[d] = "unlink")
    BY <1>1 DEF At, Types
  <2> QED
    BY <2>1, <2>2, <2>3, Zenon
<1>3. ASSUME NEW d \in Conns
      PROVE  /\ rpc'[d] \in {"new", "unlink", "closelog", "attach", "bind", "drop",
                             "unregister", "gone"} => cport'[d] = None /\ ~writable'[d]
             /\ rpc'[d] \in {"getdev", "devwrite", "notelock", "notewrite"} =>
                  loc'[d].port = cport'[d] /\ writable'[d]
  <2>1. CASE d = c
    BY <1>1, <2>1
  <2>2. CASE d # c
    BY <1>1, <2>2 DEF Attachment
  <2> QED
    BY <2>1, <2>2
<1> QED
  BY <1>2, <1>3 DEF Attachment

(* detach's section under c.mu: the attachment moves into the locals. *)
LEMMA AttachmentDetach ==
  ASSUME TypeOK, Attachment, NEW c \in Conns, NEW l \in {"attach", "reply", "drop"},
         NEW locals \in LocType, DetachThen(c, l, locals), UNCHANGED lock,
         rpc[c] \in {"read", "ending"}
  PROVE  Attachment'
<1>1. /\ rpc'[c] = IF cport[c] = None THEN l ELSE "unlink"
      /\ cport'[c] = None /\ writable'[c] = FALSE
      /\ \A d \in Conns \ {c} : /\ rpc'[d] = rpc[d] /\ cport'[d] = cport[d]
                                /\ writable'[d] = writable[d] /\ loc'[d] = loc[d]
  BY DEF DetachThen, Goto, TypeOK, TypeConns
<1>2. cport[c] # None => loc'[c].old = cport[c]
  BY DEF DetachThen, TypeOK, TypeConns, LocType
<1>3. At(c)' = At(c) /\ \A d \in Conns \ {c} : At(d)' = At(d) /\ Types(d)' = Types(d)
  BY <1>1, <1>2 DEF At, Types
<1>4. ASSUME NEW d \in Conns, NEW p \in Ports
      PROVE  /\ d \in pconns'[p] <=> At(d)' = p
             /\ owner'[p] = d => d \in pconns'[p]
             /\ d \in pconns'[p] /\ rpc'[d] # "unlink" => (owner'[p] = d <=> Types(d)')
  <2>1. CASE d = c
    BY <1>1, <1>3, <2>1 DEF Attachment, lock, At
  <2>2. CASE d # c
    BY <1>1, <1>3, <2>2 DEF Attachment, lock
  <2> QED
    BY <2>1, <2>2
<1>5. ASSUME NEW d \in Conns
      PROVE  /\ rpc'[d] \in {"new", "unlink", "closelog", "attach", "bind", "drop",
                             "unregister", "gone"} => cport'[d] = None /\ ~writable'[d]
             /\ rpc'[d] \in {"getdev", "devwrite", "notelock", "notewrite"} =>
                  loc'[d].port = cport'[d] /\ writable'[d]
  BY <1>1 DEF Attachment
<1> QED
  BY <1>4, <1>5 DEF Attachment

LEMMA AttachmentReceive ==
  ASSUME TypeOK, Attachment, NEW c \in Conns, Receive(c) \/ Kill(c) \/ Accept(c)
  PROVE  Attachment'
<1>1. ASSUME NEW p \in Ports, NEW w \in BOOLEAN, NEW b \in Bauds \union {None},
             RecvOpen(c, p, w, b)
      PROVE Attachment'
  <2> DEFINE locals == [NoLoc EXCEPT !.port = p, !.write = w, !.baud = b]
  <2>1. locals \in LocType
    BY NoLocType DEF NoLoc, LocType
  <2>2. DetachThen(c, "attach", locals) /\ UNCHANGED lock /\ rpc[c] = "read"
    BY <1>1 DEF RecvOpen, Own
  <2> HIDE DEF locals
  <2> QED
    BY <2>1, <2>2, AttachmentDetach
<1>2. CASE RecvClose(c) \/ RecvEnd(c)
  BY <1>2, NoLocType, AttachmentDetach DEF RecvClose, RecvEnd, Own
<1>3. CASE RecvAsk(c)
  BY <1>3, AttachmentMove DEF RecvAsk, Goto, Own, ReaderAt
<1>4. ASSUME NEW br \in BOOLEAN, RecvInput(c, br) PROVE Attachment'
  <2>1. CASE cport[c] # None /\ writable[c]
    <3>1. loc'[c].port = cport[c] /\ \A d \in Conns \ {c} : loc'[d] = loc[d]
      <4> DEFINE r == [loc[c] EXCEPT !.port = cport[c], !.write = br]
      <4>1. loc' = [loc EXCEPT ![c] = r]
        BY <1>4, <2>1 DEF RecvInput
      <4>2. r.port = cport[c]
        <5>1. loc[c] \in LocType
          BY DEF TypeOK, TypeConns
        <5> QED
          BY <5>1 DEF LocType
      <4> HIDE DEF r
      <4> QED
        BY <4>1, <4>2 DEF TypeOK, TypeConns
    <3>2. /\ rpc' = [rpc EXCEPT ![c] = "getdev"] /\ rpc[c] = "read"
          /\ UNCHANGED <<lock, cport, writable>>
      BY <1>4, <2>1 DEF RecvInput, Goto, Own
    <3> QED
      BY ZenonT(60), <2>1, <3>1, <3>2, AttachmentMove DEF ReaderAt
  <2>2. CASE ~(cport[c] # None /\ writable[c])
    <3>1. /\ \E l \in {"reply", "ending", "read"} : rpc' = [rpc EXCEPT ![c] = l]
          /\ rpc[c] = "read" /\ UNCHANGED <<lock, cport, writable, loc>>
      BY <1>4, <2>2 DEF RecvInput, Goto, Own, After
    <3> QED
      BY ZenonT(60), <3>1, AttachmentMove DEF ReaderAt
  <2> QED
    BY <2>1, <2>2
<1>5. CASE Kill(c)
  BY <1>5, AttachmentFrame DEF Kill
<1>6. CASE Accept(c)
  <2>1. /\ \E l \in {"gone", "read"} : rpc' = [rpc EXCEPT ![c] = l]
        /\ rpc[c] = "new" /\ UNCHANGED <<lock, cport, writable, loc>>
    BY <1>6 DEF Accept, Goto
  <2>2. cport[c] = None /\ ~writable[c]
    BY <2>1 DEF Attachment
  <2> QED
    BY ZenonT(60), <2>1, <2>2, AttachmentMove DEF ReaderAt
<1> QED
  BY <1>1, <1>2, <1>3, <1>4, <1>5, <1>6 DEF Receive

(* detach's section under p.mu takes the connection out of the port. *)
LEMMA AttachmentUnlink ==
  ASSUME TypeOK, Attachment, NEW c \in Conns, Unlink(c) PROVE Attachment'
<1> DEFINE q == loc[c].old
<1>1. q \in Ports /\ At(c) = q /\ cport[c] = None /\ ~writable[c]
  BY DEF Unlink, TypeOK, TypeConns, At, Attachment
<1>2. /\ rpc' = [rpc EXCEPT ![c] = "closelog"] /\ UNCHANGED <<cport, writable>>
      /\ \A d \in Conns \ {c} : loc'[d] = loc[d]
  BY DEF Unlink, Goto, TypeOK, TypeConns
<1>3. rpc'[c] = "closelog" /\ \A d \in Conns \ {c} : rpc'[d] = rpc[d]
  BY <1>2 DEF TypeOK, TypeConns
<1>4. /\ pconns' = [pconns EXCEPT ![q] = @ \ {c}]
      /\ owner' = [owner EXCEPT ![q] = IF @ = c THEN None ELSE @]
  BY DEF Unlink
<1>5. ASSUME NEW d \in Conns, NEW p \in Ports
      PROVE  /\ d \in pconns'[p] <=> At(d)' = p
             /\ owner'[p] = d => d \in pconns'[p]
             /\ d \in pconns'[p] /\ rpc'[d] # "unlink" => (owner'[p] = d <=> Types(d)')
  <2>1. CASE d = c
    <3>1. At(d)' = None
      BY <1>1, <1>2, <1>3, <2>1 DEF At
    <3>2. d \notin pconns'[p] /\ owner'[p] # d
      BY <1>1, <1>4, <2>1 DEF Attachment, TypeOK, TypeLock
    <3> QED
      BY <3>1, <3>2
  <2>2. CASE d # c
    <3>1. At(d)' = At(d) /\ Types(d)' = Types(d) /\ rpc'[d] = rpc[d]
      BY <1>2, <1>3, <2>2 DEF At, Types
    <3>2. (d \in pconns'[p] <=> d \in pconns[p]) /\ (owner'[p] = d <=> owner[p] = d)
      BY <1>1, <1>4, <2>2 DEF TypeOK, TypeLock
    <3>3. /\ d \in pconns[p] <=> At(d) = p
          /\ owner[p] = d => d \in pconns[p]
          /\ d \in pconns[p] /\ rpc[d] # "unlink" => (owner[p] = d <=> Types(d))
      BY DEF Attachment
    <3> QED
      BY <3>1, <3>2, <3>3, Zenon
  <2> QED
    BY <2>1, <2>2
<1>6. ASSUME NEW d \in Conns
      PROVE  /\ rpc'[d] \in {"new", "unlink", "closelog", "attach", "bind", "drop",
                             "unregister", "gone"} => cport'[d] = None /\ ~writable'[d]
             /\ rpc'[d] \in {"getdev", "devwrite", "notelock", "notewrite"} =>
                  loc'[d].port = cport'[d] /\ writable'[d]
  <2>1. CASE d = c
    BY <1>1, <1>2, <1>3, <2>1
  <2>2. CASE d # c
    BY <1>2, <1>3, <2>2 DEF Attachment
  <2> QED
    BY <2>1, <2>2
<1> QED
  BY <1>5, <1>6 DEF Attachment

(* handleOpen's section under p.mu puts the connection into the port. *)
LEMMA AttachmentAttach ==
  ASSUME TypeOK, Attachment, NEW c \in Conns, Attach(c) PROVE Attachment'
<1> DEFINE q == loc[c].port
           w == loc[c].write
<1>1. /\ q \in Ports /\ At(c) = None /\ cport[c] = None /\ ~writable[c]
      /\ \A p \in Ports : c \notin pconns[p] /\ owner[p] # c
  <2>1. rpc[c] = "attach"
    BY DEF Attach
  <2>2. q \in Ports
    BY <2>1 DEF TypeOK, TypeConns, AtPort
  <2>3. cport[c] = None /\ ~writable[c]
    BY <2>1 DEF Attachment
  <2>4. At(c) = None
    BY <2>1, <2>3 DEF At
  <2>5. \A p \in Ports : c \notin pconns[p]
    BY <2>4 DEF Attachment
  <2>6. \A p \in Ports : owner[p] # c
    BY <2>5 DEF Attachment
  <2> QED
    BY <2>2, <2>3, <2>4, <2>5, <2>6
<1>2. w \in BOOLEAN /\ (w => owner[q] = None)
  <2>1. w \in BOOLEAN
    BY DEF TypeOK, TypeConns, LocType
  <2>2. w => owner[q] \in {None, c}
    BY DEF Attach, Verdict
  <2> QED
    BY <1>1, <2>1, <2>2
<1>3. /\ rpc' = [rpc EXCEPT ![c] = "bind"] /\ UNCHANGED <<cport, writable>>
      /\ \A d \in Conns \ {c} : loc'[d] = loc[d]
  BY DEF Attach, Goto, TypeOK, TypeConns
<1>4. rpc'[c] = "bind" /\ \A d \in Conns \ {c} : rpc'[d] = rpc[d]
  BY <1>3 DEF TypeOK, TypeConns
<1>5. loc'[c].port = q /\ loc'[c].write = w
  <2> DEFINE b == logw[q]
             r == [loc[c] EXCEPT !.log = b]
  <2>1. loc' = [loc EXCEPT ![c] = r]
    BY DEF Attach
  <2>2. loc[c] \in LocType
    BY DEF TypeOK, TypeConns
  <2> HIDE DEF b
  <2>3. r.port = q /\ r.write = w
    BY <2>2 DEF LocType
  <2> HIDE DEF r
  <2> QED
    BY <2>1, <2>3 DEF TypeOK, TypeConns
<1>6. /\ pconns' = [pconns EXCEPT ![q] = @ \union {c}]
      /\ owner' = [owner EXCEPT ![q] = IF w THEN c ELSE @]
  BY DEF Attach
<1> HIDE DEF q, w
<1>7. ASSUME NEW d \in Conns, NEW p \in Ports
      PROVE  /\ d \in pconns'[p] <=> At(d)' = p
             /\ owner'[p] = d => d \in pconns'[p]
             /\ d \in pconns'[p] /\ rpc'[d] # "unlink" => (owner'[p] = d <=> Types(d)')
  <2>1. CASE d = c
    <3>1. At(d)' = q /\ Types(d)' = w
      BY <1>4, <1>5, <2>1 DEF At, Types
    <3>2. (d \in pconns'[p] <=> p = q) /\ (owner'[p] = d <=> p = q /\ w)
      BY <1>1, <1>2, <1>6, <2>1 DEF TypeOK, TypeLock
    <3> QED
      BY <1>2, <3>1, <3>2
  <2>2. CASE d # c
    <3>1. At(d)' = At(d) /\ Types(d)' = Types(d) /\ rpc'[d] = rpc[d]
      BY <1>3, <1>4, <2>2 DEF At, Types
    <3>2. (d \in pconns'[p] <=> d \in pconns[p]) /\ (owner'[p] = d <=> owner[p] = d)
      BY <1>1, <1>2, <1>6, <2>2 DEF TypeOK, TypeLock
    <3>3. /\ d \in pconns[p] <=> At(d) = p
          /\ owner[p] = d => d \in pconns[p]
          /\ d \in pconns[p] /\ rpc[d] # "unlink" => (owner[p] = d <=> Types(d))
      BY DEF Attachment
    <3> QED
      BY <3>1, <3>2, <3>3, Zenon
  <2> QED
    BY <2>1, <2>2
<1>8. ASSUME NEW d \in Conns
      PROVE  /\ rpc'[d] \in {"new", "unlink", "closelog", "attach", "bind", "drop",
                             "unregister", "gone"} => cport'[d] = None /\ ~writable'[d]
             /\ rpc'[d] \in {"getdev", "devwrite", "notelock", "notewrite"} =>
                  loc'[d].port = cport'[d] /\ writable'[d]
  <2>1. CASE d = c
    BY <1>1, <1>3, <1>4, <2>1
  <2>2. CASE d # c
    BY <1>3, <1>4, <2>2 DEF Attachment
  <2> QED
    BY <2>1, <2>2
<1> QED
  BY <1>7, <1>8 DEF Attachment

(* handleOpen's section under c.mu: the connection's own record follows. *)
LEMMA AttachmentBind ==
  ASSUME TypeOK, Attachment, NEW c \in Conns, Bind(c) PROVE Attachment'
<1>1. /\ rpc'[c] = "ensure" /\ cport'[c] = loc[c].port /\ writable'[c] = loc[c].write
      /\ UNCHANGED <<loc, lock>>
      /\ \A d \in Conns \ {c} : rpc'[d] = rpc[d] /\ cport'[d] = cport[d]
                                /\ writable'[d] = writable[d]
  BY DEF Bind, Goto, Own, TypeOK, TypeConns
<1>2. rpc[c] = "bind"
  BY DEF Bind
<1>3. ASSUME NEW d \in Conns, NEW p \in Ports
      PROVE  /\ d \in pconns'[p] <=> At(d)' = p
             /\ owner'[p] = d => d \in pconns'[p]
             /\ d \in pconns'[p] /\ rpc'[d] # "unlink" => (owner'[p] = d <=> Types(d)')
  <2>1. /\ At(d)' = At(d) /\ Types(d)' = Types(d)
        /\ rpc'[d] = "unlink" <=> rpc[d] = "unlink"
    BY <1>1, <1>2 DEF At, Types
  <2>2. pconns'[p] = pconns[p] /\ owner'[p] = owner[p]
    BY <1>1 DEF lock
  <2>3. /\ d \in pconns[p] <=> At(d) = p
        /\ owner[p] = d => d \in pconns[p]
        /\ d \in pconns[p] /\ rpc[d] # "unlink" => (owner[p] = d <=> Types(d))
    BY DEF Attachment
  <2> QED
    BY <2>1, <2>2, <2>3, Zenon
<1>4. ASSUME NEW d \in Conns
      PROVE  /\ rpc'[d] \in {"new", "unlink", "closelog", "attach", "bind", "drop",
                             "unregister", "gone"} => cport'[d] = None /\ ~writable'[d]
             /\ rpc'[d] \in {"getdev", "devwrite", "notelock", "notewrite"} =>
                  loc'[d].port = cport'[d] /\ writable'[d]
  BY <1>1 DEF Attachment
<1> QED
  BY <1>3, <1>4 DEF Attachment

LEMMA AttachmentHandle ==
  ASSUME TypeOK, Attachment, NEW c \in Conns, Handle(c) PROVE Attachment'
<1> USE DEF ReaderAt
<1>1. CASE CloseLog(c)
  <2>1. loc[c].next \in {"attach", "reply", "drop"} /\ cport[c] = None /\ ~writable[c]
    <3>1. rpc[c] = "closelog"
      BY <1>1 DEF CloseLog
    <3>2. loc[c].next \in {"attach", "reply", "drop"}
      BY <3>1 DEF TypeOK, TypeConns, LocType
    <3> QED
      BY <3>1, <3>2 DEF Attachment
  <2>2. /\ rpc' = [rpc EXCEPT ![c] = loc[c].next] /\ rpc[c] = "closelog"
        /\ UNCHANGED <<lock, cport, writable>> /\ \A d \in Conns \ {c} : loc'[d] = loc[d]
    BY <1>1 DEF CloseLog, Goto, TypeOK, TypeConns
  <2> QED
    BY ZenonT(60), <2>1, <2>2, AttachmentMove
<1>2. CASE AttachFails(c) \/ OpenLog(c) \/ Reply(c)
  <2>1. /\ \E l \in {"reply", "ending", "read"} : rpc' = [rpc EXCEPT ![c] = l]
        /\ rpc[c] \in {"attach", "openlog", "reply"} /\ UNCHANGED <<lock, cport, writable>>
        /\ \A d \in Conns \ {c} : loc'[d] = loc[d]
    BY <1>2 DEF AttachFails, OpenLog, Reply, Goto, After, Own, TypeOK, TypeConns
  <2> QED
    BY <2>1, AttachmentMove
<1>3. CASE Ensure(c)
  <2>1. /\ rpc' = [rpc EXCEPT ![c] = "openlog"] /\ rpc[c] = "ensure"
        /\ UNCHANGED <<lock, cport, writable, loc>>
    BY <1>3 DEF Ensure, Goto
  <2> QED
    BY <2>1, AttachmentMove
<1>4. CASE GetDevice(c) \/ NoteLock(c) \/ NoteWrite(c) \/ \E ok \in BOOLEAN : DevWrite(c, ok)
  <2>1. PICK l \in {"devwrite", "reply", "notelock", "notewrite", "ending", "read"} :
          rpc' = [rpc EXCEPT ![c] = l]
    BY <1>4 DEF GetDevice, NoteLock, NoteWrite, DevWrite, Goto, After
  <2>2. /\ rpc[c] \in {"getdev", "devwrite", "notelock", "notewrite"}
        /\ UNCHANGED <<lock, cport, writable>> /\ \A d \in Conns \ {c} : loc'[d] = loc[d]
    BY <1>4 DEF GetDevice, NoteLock, NoteWrite, DevWrite, Own, TypeOK, TypeConns
  <2>3. loc[c].port = cport[c] /\ writable[c]
    BY <2>2 DEF Attachment
  <2>4. l \in {"devwrite", "notelock", "notewrite"} => loc'[c].port = loc[c].port
    <3>1. CASE NoteLock(c)
      <4> DEFINE b == logw[loc[c].port]
                 r == [loc[c] EXCEPT !.log = b]
      <4>1. loc' = [loc EXCEPT ![c] = r] /\ r.port = loc[c].port
        BY ZenonT(60), <3>1 DEF NoteLock, TypeOK, TypeConns, LocType
      <4> HIDE DEF r
      <4> QED
        BY <4>1 DEF TypeOK, TypeConns
    <3>2. CASE GetDevice(c) \/ NoteWrite(c)
      BY <2>1, <3>2 DEF GetDevice, NoteWrite, Goto, After, TypeOK, TypeConns
    <3>3. ASSUME NEW ok \in BOOLEAN, DevWrite(c, ok)
          PROVE l \in {"devwrite", "notelock", "notewrite"} => loc'[c].port = loc[c].port
      BY <2>1, <3>3 DEF DevWrite, Goto, After, TypeOK, TypeConns
    <3> QED
      BY <1>4, <3>1, <3>2, <3>3
  <2>5. /\ {rpc[c], l} \intersect {"bind", "unlink"} = {} /\ l \in ReaderAt
        /\ l \notin {"new", "closelog", "attach", "drop", "unregister", "gone", "getdev"}
    BY <2>2
  <2>6. l \in {"getdev", "devwrite", "notelock", "notewrite"} =>
          loc'[c].port = cport[c] /\ writable[c]
    BY <2>3, <2>4, <2>5
  <2> HIDE DEF ReaderAt
  <2> QED
    BY <2>1, <2>2, <2>5, <2>6, AttachmentMove
<1>5. CASE Drop(c) \/ Unregister(c)
  <2>1. /\ \E l \in {"unregister", "gone"} : rpc' = [rpc EXCEPT ![c] = l]
        /\ rpc[c] \in {"drop", "unregister"} /\ UNCHANGED <<lock, cport, writable, loc>>
    BY <1>5 DEF Drop, Unregister, Goto
  <2>2. cport[c] = None /\ ~writable[c]
    BY <2>1 DEF Attachment
  <2> QED
    BY <2>1, <2>2, AttachmentMove
<1> QED
  BY <1>1, <1>2, <1>3, <1>4, <1>5, AttachmentUnlink, AttachmentAttach, AttachmentBind DEF Handle

LEMMA AttachmentStep == TypeOK /\ Attachment /\ [Next]_vars => Attachment'
<1> SUFFICES ASSUME TypeOK, Attachment, [Next]_vars PROVE Attachment'
  OBVIOUS
<1>1. CASE UNCHANGED vars \/ Finished
  BY <1>1, AttachmentFrame DEF Finished, vars, conn
<1>2. CASE Scanner
  BY <1>2, AttachmentFrame DEF Scanner, Sync, SyncEnsure, ScanStop, conn
<1>3. ASSUME NEW p \in Ports, Worker(p) PROVE Attachment'
  BY <1>3, AttachmentFrame DEF Worker, WTop, WOpen, WOpenFails, WOnline, WRead, WReadFails,
     WOffline, WSleep, WClose, WClear, WRelease, WUnchanged, conn
<1>4. CASE Close \/ Closing
  BY <1>4, AttachmentFrame DEF Close, Closing, CloseKill, CloseShut, CloseDevice, CloseWait,
     CloseRelease, CloseReturn, SUnchanged
<1>5. ASSUME NEW c \in Conns, Accept(c) \/ Receive(c) \/ Handle(c) \/ Kill(c)
      PROVE Attachment'
  BY <1>5, AttachmentReceive, AttachmentHandle
<1> QED
  BY <1>1, <1>2, <1>3, <1>4, <1>5 DEF Next

(* The port's and the connection's records of an attachment agree at every  *)
(* point between two critical sections of handleOpen and detach.            *)
THEOREM AttachmentHolds == Spec => [](TypeOK /\ Attachment)
<1>1. Init => TypeOK /\ Attachment
  BY TypeInit, AttachmentInit
<1>2. TypeOK /\ Attachment /\ [Next]_vars => (TypeOK /\ Attachment)'
  BY TypeStep, AttachmentStep
<1> QED
  BY <1>1, <1>2, PTL DEF Spec

----------------------------------------------------------------------------
(* What the attachment invariant gives.                                    *)

(* A port never has two writers (SingleWriter). *)
THEOREM SingleWriterHolds == Spec => []SingleWriter
<1>1. TypeOK /\ Attachment => SingleWriter
  <2> SUFFICES ASSUME Attachment, NEW c \in Conns, NEW p \in Ports, writable[c], cport[c] = p
               PROVE  owner[p] = c
    BY DEF SingleWriter
  <2>1. rpc[c] \notin {"bind", "unlink"}
    BY DEF Attachment
  <2>2. At(c) = p /\ Types(c)
    BY <2>1 DEF At, Types
  <2> QED
    BY <2>1, <2>2 DEF Attachment
<1> QED
  BY <1>1, AttachmentHolds, PTL

(* Whatever is written to a device comes from the port's owner, although    *)
(* the write happens outside the locks (WriteAuthority).                    *)
THEOREM WriteAuthorityHolds == Spec => []WriteAuthority
<1>1. TypeOK /\ Attachment => WriteAuthority
  <2> SUFFICES ASSUME TypeOK, Attachment, NEW c \in Conns, rpc[c] = "devwrite"
               PROVE  owner[loc[c].port] = c
    BY DEF WriteAuthority
  <2>1. loc[c].port \in Ports
    BY DEF TypeOK, TypeConns, AtPort
  <2>2. loc[c].port = cport[c] /\ writable[c]
    BY DEF Attachment
  <2>3. At(c) = loc[c].port /\ Types(c)
    BY <2>2 DEF At, Types
  <2> QED
    BY <2>1, <2>3 DEF Attachment
<1> QED
  BY <1>1, AttachmentHolds, PTL

(* A client is in the fan-out set of one port at most, an owner is in its   *)
(* port's (OneAttachment).                                                  *)
THEOREM OneAttachmentHolds == Spec => []OneAttachment
<1>1. TypeOK /\ Attachment => OneAttachment
  <2> SUFFICES ASSUME TypeOK, Attachment PROVE OneAttachment
    OBVIOUS
  <2>1. \A c \in Conns, p, q \in Ports : c \in pconns[p] /\ c \in pconns[q] => p = q
    BY DEF Attachment
  <2>2. \A p \in Ports : owner[p] \in pconns[p] \union {None}
    BY DEF Attachment, TypeOK, TypeLock
  <2> QED
    BY <2>1, <2>2 DEF OneAttachment
<1> QED
  BY <1>1, AttachmentHolds, PTL

(* A connection past its detach keeps no port busy (NothingLeaks). *)
THEOREM NothingLeaksHolds == Spec => []NothingLeaks
<1>1. TypeOK /\ Attachment => NothingLeaks
  <2> SUFFICES ASSUME Attachment, NEW c \in Conns, NEW p \in Ports,
                      rpc[c] \in {"drop", "unregister", "gone"}
               PROVE  c \notin pconns[p] /\ owner[p] # c
    BY DEF NothingLeaks
  <2>1. At(c) = None
    BY DEF Attachment, At
  <2> QED
    BY <2>1 DEF Attachment
<1> QED
  BY <1>1, AttachmentHolds, PTL

(* Every step of the hub is a step of the lease or leaves the lease alone. *)
LEMMA LeaseStep ==
  TypeOK /\ Attachment /\ [Next]_vars => [L!Next]_<<owner, pconns>>
<1> SUFFICES ASSUME TypeOK, Attachment, [Next]_vars, ~(UNCHANGED <<owner, pconns>>)
             PROVE  L!Next
  BY DEF L!Next
<1>1. \E c \in Conns : Attach(c) \/ Unlink(c)
  <2>1. ~(Finished \/ UNCHANGED vars \/ Scanner \/ Close \/ Closing)
    BY DEF Finished, vars, lock, Scanner, Sync, SyncEnsure, ScanStop, Close, Closing, CloseKill,
       CloseShut, CloseDevice, CloseWait, CloseRelease, CloseReturn, SUnchanged
  <2>2. \A p \in Ports : ~Worker(p)
    BY DEF lock, Worker, WTop, WOpen, WOpenFails, WOnline, WRead, WReadFails,
       WOffline, WSleep, WClose, WClear, WRelease, WUnchanged
  <2>3. \A c \in Conns : ~(Accept(c) \/ Receive(c) \/ Kill(c))
    BY DEF lock, Accept, Receive, Kill, RecvOpen, RecvClose, RecvEnd, RecvAsk, RecvInput, Own
  <2>4. \E c \in Conns : Handle(c)
    BY <2>1, <2>2, <2>3 DEF Next
  <2> QED
    BY <2>4 DEF lock, Handle, CloseLog, AttachFails, Bind, Ensure, OpenLog, Reply, GetDevice,
       DevWrite, NoteLock, NoteWrite, Drop, Unregister, Own
<1>2. ASSUME NEW c \in Conns, Attach(c) PROVE L!Next
  <2> DEFINE p == loc[c].port
  <2>1. rpc[c] = "attach" /\ Verdict(c) = "ok"
    BY <1>2 DEF Attach
  <2>2. p \in Ports /\ loc[c].write \in BOOLEAN
    BY <2>1 DEF TypeOK, TypeConns, AtPort, LocType
  <2>3. At(c) = None
    BY <2>1 DEF At, Attachment
  <2>4. L!Free(c)
    BY <2>3 DEF Attachment, L!Free
  <2>5. CASE loc[c].write
    <3>1. owner[p] = None
      <4>1. owner[p] \in {None, c}
        BY <2>1, <2>5 DEF Verdict
      <4> QED
        BY <2>2, <2>4, <4>1 DEF Attachment, L!Free
    <3>2. L!Acquire(c, p)
      BY <1>2, <2>4, <2>5, <3>1 DEF Attach, L!Acquire
    <3> QED
      BY <2>2, <3>2 DEF L!Next
  <2>6. CASE ~loc[c].write
    <3>1. AllowObserve /\ (MaxObservers > 0 => ~(Cardinality(Observers(p)) >= MaxObservers))
      BY <2>1, <2>6 DEF Verdict
    <3>2. MaxObservers > 0 => Cardinality(pconns[p] \ {owner[p]}) < MaxObservers
      <4>1. IsFiniteSet(pconns[p] \ {owner[p]})
        BY <2>2, FS_Subset DEF TypeOK, TypeLock
      <4>2. Cardinality(pconns[p] \ {owner[p]}) \in Nat
        BY <4>1, FS_CardinalityType
      <4> QED
        BY <3>1, <4>2 DEF Observers
    <3>3. owner' = owner
      BY <1>2, <2>2, <2>6 DEF Attach, TypeOK, TypeLock
    <3>4. L!Watch(c, p)
      <4>1. pconns' = [pconns EXCEPT ![p] = @ \union {c}]
        BY <1>2 DEF Attach
      <4>2. AllowObserve
        BY <3>1
      <4> QED
        BY <2>4, <3>2, <3>3, <4>1, <4>2, Zenon DEF L!Watch, Cardinality, L!Cardinality
    <3> QED
      BY <2>2, <3>4 DEF L!Next
  <2> QED
    BY <2>5, <2>6
<1>3. ASSUME NEW c \in Conns, Unlink(c) PROVE L!Next
  <2> DEFINE p == loc[c].old
  <2>1. rpc[c] = "unlink" /\ p \in Ports
    BY <1>3 DEF Unlink, TypeOK, TypeConns
  <2>2. At(c) = p
    BY <2>1 DEF At
  <2>3. c \in pconns[p]
    BY <2>1, <2>2 DEF Attachment
  <2>4. L!Leave(c, p)
    BY <1>3, <2>3 DEF Unlink, L!Leave
  <2> QED
    BY <2>1, <2>4 DEF L!Next
<1> QED
  BY <1>1, <1>2, <1>3

(* The hub implements the lease, for all clients, ports and policies. *)
THEOREM LeaseImplemented == Spec => ImplementsLease
<1>1. Init => L!Init
  BY DEF Init, L!Init
<1> QED
  BY <1>1, LeaseStep, AttachmentHolds, PTL DEF Spec, ImplementsLease, L!Spec

-----------------------------------------------------------------------------
(* The hub accounts for its workers and stops clean. *)


(* The workers that run. *)
Live == {p \in Ports : wpc[p] \notin {"none", "done"}}

Accounted == WorkersKnown /\ WorkersAccounted

LEMMA LiveIsFinite ==
  TypeOK => /\ IsFiniteSet(Live) /\ Cardinality(Live) \in Nat
            /\ wg \in Int /\ (Live = {} <=> Cardinality(Live) = 0)
<1>1. Live \subseteq Ports
  BY DEF Live
<1>2. IsFiniteSet(Live)
  BY <1>1, HubAssumption, FS_Subset DEF HubAssumption
<1> QED
  BY <1>2, FS_CardinalityType, FS_EmptySet DEF TypeOK, TypeManager

LEMMA CountIsLive ==
  WaitGroupCounts <=> wg = Cardinality(Live) + (IF scan = "done" THEN 0 ELSE 1)
  BY DEF WaitGroupCounts, Live

LEMMA AccountedInit == Init => Accounted
<1> SUFFICES ASSUME Init PROVE Accounted
  OBVIOUS
<1>1. Live = {}
  BY DEF Init, Live
<1>2. WaitGroupCounts
  BY <1>1, CountIsLive, FS_EmptySet DEF Init
<1> QED
  BY <1>2 DEF Init, Accounted, WorkersKnown, WorkersAccounted, NoLateWorker, StoppedClean

(* The count is kept where neither side of it changes. *)
LEMMA CountFrame ==
  ASSUME WaitGroupCounts, UNCHANGED <<wg, wpc>>, (scan = "done") <=> (scan' = "done")
  PROVE  WaitGroupCounts'
  BY DEF WaitGroupCounts

(* What touches no worker, no device and no log keeps all of it. *)
LEMMA AccountedFrame ==
  ASSUME Accounted, (scan = "done") <=> (scan' = "done"),
         UNCHANGED <<closed, closer, known, wg, todoP, hnd, sp, running, logw, wpc>>
  PROVE  Accounted'
<1>1. WaitGroupCounts'
  BY CountFrame DEF Accounted, WorkersAccounted
<1>2. WorkersKnown'
  BY DEF Accounted, WorkersKnown
<1>3. NoLateWorker' /\ StoppedClean'
  BY DEF Accounted, WorkersAccounted, NoLateWorker, StoppedClean
<1> QED
  BY <1>1, <1>2, <1>3 DEF Accounted, WorkersAccounted

(* ensureWorker, called by whomever, counts the worker it starts, and starts *)
(* none once Close has begun.                                                *)
LEMMA AccountedEnsure ==
  ASSUME TypeOK, Accounted, NEW p \in Ports, EnsureWorker(p),
         (scan = "done") <=> (scan' = "done"),
         UNCHANGED <<closed, closer, known, todoP, hnd, sp, logw>>
  PROVE  Accounted'
<1>1. CASE closed \/ running[p]
  BY <1>1, AccountedFrame DEF EnsureWorker
<1>2. CASE ~closed /\ ~running[p]
  <2>1. /\ wpc[p] = "none" /\ closer = "run" /\ scan # "done"
        /\ wpc' = [wpc EXCEPT ![p] = "top"]
        /\ running' = [running EXCEPT ![p] = TRUE]
        /\ wg' = wg + 1
    BY <1>2 DEF EnsureWorker, Accounted, WorkersKnown
  <2>2. WaitGroupCounts'
    <3>1. Live' = Live \union {p} /\ p \notin Live
      BY <2>1 DEF Live, TypeOK, TypePorts
    <3>2. Cardinality(Live') = Cardinality(Live) + 1
      BY <3>1, LiveIsFinite, FS_AddElement
    <3>3. wg = Cardinality(Live) + 1
      BY <2>1, CountIsLive DEF Accounted, WorkersAccounted
    <3> QED
      BY <2>1, <3>2, <3>3, LiveIsFinite DEF WaitGroupCounts, Live
  <2>3. WorkersKnown'
    BY <2>1 DEF Accounted, WorkersKnown, TypeOK, TypePorts
  <2>4. NoLateWorker' /\ StoppedClean'
    BY <2>1 DEF NoLateWorker, StoppedClean
  <2> QED
    BY <2>2, <2>3, <2>4 DEF Accounted, WorkersAccounted
<1> QED
  BY <1>1, <1>2

LEMMA AccountedScanner == TypeOK /\ Accounted /\ Scanner => Accounted'
<1> SUFFICES ASSUME TypeOK, Accounted, Scanner PROVE Accounted'
  OBVIOUS
<1>1. CASE Sync
  <2>1. PICK found \in SUBSET (Ports \ known), logged \in SUBSET Ports :
          /\ logged \subseteq found
          /\ known' = known \union found
          /\ logw' = [p \in Ports |-> logw[p] \/ p \in logged]
          /\ scan' = IF fresh' = {} THEN "idle" ELSE "ensure"
    BY <1>1, Zenon DEF Sync
  <2>2. /\ scan = "idle" /\ ~closed /\ scan' # "done"
        /\ UNCHANGED <<closed, wg, closer, todoP, hnd, sp, running, wpc>>
    BY <1>1, <2>1 DEF Sync, stop
  <2>3. closer = "run"
    BY <2>2 DEF Accounted, WorkersKnown
  <2>4. \A p \in Ports : logw'[p] => p \in known'
    BY <2>1 DEF Accounted, WorkersKnown
  <2>5. WorkersKnown'
    BY <2>2, <2>3, <2>4 DEF Accounted, WorkersKnown
  <2>6. WorkersAccounted'
    BY <2>2, <2>3, CountFrame DEF Accounted, WorkersAccounted, NoLateWorker, StoppedClean
  <2> QED
    BY <2>5, <2>6 DEF Accounted
<1>2. ASSUME NEW p \in Ports, SyncEnsure(p) PROVE Accounted'
  <2>1. /\ EnsureWorker(p) /\ scan # "done" /\ scan' # "done"
        /\ UNCHANGED <<closed, closer, known, todoP, hnd, sp, logw>>
    BY <1>2 DEF SyncEnsure, stop
  <2> QED
    BY <2>1, AccountedEnsure
<1>3. CASE ScanStop
  <2>1. /\ scan = "idle" /\ closed /\ scan' = "done" /\ wg' = wg - 1
        /\ UNCHANGED <<closed, closer, known, todoP, hnd, sp, running, logw, wpc>>
    BY <1>3 DEF ScanStop, stop, port
  <2>2. WaitGroupCounts'
    <3>1. wg = Cardinality(Live) + 1
      BY <2>1, CountIsLive DEF Accounted, WorkersAccounted
    <3>2. Live' = Live
      BY <2>1 DEF Live
    <3> QED
      BY <2>1, <3>1, <3>2, LiveIsFinite DEF WaitGroupCounts, Live
  <2>3. closer \notin {"release", "stopped"}
    BY <2>1 DEF Accounted, WorkersAccounted, NoLateWorker
  <2>4. NoLateWorker' /\ StoppedClean'
    BY <2>1, <2>3 DEF NoLateWorker, StoppedClean
  <2>5. WorkersKnown'
    BY <2>1 DEF Accounted, WorkersKnown
  <2> QED
    BY <2>2, <2>4, <2>5 DEF Accounted, WorkersAccounted
<1> QED
  BY <1>1, <1>2, <1>3 DEF Scanner

LEMMA AccountedWorker ==
  ASSUME TypeOK, Accounted, NEW p \in Ports, Worker(p) PROVE Accounted'
<1>1. UNCHANGED <<closed, closer, known, todoP, scan, running>>
  BY DEF Worker, WTop, WOpen, WOpenFails, WOnline, WRead, WReadFails, WOffline, WSleep,
         WClose, WClear, WRelease, WUnchanged, stop, scanv
<1>2. wpc[p] \notin {"none", "done"}
  BY DEF Worker, WTop, WOpen, WOpenFails, WOnline, WRead, WReadFails, WOffline, WSleep,
         WClose, WClear, WRelease
<1>3. closer \notin {"release", "stopped"}
  BY <1>2 DEF Accounted, WorkersAccounted, NoLateWorker
<1>4. NoLateWorker' /\ StoppedClean'
  BY <1>1, <1>3 DEF NoLateWorker, StoppedClean
<1>5. WaitGroupCounts'
  <2>1. CASE ~WRelease(p)
    <3>1. PICK l \in WorkerAt \ {"none", "done"} : wpc' = [wpc EXCEPT ![p] = l]
      BY <2>1 DEF Worker, WTop, WOpen, WOpenFails, WOnline, WRead, WReadFails, WOffline,
                  WSleep, WClose, WClear, Run, WorkerAt
    <3>2. wg' = wg
      BY <2>1 DEF Worker, WTop, WOpen, WOpenFails, WOnline, WRead, WReadFails, WOffline,
                  WSleep, WClose, WClear
    <3>3. Live' = Live
      BY <1>2, <3>1 DEF Live, TypeOK, TypePorts
    <3> QED
      BY <1>1, <3>2, <3>3 DEF Accounted, WorkersAccounted, WaitGroupCounts, Live
  <2>2. CASE WRelease(p)
    <3>1. wg' = wg - 1 /\ wpc' = [wpc EXCEPT ![p] = "done"]
      BY <2>2 DEF WRelease, Run
    <3>2. Live' = Live \ {p} /\ p \in Live
      BY <1>2, <3>1 DEF Live, TypeOK, TypePorts
    <3>3. Cardinality(Live') = Cardinality(Live) - 1
      BY <3>2, LiveIsFinite, FS_RemoveElement
    <3>4. wg = Cardinality(Live) + (IF scan = "done" THEN 0 ELSE 1)
      BY CountIsLive DEF Accounted, WorkersAccounted
    <3> QED
      BY <1>1, <3>1, <3>3, <3>4, LiveIsFinite DEF WaitGroupCounts, Live
  <2> QED
    BY <2>1, <2>2
<1>6. WorkersKnown'
  <2>1. /\ \A q \in Ports : running'[q] <=> wpc'[q] # "none"
        /\ \A q \in Ports :
             hnd'[q] # "none" => wpc'[q] \in {"online", "read", "offread", "close"}
        /\ \A q \in Ports : sp'[q] => wpc'[q] \in {"read", "offread", "close", "clear"}
        /\ \A q \in Ports : logw'[q] => logw[q]
    <3> USE DEF Accounted, WorkersKnown, TypeOK, TypePorts, Run, port, WUnchanged
    <3>1. CASE WTop(p) \/ WOpenFails(p) \/ WRead(p) \/ WReadFails(p) \/ WSleep(p)
      BY <3>1 DEF WTop, WOpenFails, WRead, WReadFails, WSleep
    <3>2. CASE WOpen(p)
      BY <3>2 DEF WOpen
    <3>3. CASE WOnline(p)
      BY <3>3 DEF WOnline
    <3>4. CASE WOffline(p)
      BY <3>4 DEF WOffline
    <3>5. CASE WClose(p)
      BY <3>5 DEF WClose
    <3>6. CASE WClear(p)
      BY <3>6 DEF WClear
    <3>7. CASE WRelease(p)
      BY <3>7 DEF WRelease, Release
    <3> QED
      BY <3>1, <3>2, <3>3, <3>4, <3>5, <3>6, <3>7 DEF Worker
  <2> QED
    BY <1>1, <2>1 DEF Accounted, WorkersKnown
<1> QED
  BY <1>4, <1>5, <1>6 DEF Accounted, WorkersAccounted

LEMMA AccountedClosing == TypeOK /\ Accounted /\ (Close \/ Closing) => Accounted'
<1> SUFFICES ASSUME TypeOK, Accounted, Close \/ Closing PROVE Accounted'
  OBVIOUS
<1>1. UNCHANGED <<known, wg, scan, running, wpc>>
  BY DEF Close, Closing, CloseKill, CloseShut, CloseDevice, CloseWait, CloseRelease,
         CloseReturn, SUnchanged, scanv
<1>2. WaitGroupCounts'
  BY <1>1, CountFrame DEF Accounted, WorkersAccounted
<1>3. CASE Close
  BY <1>1, <1>2, <1>3 DEF Close, Accounted, WorkersKnown, WorkersAccounted, NoLateWorker,
                          StoppedClean
<1>4. ASSUME NEW c \in Conns, CloseKill(c) PROVE Accounted'
  BY <1>1, <1>4, AccountedFrame DEF CloseKill
<1>5. ASSUME NEW p \in Ports, CloseShut(p) PROVE Accounted'
  <2>1. /\ closer = "kill" /\ closer' \in {"kill", "shut"}
        /\ UNCHANGED <<closed, hnd, logw>> /\ sp' = [sp EXCEPT ![p] = FALSE]
    BY <1>5 DEF CloseShut
  <2>2. WorkersKnown'
    BY <1>1, <2>1 DEF Accounted, WorkersKnown, TypeOK, TypePorts
  <2> QED
    BY <1>2, <2>1, <2>2 DEF Accounted, WorkersAccounted, NoLateWorker, StoppedClean
<1>6. CASE CloseDevice
  <2>1. /\ closer = "shut" /\ closer' = "kill" /\ UNCHANGED <<closed, sp, logw>>
        /\ \A p \in Ports : hnd'[p] # "none" => hnd[p] # "none"
    BY <1>6 DEF CloseDevice, TypeOK, TypeManager, TypePorts
  <2>2. WorkersKnown'
    BY <1>1, <2>1 DEF Accounted, WorkersKnown
  <2> QED
    BY <1>2, <2>1, <2>2 DEF Accounted, WorkersAccounted, NoLateWorker, StoppedClean
<1>7. CASE CloseWait
  <2>1. /\ wg = 0 /\ closer = "kill" /\ closer' = "release" /\ todoP' = known
        /\ UNCHANGED <<closed, hnd, sp, logw>>
    BY <1>7 DEF CloseWait
  <2>2. Live = {} /\ scan = "done"
    BY <2>1, CountIsLive, LiveIsFinite DEF Accounted, WorkersAccounted
  <2>3. NoLateWorker'
    BY <1>1, <2>2 DEF NoLateWorker, Live
  <2>4. WorkersKnown'
    BY <1>1, <2>1 DEF Accounted, WorkersKnown
  <2> QED
    BY <1>2, <2>1, <2>3, <2>4 DEF Accounted, WorkersAccounted, StoppedClean
<1>8. ASSUME NEW p \in Ports, CloseRelease(p) PROVE Accounted'
  <2>1. /\ closer = "release" /\ todoP' = todoP \ {p} /\ logw' = [logw EXCEPT ![p] = FALSE]
        /\ UNCHANGED <<closed, closer, hnd, sp>>
    BY <1>8 DEF CloseRelease, Release
  <2>2. WorkersKnown'
    BY <1>1, <2>1 DEF Accounted, WorkersKnown, TypeOK, TypePorts
  <2> QED
    BY <1>1, <1>2, <2>1, <2>2 DEF Accounted, WorkersAccounted, NoLateWorker, StoppedClean
<1>9. CASE CloseReturn
  <2>1. /\ closer = "release" /\ closer' = "stopped" /\ todoP = {}
        /\ UNCHANGED <<closed, hnd, sp, logw>>
    BY <1>9 DEF CloseReturn
  <2>2. \A p \in Ports : wpc[p] \in {"none", "done"} /\ ~logw[p]
    BY <2>1 DEF Accounted, WorkersKnown, WorkersAccounted, NoLateWorker
  <2>3. StoppedClean'
    BY <2>1, <2>2 DEF Accounted, WorkersKnown, StoppedClean
  <2>4. WorkersKnown' /\ NoLateWorker'
    BY <1>1, <2>1 DEF Accounted, WorkersKnown, WorkersAccounted, NoLateWorker
  <2> QED
    BY <1>2, <2>3, <2>4 DEF Accounted, WorkersAccounted
<1> QED
  BY <1>3, <1>4, <1>5, <1>6, <1>7, <1>8, <1>9 DEF Closing

(* A connection's handler starts a worker or touches nothing of it. *)
LEMMA AccountedConn ==
  ASSUME TypeOK, Accounted, NEW c \in Conns, Accept(c) \/ Receive(c) \/ Handle(c) \/ Kill(c)
  PROVE  Accounted'
<1>1. CASE Ensure(c)
  <2>1. /\ EnsureWorker(loc[c].port) /\ loc[c].port \in Ports
        /\ UNCHANGED <<closed, closer, known, scan, todoP, hnd, sp, logw>>
    BY <1>1 DEF Ensure, CUnchanged, stop, scanv, TypeOK, TypeConns, AtPort
  <2> QED
    BY <2>1, AccountedEnsure
<1>2. CASE ~Ensure(c)
  <2>1. UNCHANGED <<closed, closer, known, wg, scan, todoP, hnd, sp, running, logw, wpc>>
    <3> USE DEF Own, CUnchanged, stop, scanv, mgr, port
    <3>1. CASE Accept(c) \/ Kill(c)
      BY <3>1 DEF Accept, Kill
    <3>2. CASE Receive(c)
      BY <3>2 DEF Receive, RecvOpen, RecvClose, RecvEnd, RecvAsk, RecvInput
    <3>3. CASE Handle(c)
      BY <1>2, <3>3 DEF Handle, Unlink, CloseLog, Attach, AttachFails, Bind, OpenLog, Reply,
                        GetDevice, DevWrite, NoteLock, NoteWrite, Drop, Unregister
    <3> QED
      BY <3>1, <3>2, <3>3
  <2> QED
    BY <2>1, AccountedFrame
<1> QED
  BY <1>1, <1>2

LEMMA AccountedStep == TypeOK /\ Accounted /\ [Next]_vars => Accounted'
<1> SUFFICES ASSUME TypeOK, Accounted, [Next]_vars PROVE Accounted'
  OBVIOUS
<1>1. CASE UNCHANGED vars \/ Finished
  BY <1>1, AccountedFrame DEF Finished, vars, mgr, stop, scanv, port
<1>2. CASE Next /\ ~Finished
  BY <1>2, AccountedScanner, AccountedWorker, AccountedClosing, AccountedConn DEF Next
<1> QED
  BY <1>1, <1>2

(* The wait group counts exactly the goroutines that run, none starts after *)
(* Close's Wait, and when Close returns every device is closed and every    *)
(* log released, wherever the workers were (ensureWorker, worker, Close).   *)
THEOREM WorkersAccountedHolds == Spec => []WorkersAccounted
<1>1. Init => TypeOK /\ Accounted
  BY TypeInit, AccountedInit
<1>2. TypeOK /\ Accounted /\ [Next]_vars => (TypeOK /\ Accounted)'
  BY TypeStep, AccountedStep
<1>3. Accounted => WorkersAccounted
  BY DEF Accounted
<1> QED
  BY <1>1, <1>2, <1>3, PTL DEF Spec
============================================================================
