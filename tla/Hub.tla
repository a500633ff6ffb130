-------------------------------- MODULE Hub --------------------------------
(***************************************************************************)
(* The capture daemon's hub (internal/hub): one Manager, its serial ports,  *)
(* the worker goroutine that holds each device open, and the connections   *)
(* that attach to a port, type into it and leave.                          *)
(*                                                                         *)
(* One action is one critical section of the code (m.mu, p.mu or c.mu) or  *)
(* one effect outside every lock (a device write, a log note, a close), so *)
(* every unlock is a point where the other goroutines may run.  Two such   *)
(* parts share an action only where no other goroutine can tell, and the   *)
(* action says why.  What the serial line carries is the business of       *)
(* module Stream; here a read only keeps the worker going or ends its loop. *)
(***************************************************************************)
EXTENDS Integers, FiniteSets

CONSTANTS Conns,        \* client connections, each used once
          Ports,        \* the stable port references a scan may find
          Bauds,        \* line rates a client may ask for
          DefaultBaud,  \* Options.DefaultBaud
          None,         \* no connection, no port, no rate: Go's nil and 0
          MaxObservers, \* Options.MaxObservers; 0 means unlimited
          AllowObserve, \* Options.AllowObserve
          AutoOpen      \* Options.AutoOpen

ASSUME HubAssumption ==
  /\ None \notin Conns \union Ports \union Bauds
  /\ DefaultBaud \in Bauds
  /\ IsFiniteSet(Ports) /\ IsFiniteSet(Conns)
  /\ MaxObservers \in Nat
  /\ AllowObserve \in BOOLEAN /\ AutoOpen \in BOOLEAN

VARIABLES
  closed,   \* Manager.closed, set together with the closing of Manager.done
  mconns,   \* Manager.conns
  known,    \* the keys of Manager.ports
  wg,       \* the counter of Manager.wg
  closer,   \* where Manager.Close is
  todoC,    \* Close's snapshot of connections still to kill
  todoP,    \* Close's snapshot of ports still to shut down or release
  cur,      \* the port whose device Close captured
  scan,     \* where the rediscovery goroutine is
  fresh,    \* Sync's local: new ports that still need a worker
  hnd,      \* the worker's serialport.Port: "none", "open", "closed"
  rate,     \* the line rate hnd was opened with
  baud,     \* Port.baud
  sp,       \* Port.sp is not nil
  online,   \* Port.online
  running,  \* Port.running
  logw,     \* Port.logw is not nil
  file,     \* the port's log: "live", "closed" by release, "reopened" after
  wpc,      \* where the port's worker is
  owner,    \* Port.owner
  pconns,   \* Port.conns
  rpc,      \* where the connection's read loop is
  cport,    \* Conn.port
  writable, \* Conn.writable
  killed,   \* Conn.done is closed and the transport with it
  loc       \* the locals of the handler the read loop is in

mgr  == <<closed, mconns, known, wg>>
stop == <<closer, todoC, todoP, cur>>
scanv == <<scan, fresh>>
port == <<hnd, rate, baud, sp, online, running, logw, file>>
lock == <<owner, pconns>>
conn == <<rpc, cport, writable, killed, loc>>
vars == <<mgr, stop, scanv, port, wpc, lock, conn>>

(* The locals of a handler: the port it works on, the mode and rate asked   *)
(* for, the logw it captured; what follows a detach and the port it left;   *)
(* how an open ended.                                                      *)
NoLoc == [port |-> None, write |-> FALSE, baud |-> None, log |-> FALSE,
          next |-> "", old |-> None, res |-> ""]

----------------------------------------------------------------------------
(* Operators whose comment begins with [fault] are what a plausible mistake *)
(* would make of the operator that follows them.  No behaviour uses them:   *)
(* they show which property notices the mistake.                            *)

(* [fault] ensureWorker does not ask whether a worker runs. *)
EnsureWorkerTwice(p) ==
  IF closed
    THEN UNCHANGED <<running, wpc, wg>>
    ELSE /\ running' = [running EXCEPT ![p] = TRUE]
         /\ wpc' = [wpc EXCEPT ![p] = "top"]
         /\ wg' = wg + 1

(* ensureWorker: m.mu, then p.mu inside it.  The Add is made under m.mu.    *)
EnsureWorker(p) ==
  IF closed \/ running[p]
    THEN UNCHANGED <<running, wpc, wg>>
    ELSE /\ running' = [running EXCEPT ![p] = TRUE]
         /\ wpc' = [wpc EXCEPT ![p] = "top"]
         /\ wg' = wg + 1

(* A note through a captured logw: the writer reopens a file it has closed. *)
Note(p, has) ==
  file' = [file EXCEPT ![p] = IF has /\ @ = "closed" THEN "reopened" ELSE @]

(* release: logw is taken under p.mu, then noted to and closed.  Whoever    *)
(* writes in between writes to an open file, so the two make one step.     *)
Release(p) ==
  /\ logw' = [logw EXCEPT ![p] = FALSE]
  /\ file' = [file EXCEPT ![p] = IF logw[p] THEN "closed" ELSE @]

(* What a handler does last: the read loop checks c.done after each frame.  *)
After(c) == IF killed[c] THEN "ending" ELSE "read"

Goto(c, l) == rpc' = [rpc EXCEPT ![c] = l]

Run(p, l) == wpc' = [wpc EXCEPT ![p] = l]

----------------------------------------------------------------------------
(* The rediscovery goroutine: Manager.Sync.                                *)

(* serialport.Discover, then the section under m.mu.  A port whose log      *)
(* directory cannot be made is registered without a log.                   *)
Sync ==
  /\ scan = "idle" /\ ~closed
  /\ \E found \in SUBSET (Ports \ known), logged \in SUBSET Ports :
     /\ logged \subseteq found
     /\ known' = known \union found
     /\ logw' = [p \in Ports |-> logw[p] \/ p \in logged]
     /\ fresh' = IF AutoOpen THEN found ELSE {}
     /\ scan' = IF fresh' = {} THEN "idle" ELSE "ensure"
  /\ UNCHANGED <<closed, mconns, wg, stop, hnd, rate, baud, sp, online, running, file,
                 wpc, lock, conn>>

SyncEnsure(p) ==
  /\ scan = "ensure" /\ p \in fresh
  /\ EnsureWorker(p)
  /\ fresh' = fresh \ {p}
  /\ scan' = IF fresh' = {} THEN "idle" ELSE "ensure"
  /\ UNCHANGED <<closed, mconns, known, stop, hnd, rate, baud, sp, online, logw, file,
                 lock, conn>>

(* Its select sees m.done closed. *)
ScanStop ==
  /\ scan = "idle" /\ closed
  /\ scan' = "done" /\ wg' = wg - 1
  /\ UNCHANGED <<closed, mconns, known, stop, fresh, port, wpc, lock, conn>>

----------------------------------------------------------------------------
(* The worker of port p: Port.worker.  Its audit records, notes and notices *)
(* go with the transition they report: the file is open as long as the     *)
(* worker has not released it.                                             *)

WUnchanged == UNCHANGED <<closed, mconns, known, stop, scanv, running, lock, conn>>

WTop(p) ==
  /\ wpc[p] = "top"
  /\ Run(p, IF closed THEN "release" ELSE "open")
  /\ UNCHANGED <<wg, port>> /\ WUnchanged

(* openDevice: the rate is read under p.mu; nothing changes it while p.sp   *)
(* is nil, so the open that follows belongs to the same step.              *)
WOpen(p) ==
  /\ wpc[p] = "open"
  /\ hnd' = [hnd EXCEPT ![p] = "open"]
  /\ rate' = [rate EXCEPT ![p] = baud[p]]
  /\ Run(p, "online")
  /\ UNCHANGED <<wg, baud, sp, online, logw, file>> /\ WUnchanged

(* The device is gone, or another program has it. *)
WOpenFails(p) ==
  /\ wpc[p] = "open"
  /\ Run(p, "offopen")
  /\ UNCHANGED <<wg, port>> /\ WUnchanged

WOnline(p) ==
  /\ wpc[p] = "online"
  /\ sp' = [sp EXCEPT ![p] = TRUE]
  /\ online' = [online EXCEPT ![p] = TRUE]
  /\ Run(p, "read")
  /\ UNCHANGED <<wg, hnd, rate, baud, logw, file>> /\ WUnchanged

(* sp.Read returns output, which fanout publishes, or times out. *)
WRead(p) ==
  /\ wpc[p] = "read" /\ hnd[p] = "open"
  /\ Run(p, IF closed THEN "close" ELSE "read")
  /\ UNCHANGED <<wg, port>> /\ WUnchanged

(* sp.Read fails: the handle was closed underneath it, or the line hung up. *)
WReadFails(p) ==
  /\ wpc[p] = "read"
  /\ Run(p, IF closed THEN "close" ELSE "offread")
  /\ UNCHANGED <<wg, port>> /\ WUnchanged

(* [fault] A failed open ends the worker. *)
WOfflineGivesUp(p) ==
  /\ wpc[p] \in {"offopen", "offread"}
  /\ online' = [online EXCEPT ![p] = FALSE]
  /\ Run(p, IF wpc[p] = "offopen" THEN "release" ELSE "close")
  /\ UNCHANGED <<wg, hnd, rate, baud, sp, logw, file>> /\ WUnchanged

WOffline(p) ==
  /\ wpc[p] \in {"offopen", "offread"}
  /\ online' = [online EXCEPT ![p] = FALSE]
  /\ Run(p, IF wpc[p] = "offopen" THEN "sleep" ELSE "close")
  /\ UNCHANGED <<wg, hnd, rate, baud, sp, logw, file>> /\ WUnchanged

(* sleepOrStop: the timer, or m.done. *)
WSleep(p) ==
  /\ wpc[p] = "sleep"
  /\ Run(p, "top") \/ (closed /\ Run(p, "release"))
  /\ UNCHANGED <<wg, port>> /\ WUnchanged

WClose(p) ==
  /\ wpc[p] = "close"
  /\ hnd' = [hnd EXCEPT ![p] = "none"]
  /\ Run(p, "clear")
  /\ UNCHANGED <<wg, rate, baud, sp, online, logw, file>> /\ WUnchanged

(* clearDevice, then the check of m.done. *)
WClear(p) ==
  /\ wpc[p] = "clear"
  /\ sp' = [sp EXCEPT ![p] = FALSE]
  /\ Run(p, IF closed THEN "release" ELSE "top")
  /\ UNCHANGED <<wg, hnd, rate, baud, online, logw, file>> /\ WUnchanged

(* release, and wg.Done as the goroutine ends. *)
WRelease(p) ==
  /\ wpc[p] = "release"
  /\ Release(p)
  /\ Run(p, "done") /\ wg' = wg - 1
  /\ UNCHANGED <<hnd, rate, baud, sp, online>> /\ WUnchanged

----------------------------------------------------------------------------
(* The read loop of connection c: Conn.readLoop and its handlers.          *)

CUnchanged == UNCHANGED <<closed, known, stop, scanv, hnd, rate, sp, online, logw>>

(* A step that touches the connection's own state only. *)
Own == UNCHANGED <<mconns, wg, baud, running, file, wpc, lock, killed>> /\ CUnchanged

(* ServeConn registers the connection unless the manager is closed. *)
Accept(c) ==
  /\ rpc[c] = "new"
  /\ IF closed THEN Goto(c, "gone") /\ UNCHANGED mconns
               ELSE Goto(c, "read") /\ mconns' = mconns \union {c}
  /\ UNCHANGED <<wg, baud, running, file, wpc, lock, cport, writable, killed, loc>>
  /\ CUnchanged

(* [fault] detach forgets the port but not the right to type. *)
DetachKeepsWritable(c, l, locals) ==
  /\ cport' = [cport EXCEPT ![c] = None]
  /\ loc' = [loc EXCEPT ![c] =
       IF cport[c] = None THEN locals ELSE [locals EXCEPT !.old = cport[c], !.next = l]]
  /\ Goto(c, IF cport[c] = None THEN l ELSE "unlink")
  /\ UNCHANGED writable

(* detach, its section under c.mu: forget the port; then on to Unlink, or   *)
(* straight to l when there was none.                                      *)
DetachThen(c, l, locals) ==
  /\ cport' = [cport EXCEPT ![c] = None]
  /\ writable' = [writable EXCEPT ![c] = FALSE]
  /\ loc' = [loc EXCEPT ![c] =
       IF cport[c] = None THEN locals ELSE [locals EXCEPT !.old = cport[c], !.next = l]]
  /\ Goto(c, IF cport[c] = None THEN l ELSE "unlink")

(* [fault] handleOpen keeps the port the client had. *)
RecvOpenKeeps(c, p, w, b) ==
  /\ rpc[c] = "read"
  /\ Goto(c, "attach")
  /\ loc' = [loc EXCEPT ![c] = [NoLoc EXCEPT !.port = p, !.write = w, !.baud = b]]
  /\ UNCHANGED <<cport, writable>> /\ Own

(* handleOpen begins by detaching from whatever port the client had. *)
RecvOpen(c, p, w, b) ==
  /\ rpc[c] = "read"
  /\ DetachThen(c, "attach", [NoLoc EXCEPT !.port = p, !.write = w, !.baud = b])
  /\ Own

RecvClose(c) ==
  /\ rpc[c] = "read"
  /\ DetachThen(c, "reply", NoLoc)
  /\ Own

(* [fault] The loop goes on after an error; or it ends without a detach. *)
RecvEndContinues(c) ==
  /\ rpc[c] \in {"read", "ending"}
  /\ DetachThen(c, "read", NoLoc)
  /\ Own

RecvEndKeepsPort(c) ==
  /\ rpc[c] \in {"read", "ending"}
  /\ Goto(c, "drop")
  /\ UNCHANGED <<cport, writable, loc>> /\ Own

(* The frame stream ends (EOF, a bad frame, bye, the transport closed by a *)
(* kill), or the loop saw c.done: Conn.shutdown starts.                    *)
RecvEnd(c) ==
  /\ rpc[c] \in {"read", "ending"}
  /\ DetachThen(c, "drop", NoLoc)
  /\ Own

(* [fault] An observer that leaves frees the port as its writer would. *)
UnlinkFreesPort(c) ==
  /\ rpc[c] = "unlink"
  /\ LET p == loc[c].old IN
     /\ pconns' = [pconns EXCEPT ![p] = @ \ {c}]
     /\ owner' = [owner EXCEPT ![p] = None]
     /\ loc' = [loc EXCEPT ![c].log = logw[p]]
  /\ Goto(c, "closelog")
  /\ UNCHANGED <<mconns, wg, baud, running, file, wpc, cport, writable, killed>>
  /\ CUnchanged

(* detach, its section under p.mu. *)
Unlink(c) ==
  /\ rpc[c] = "unlink"
  /\ LET p == loc[c].old IN
     /\ pconns' = [pconns EXCEPT ![p] = @ \ {c}]
     /\ owner' = [owner EXCEPT ![p] = IF @ = c THEN None ELSE @]
     /\ loc' = [loc EXCEPT ![c].log = logw[p]]
  /\ Goto(c, "closelog")
  /\ UNCHANGED <<mconns, wg, baud, running, file, wpc, cport, writable, killed>>
  /\ CUnchanged

(* detach, the rest: the audit record and the note through the captured logw. *)
CloseLog(c) ==
  /\ rpc[c] = "closelog"
  /\ Note(loc[c].old, loc[c].log)
  /\ Goto(c, loc[c].next)
  /\ loc' = [loc EXCEPT ![c].log = FALSE, ![c].old = None, ![c].next = ""]
  /\ UNCHANGED <<mconns, wg, baud, running, wpc, lock, cport, writable, killed>>
  /\ CUnchanged

Observers(p) == pconns[p] \ {owner[p]}

(* [fault] No look at the owner. *)
VerdictAnyOwner(c) ==
  LET p == loc[c].port IN
  IF p \notin known THEN "unknown" ELSE IF ~sp[p] THEN "offline" ELSE "ok"

(* Why handleOpen refuses, in the order it checks; "ok" otherwise. *)
Verdict(c) ==
  LET p == loc[c].port  w == loc[c].write IN
  IF p \notin known THEN "unknown"
  ELSE IF ~sp[p] THEN "offline"
  ELSE IF w /\ owner[p] \notin {None, c} THEN "busy"
  ELSE IF ~w /\ ~AllowObserve THEN "denied"
  ELSE IF ~w /\ MaxObservers > 0 /\ Cardinality(Observers(p)) >= MaxObservers THEN "full"
  ELSE "ok"

(* Resolve, then handleOpen's section under p.mu.  Resolve runs under m.mu  *)
(* before it, but a port once registered stays, so they make one step.     *)
Attach(c) ==
  /\ rpc[c] = "attach" /\ Verdict(c) = "ok"
  /\ LET p == loc[c].port IN
     /\ pconns' = [pconns EXCEPT ![p] = @ \union {c}]
     /\ owner' = [owner EXCEPT ![p] = IF loc[c].write THEN c ELSE @]
     /\ baud' = [baud EXCEPT ![p] =
          IF loc[c].baud # None /\ pconns[p] = {} THEN loc[c].baud ELSE @]
     /\ loc' = [loc EXCEPT ![c].log = logw[p]]
  /\ Goto(c, "bind")
  /\ UNCHANGED <<mconns, wg, running, file, wpc, cport, writable, killed>>
  /\ CUnchanged

AttachFails(c) ==
  /\ rpc[c] = "attach" /\ Verdict(c) # "ok"
  /\ loc' = [loc EXCEPT ![c] = [NoLoc EXCEPT !.port = loc[c].port, !.res = Verdict(c)]]
  /\ Goto(c, "reply")
  /\ UNCHANGED <<cport, writable>> /\ Own

(* handleOpen's section under c.mu. *)
Bind(c) ==
  /\ rpc[c] = "bind"
  /\ cport' = [cport EXCEPT ![c] = loc[c].port]
  /\ writable' = [writable EXCEPT ![c] = loc[c].write]
  /\ Goto(c, "ensure")
  /\ UNCHANGED loc /\ Own

Ensure(c) ==
  /\ rpc[c] = "ensure"
  /\ EnsureWorker(loc[c].port)
  /\ Goto(c, "openlog")
  /\ UNCHANGED <<mconns, baud, file, lock, cport, writable, killed, loc>>
  /\ CUnchanged

(* The audit record and the note of an attach. *)
OpenLog(c) ==
  /\ rpc[c] = "openlog"
  /\ Note(loc[c].port, loc[c].log)
  /\ Goto(c, "reply")
  /\ loc' = [loc EXCEPT ![c] = NoLoc]
  /\ UNCHANGED <<mconns, wg, baud, running, wpc, lock, cport, writable, killed>>
  /\ CUnchanged

(* send: room in the queue, or c.done. *)
Reply(c) ==
  /\ rpc[c] = "reply"
  /\ Goto(c, After(c))
  /\ loc' = [loc EXCEPT ![c] = NoLoc]
  /\ UNCHANGED <<cport, writable>> /\ Own

(* [fault] Input is passed on without an attachment; without the right to type. *)
RecvInputDetached(c, br) ==
  /\ rpc[c] = "read"
  /\ loc' = [loc EXCEPT ![c].port = cport[c], ![c].write = br]
  /\ Goto(c, "getdev")
  /\ UNCHANGED <<cport, writable>> /\ Own

RecvInputAnyone(c, br) ==
  /\ rpc[c] = "read" /\ cport[c] # None
  /\ loc' = [loc EXCEPT ![c].port = cport[c], ![c].write = br]
  /\ Goto(c, "getdev")
  /\ UNCHANGED <<cport, writable>> /\ Own

(* A keystroke frame (br = FALSE) or a break.  An observer's keystrokes are *)
(* dropped in silence, its break is answered with an error.                *)
RecvInput(c, br) ==
  /\ rpc[c] = "read"
  /\ IF cport[c] # None /\ writable[c]
       THEN /\ loc' = [loc EXCEPT ![c].port = cport[c], ![c].write = br]
            /\ Goto(c, "getdev")
       ELSE Goto(c, IF br THEN "reply" ELSE After(c)) /\ UNCHANGED loc
  /\ UNCHANGED <<cport, writable>> /\ Own

(* Port.write and Port.sendBreak: take p.sp under p.mu ... *)
GetDevice(c) ==
  /\ rpc[c] = "getdev"
  /\ Goto(c, IF sp[loc[c].port] THEN "devwrite" ELSE "reply")
  /\ UNCHANGED <<cport, writable, loc>> /\ Own

(* ... and use it without the lock.  The call may fail: the device is gone, *)
(* the handle was closed meanwhile, or the write stalled.                  *)
DevWrite(c, ok) ==
  /\ rpc[c] = "devwrite"
  /\ Goto(c, IF ~ok THEN "reply" ELSE IF loc[c].write THEN "notelock" ELSE After(c))
  /\ loc' = IF ok /\ ~loc[c].write THEN [loc EXCEPT ![c] = NoLoc] ELSE loc
  /\ UNCHANGED <<cport, writable>> /\ Own

(* noteLog after a break: take logw under p.mu, then write the note. *)
NoteLock(c) ==
  /\ rpc[c] = "notelock"
  /\ loc' = [loc EXCEPT ![c].log = logw[loc[c].port]]
  /\ Goto(c, "notewrite")
  /\ UNCHANGED <<cport, writable>> /\ Own

NoteWrite(c) ==
  /\ rpc[c] = "notewrite"
  /\ Note(loc[c].port, loc[c].log)
  /\ Goto(c, After(c))
  /\ loc' = [loc EXCEPT ![c] = NoLoc]
  /\ UNCHANGED <<mconns, wg, baud, running, wpc, lock, cport, writable, killed>>
  /\ CUnchanged

(* hello, list, ping, status and shutdown only answer (a stop request is   *)
(* the daemon's to act on: Close may begin at any time).                   *)
RecvAsk(c) ==
  /\ rpc[c] = "read"
  /\ Goto(c, "reply")
  /\ UNCHANGED <<cport, writable, loc>> /\ Own

(* The end of shutdown: close the transport, wait for the writer, which its *)
(* closing ends, and log the session ...                                   *)
Drop(c) ==
  /\ rpc[c] = "drop"
  /\ killed' = [killed EXCEPT ![c] = TRUE]
  /\ Goto(c, "unregister")
  /\ UNCHANGED <<mconns, wg, baud, running, file, wpc, lock, cport, writable, loc>>
  /\ CUnchanged

(* ... then unregister under m.mu. *)
Unregister(c) ==
  /\ rpc[c] = "unregister"
  /\ mconns' = mconns \ {c}
  /\ Goto(c, "gone")
  /\ UNCHANGED <<wg, baud, running, file, wpc, lock, cport, writable, killed, loc>>
  /\ CUnchanged

(* kill from another goroutine: a full queue in a fan-out, a failed frame   *)
(* write, the idle watchdog.                                               *)
Kill(c) ==
  /\ rpc[c] \notin {"new", "gone"} /\ ~killed[c]
  /\ killed' = [killed EXCEPT ![c] = TRUE]
  /\ UNCHANGED <<mgr, stop, scanv, port, wpc, lock, rpc, cport, writable, loc>>

----------------------------------------------------------------------------
(* Manager.Close, called by the daemon after a signal or a stop request.   *)

SUnchanged == UNCHANGED <<mconns, known, wg, scanv, rate, baud, running, wpc, lock,
                          rpc, cport, writable, loc>>

Close ==
  /\ closer = "run"
  /\ closed' = TRUE
  /\ todoC' = mconns /\ todoP' = known
  /\ closer' = "kill"
  /\ UNCHANGED <<cur, hnd, sp, online, logw, file, killed>> /\ SUnchanged

CloseKill(c) ==
  /\ closer = "kill" /\ c \in todoC
  /\ killed' = [killed EXCEPT ![c] = TRUE]
  /\ todoC' = todoC \ {c}
  /\ UNCHANGED <<closed, closer, todoP, cur, hnd, sp, online, logw, file>> /\ SUnchanged

(* Port.shutdown: take the device away under p.mu ... *)
CloseShut(p) ==
  /\ closer = "kill" /\ todoC = {} /\ p \in todoP
  /\ sp' = [sp EXCEPT ![p] = FALSE]
  /\ online' = [online EXCEPT ![p] = FALSE]
  /\ todoP' = todoP \ {p}
  /\ IF sp[p] THEN closer' = "shut" /\ cur' = p ELSE UNCHANGED <<closer, cur>>
  /\ UNCHANGED <<closed, todoC, hnd, logw, file, killed>> /\ SUnchanged

(* ... and close it, which ends the worker's read. *)
CloseDevice ==
  /\ closer = "shut"
  /\ hnd' = [hnd EXCEPT ![cur] = IF @ = "open" THEN "closed" ELSE @]
  /\ closer' = "kill" /\ cur' = None
  /\ UNCHANGED <<closed, todoC, todoP, sp, online, logw, file, killed>> /\ SUnchanged

(* wg.Wait, then release every port of the snapshot: known has not grown.   *)
CloseWait ==
  /\ closer = "kill" /\ todoC = {} /\ todoP = {} /\ wg = 0
  /\ closer' = "release" /\ todoP' = known
  /\ UNCHANGED <<closed, todoC, cur, hnd, sp, online, logw, file, killed>> /\ SUnchanged

CloseRelease(p) ==
  /\ closer = "release" /\ p \in todoP
  /\ Release(p)
  /\ todoP' = todoP \ {p}
  /\ UNCHANGED <<closed, closer, todoC, cur, hnd, sp, online, killed>> /\ SUnchanged

(* The daemon_stop record, and Close returns. *)
CloseReturn ==
  /\ closer = "release" /\ todoP = {}
  /\ closer' = "stopped"
  /\ UNCHANGED <<closed, todoC, todoP, cur, hnd, sp, online, logw, file, killed>>
  /\ SUnchanged

(* Close has returned and no connection is left: the process ends.  Any     *)
(* other state without a step is a deadlock.                               *)
Finished ==
  /\ closer = "stopped" /\ \A c \in Conns : rpc[c] = "gone"
  /\ UNCHANGED vars

----------------------------------------------------------------------------
Init ==
  /\ closed = FALSE /\ mconns = {} /\ known = {} /\ wg = 1
  /\ closer = "run" /\ todoC = {} /\ todoP = {} /\ cur = None
  /\ scan = "idle" /\ fresh = {}
  /\ hnd = [p \in Ports |-> "none"]
  /\ rate = [p \in Ports |-> DefaultBaud] /\ baud = [p \in Ports |-> DefaultBaud]
  /\ sp = [p \in Ports |-> FALSE] /\ online = [p \in Ports |-> FALSE]
  /\ running = [p \in Ports |-> FALSE]
  /\ logw = [p \in Ports |-> FALSE] /\ file = [p \in Ports |-> "live"]
  /\ wpc = [p \in Ports |-> "none"]
  /\ owner = [p \in Ports |-> None] /\ pconns = [p \in Ports |-> {}]
  /\ rpc = [c \in Conns |-> "new"] /\ cport = [c \in Conns |-> None]
  /\ writable = [c \in Conns |-> FALSE] /\ killed = [c \in Conns |-> FALSE]
  /\ loc = [c \in Conns |-> NoLoc]

Scanner == Sync \/ (\E p \in Ports : SyncEnsure(p)) \/ ScanStop

Worker(p) ==
  \/ WTop(p) \/ WOpen(p) \/ WOpenFails(p) \/ WOnline(p) \/ WRead(p) \/ WReadFails(p)
  \/ WOffline(p) \/ WSleep(p) \/ WClose(p) \/ WClear(p) \/ WRelease(p)

Receive(c) ==
  \/ \E p \in Ports, w \in BOOLEAN, b \in Bauds \union {None} : RecvOpen(c, p, w, b)
  \/ RecvClose(c) \/ RecvEnd(c) \/ RecvAsk(c)
  \/ \E br \in BOOLEAN : RecvInput(c, br)

Handle(c) ==
  \/ Unlink(c) \/ CloseLog(c) \/ Attach(c) \/ AttachFails(c) \/ Bind(c) \/ Ensure(c)
  \/ OpenLog(c) \/ Reply(c) \/ GetDevice(c) \/ (\E ok \in BOOLEAN : DevWrite(c, ok))
  \/ NoteLock(c) \/ NoteWrite(c) \/ Drop(c) \/ Unregister(c)

Closing ==
  \/ (\E c \in Conns : CloseKill(c)) \/ (\E p \in Ports : CloseShut(p)) \/ CloseDevice
  \/ CloseWait \/ (\E p \in Ports : CloseRelease(p)) \/ CloseReturn

Next ==
  \/ Scanner
  \/ \E p \in Ports : Worker(p)
  \/ \E c \in Conns : Accept(c) \/ Receive(c) \/ Handle(c) \/ Kill(c)
  \/ Close \/ Closing
  \/ Finished

Spec == Init /\ [][Next]_vars

----------------------------------------------------------------------------
(* Fairness: what the Go scheduler and the bounded waits of the code give.  *)
(* A runnable goroutine runs; a read of a closed handle fails; the read of *)
(* a closed connection fails; a reply to a client that does not read waits *)
(* for room in the queue, but never past the closing of c.done.            *)

WorkerMoves(p) ==
  \/ WTop(p) \/ WOpenFails(p) \/ WOnline(p) \/ WRead(p) \/ WOffline(p)
  \/ WSleep(p) \/ WClose(p) \/ WClear(p) \/ WRelease(p)
  \/ hnd[p] = "closed" /\ WReadFails(p)

ReaderMoves(c) ==
  \/ Handle(c) /\ (rpc[c] = "reply" => killed[c])
  \/ RecvEnd(c) /\ killed[c]

Fairness ==
  /\ WF_vars(Scanner)
  /\ \A p \in Ports : WF_vars(WorkerMoves(p))
  /\ \A c \in Conns : WF_vars(ReaderMoves(c))
  /\ WF_vars(Closing)

FairSpec == Spec /\ Fairness

(* Devices that, opened again and again, do open sooner or later. *)
HealthySpec == FairSpec /\ \A p \in Ports : SF_vars(WOpen(p))

----------------------------------------------------------------------------
WorkerAt == {"none", "top", "open", "online", "read", "offopen", "offread", "sleep",
             "close", "clear", "release", "done"}

ReaderAt == {"new", "read", "unlink", "closelog", "attach", "bind", "ensure", "openlog",
             "reply", "getdev", "devwrite", "notelock", "notewrite", "ending", "drop",
             "unregister", "gone"}

Results == {"", "unknown", "offline", "busy", "denied", "full"}

LocType == [port : Ports \union {None}, write : BOOLEAN, baud : Bauds \union {None},
            log : BOOLEAN, next : {"", "attach", "reply", "drop"},
            old : Ports \union {None}, res : Results]

(* The places in a handler where it has a port to work on. *)
AtPort == {"attach", "bind", "ensure", "openlog", "getdev", "devwrite", "notelock", "notewrite"}

TypeManager ==
  /\ closed \in BOOLEAN /\ mconns \in SUBSET Conns /\ known \in SUBSET Ports /\ wg \in Int
  /\ closer \in {"run", "kill", "shut", "release", "stopped"}
  /\ todoC \in SUBSET Conns /\ todoP \in SUBSET Ports /\ cur \in Ports \union {None}
  /\ closer = "shut" => cur \in Ports
  /\ scan \in {"idle", "ensure", "done"} /\ fresh \in SUBSET Ports

TypePorts ==
  /\ hnd \in [Ports -> {"none", "open", "closed"}]
  /\ rate \in [Ports -> Bauds] /\ baud \in [Ports -> Bauds]
  /\ sp \in [Ports -> BOOLEAN] /\ online \in [Ports -> BOOLEAN]
  /\ running \in [Ports -> BOOLEAN] /\ logw \in [Ports -> BOOLEAN]
  /\ file \in [Ports -> {"live", "closed", "reopened"}]
  /\ wpc \in [Ports -> WorkerAt]

TypeLock ==
  /\ owner \in [Ports -> Conns \union {None}]
  /\ pconns \in [Ports -> SUBSET Conns]

TypeConns ==
  /\ rpc \in [Conns -> ReaderAt] /\ cport \in [Conns -> Ports \union {None}]
  /\ writable \in [Conns -> BOOLEAN] /\ killed \in [Conns -> BOOLEAN]
  /\ loc \in [Conns -> LocType]
  /\ \A c \in Conns : /\ rpc[c] \in AtPort => loc[c].port \in Ports
                      /\ rpc[c] \in {"unlink", "closelog"} =>
                           loc[c].old \in Ports /\ loc[c].next # ""
                      /\ loc[c].next = "attach" => loc[c].port \in Ports

(* The types of all variables; a handler that works on a port has one. *)
TypeOK == TypeManager /\ TypePorts /\ TypeLock /\ TypeConns

(* Where the connection is attached, and whether it may type there: between *)
(* the two sections of an open and of a detach its own fields lag behind.   *)
At(c) == IF rpc[c] = "bind" THEN loc[c].port
         ELSE IF rpc[c] = "unlink" THEN loc[c].old ELSE cport[c]

Types(c) == IF rpc[c] = "bind" THEN loc[c].write ELSE writable[c]

(* The two records of an attachment, the connection's under c.mu and the    *)
(* port's under p.mu, agree at every point between the critical sections:   *)
(* this is inductive and carries the properties below.                      *)
Attachment ==
  /\ \A c \in Conns, p \in Ports :
       /\ c \in pconns[p] <=> At(c) = p
       /\ owner[p] = c => c \in pconns[p]
       /\ c \in pconns[p] /\ rpc[c] # "unlink" => (owner[p] = c <=> Types(c))
  /\ \A c \in Conns :
       /\ rpc[c] \in {"new", "unlink", "closelog", "attach", "bind", "drop", "unregister",
                      "gone"} => cport[c] = None /\ ~writable[c]
       /\ rpc[c] \in {"getdev", "devwrite", "notelock", "notewrite"} =>
            loc[c].port = cport[c] /\ writable[c]

(* A connection that may type into a port is the port's owner: so a port    *)
(* has at most one writer, across every interleaving of opens, detaches     *)
(* and drops (handleOpen, detach).                                          *)
SingleWriter ==
  \A c \in Conns, p \in Ports : writable[c] /\ cport[c] = p => owner[p] = c

(* Bytes and breaks go to the device outside every lock, and still only the *)
(* owner's ever do (Port.write, Port.sendBreak).                            *)
WriteAuthority ==
  \A c \in Conns : rpc[c] = "devwrite" => owner[loc[c].port] = c

(* A connection is in the fan-out set of at most one port, and the owner of *)
(* a port is in its fan-out set (handleOpen, detach).                       *)
OneAttachment ==
  /\ \A c \in Conns, p, q \in Ports : c \in pconns[p] /\ c \in pconns[q] => p = q
  /\ \A p \in Ports : owner[p] \in pconns[p] \union {None}

(* A connection that has left, or is past its detach, keeps no port busy:   *)
(* it is neither an owner nor in a fan-out set (Conn.shutdown).             *)
NothingLeaks ==
  \A c \in Conns, p \in Ports :
    rpc[c] \in {"drop", "unregister", "gone"} => c \notin pconns[p] /\ owner[p] # c

(* wg counts the worker goroutines and the scanner that have not ended: a   *)
(* port never has two workers, and Close waits for exactly what runs.       *)
WaitGroupCounts ==
  wg = Cardinality({p \in Ports : wpc[p] \notin {"none", "done"}})
       + (IF scan = "done" THEN 0 ELSE 1)

(* Once Close's Wait is over no worker runs or starts: no Add after Wait    *)
(* (ensureWorker, Close).                                                   *)
NoLateWorker ==
  closer \in {"release", "stopped"} =>
    scan = "done" /\ \A p \in Ports : wpc[p] \in {"none", "done"}

(* When Close returns every device is closed and no port has a log writer,  *)
(* whatever the workers were doing when it began (Close, worker, release).  *)
StoppedClean ==
  closer = "stopped" => \A p \in Ports : hnd[p] = "none" /\ ~sp[p] /\ ~logw[p]

(* The workers from the first to the last: they are counted, the count is   *)
(* what Close waits for, and when it returns nothing of them is left.       *)
WorkersAccounted == WaitGroupCounts /\ NoLateWorker /\ StoppedClean

(* Why the workers are accounted for: a flag that is never reset says that  *)
(* a port has or had a worker, a worker's place says what it holds, and     *)
(* what Close releases is all that is registered.                           *)
WorkersKnown ==
  /\ closed <=> closer # "run"
  /\ scan = "done" => closed
  /\ \A p \in Ports :
       /\ running[p] <=> wpc[p] # "none"
       /\ hnd[p] # "none" => wpc[p] \in {"online", "read", "offread", "close"}
       /\ sp[p] => wpc[p] \in {"read", "offread", "close", "clear"}
       /\ logw[p] => p \in known
       /\ closer = "release" /\ logw[p] => p \in todoP

(* The hub implements the lease: each step of a handler is an acquire, a    *)
(* watch or a leave, taken in one critical section, or changes nothing.     *)
L == INSTANCE Lease WITH holder <- owner, members <- pconns

ImplementsLease == L!Spec

(* A dropped connection ends, wherever its read loop was: with NothingLeaks, *)
(* the port it held becomes free (kill, send, Conn.shutdown).                *)
DroppedLeaves == \A c \in Conns : killed[c] ~> rpc[c] = "gone"

(* Close ends although the workers, the scanner and the clients are anywhere. *)
StopCompletes == closed ~> closer = "stopped"

(* The worker never gives up: a registered port with a healthy device is    *)
(* served again and again, until the daemon stops (worker, Sync).           *)
Reconnects == \A p \in Ports : p \in known ~> (sp[p] \/ closed)

(* A worker serves its port for as long as the daemon runs, and no longer.  *)
WorkersServe == StopCompletes /\ Reconnects

============================================================================
