------------------------------ MODULE Endpoint ------------------------------
(***************************************************************************)
(* The life cycle of the capture daemon around its socket file: sessions   *)
(* that look for a daemon and start one (cmdSession, daemon.Ensure),        *)
(* daemons that take the file over, serve and clean up (ipc.Listen,         *)
(* cmdCapture), and processes that die on the way.                          *)
(*                                                                         *)
(* One action is one system call on the file, so that processes interleave *)
(* between the look at the file, the connection to it, its removal and the *)
(* bind.  net.Listen binds and listens in two calls, its Close unlinks the *)
(* path, whatever it names by then, and closes the socket in two.           *)
(***************************************************************************)
EXTENDS Integers, FiniteSets

CONSTANTS Daemons,   \* capture processes, each started at most once
          Sessions,  \* sercond session processes
          None,      \* no file
          Leftover,  \* the file of a daemon that died before the first step
          MaxFaults  \* bound of the model: processes that fail, die or are stopped

ASSUME EndpointAssumption ==
  /\ None \notin Daemons /\ Leftover \notin Daemons /\ None # Leftover
  /\ MaxFaults \in Nat

VARIABLES
  path,   \* the socket file: None, or whose it is
  ln,     \* the daemon's listener: "none", "bound", "open", "closed"
  dpc,    \* where the daemon is in cmdCapture
  hw,     \* the daemon's manager is running and holds the devices
  spc,    \* where the session is
  faults, \* how many processes failed, died or were stopped
  overlap \* a launch has overlapped with another one or with a daemon's end

vars == <<path, ln, dpc, hw, spc, faults, overlap>>

(* ipc.Alive: a connection to the path is accepted. *)
Alive == path \in Daemons /\ ln[path] = "open"

At(d, l) == dpc' = [dpc EXCEPT ![d] = l]

Fault == faults < MaxFaults /\ faults' = faults + 1

Launching(d) == dpc[d] \in {"lstat", "probe", "remove", "bind", "listen", "start"}

Stopping(d) == dpc[d] \in {"unlink", "shut", "release", "cleanup"}

Busy(d) == Launching(d) \/ Stopping(d)

----------------------------------------------------------------------------
(* ipc.Listen.  Operators whose comment begins with [fault] are what a      *)
(* plausible mistake would make of the operator that follows them.         *)

(* [fault] Without a file in the way the devices are opened first. *)
LstatStarts(d) ==
  /\ dpc[d] = "lstat"
  /\ At(d, IF path = None THEN "start" ELSE "probe")
  /\ UNCHANGED <<path, ln, hw, spc, faults, overlap>>

Lstat(d) ==
  /\ dpc[d] = "lstat"
  /\ At(d, IF path = None THEN "bind" ELSE "probe")
  /\ UNCHANGED <<path, ln, hw, spc, faults, overlap>>

(* [fault] Every file that exists is taken for a leftover. *)
ProbeNothing(d) ==
  /\ dpc[d] = "probe"
  /\ At(d, "remove")
  /\ UNCHANGED <<path, ln, hw, spc, faults, overlap>>

(* Another daemon answers: this one gives up.  It does not: a leftover. *)
Probe(d) ==
  /\ dpc[d] = "probe"
  /\ At(d, IF Alive THEN "gone" ELSE "remove")
  /\ UNCHANGED <<path, ln, hw, spc, faults, overlap>>

(* [fault] The leftover stays. *)
RemoveNothing(d) ==
  /\ dpc[d] = "remove"
  /\ At(d, "bind")
  /\ UNCHANGED <<path, ln, hw, spc, faults, overlap>>

(* os.Remove, which fails when somebody else has removed the file. *)
RemoveFile(d) ==
  /\ dpc[d] = "remove"
  /\ path' = None
  /\ At(d, IF path = None THEN "gone" ELSE "bind")
  /\ UNCHANGED <<ln, hw, spc, faults, overlap>>

(* bind(2) makes the file, or fails because there is one. *)
Bind(d) ==
  /\ dpc[d] = "bind"
  /\ IF path = None
       THEN path' = d /\ ln' = [ln EXCEPT ![d] = "bound"] /\ At(d, "listen")
       ELSE At(d, "gone") /\ UNCHANGED <<path, ln>>
  /\ UNCHANGED <<hw, spc, faults, overlap>>

Listen(d) ==
  /\ dpc[d] = "listen"
  /\ ln' = [ln EXCEPT ![d] = "open"]
  /\ At(d, "start")
  /\ UNCHANGED <<path, hw, spc, faults, overlap>>

----------------------------------------------------------------------------
(* cmdCapture. *)

(* hub.New and Start: from here on the devices are held. *)
Start(d) ==
  /\ dpc[d] = "start"
  /\ hw' = [hw EXCEPT ![d] = TRUE]
  /\ At(d, "serve")
  /\ UNCHANGED <<path, ln, spc, faults, overlap>>

StartFails(d) ==
  /\ dpc[d] = "start" /\ Fault
  /\ At(d, "unlink")
  /\ UNCHANGED <<path, ln, hw, spc, overlap>>

(* A signal, or a client's stop request. *)
Stop(d) ==
  /\ dpc[d] = "serve" /\ Fault
  /\ overlap' = (overlap \/ \E e \in Daemons : Launching(e))
  /\ At(d, "unlink")
  /\ UNCHANGED <<path, ln, hw, spc>>

(* ln.Close: unlink the path ... *)
Unlink(d) ==
  /\ dpc[d] = "unlink"
  /\ path' = None
  /\ At(d, "shut")
  /\ UNCHANGED <<ln, hw, spc, faults, overlap>>

(* ... and close the socket. *)
Shut(d) ==
  /\ dpc[d] = "shut"
  /\ ln' = [ln EXCEPT ![d] = "closed"]
  /\ At(d, IF hw[d] THEN "release" ELSE "cleanup")
  /\ UNCHANGED <<path, hw, spc, faults, overlap>>

(* Manager.Close returns. *)
Release(d) ==
  /\ dpc[d] = "release"
  /\ hw' = [hw EXCEPT ![d] = FALSE]
  /\ At(d, "cleanup")
  /\ UNCHANGED <<path, ln, spc, faults, overlap>>

(* The deferred os.Remove(sock). *)
Cleanup(d) ==
  /\ dpc[d] = "cleanup"
  /\ path' = None
  /\ At(d, "gone")
  /\ UNCHANGED <<ln, hw, spc, faults, overlap>>

(* The process is killed; its file stays, its socket does not. *)
Crash(d) ==
  /\ dpc[d] \notin {"none", "gone"} /\ Fault
  /\ ln' = [ln EXCEPT ![d] = IF @ = "none" THEN "none" ELSE "closed"]
  /\ hw' = [hw EXCEPT ![d] = FALSE]
  /\ At(d, "gone")
  /\ UNCHANGED <<path, spc, overlap>>

----------------------------------------------------------------------------
(* cmdSession. *)

Move(s, l) == spc' = [spc EXCEPT ![s] = l]

(* Ensure: is there a daemon? *)
Look(s) ==
  /\ spc[s] = "look"
  /\ Move(s, IF Alive THEN "dial" ELSE "spawn")
  /\ UNCHANGED <<path, ln, dpc, hw, faults, overlap>>

(* Processes are interchangeable: any that has not run yet will do. *)
Fresh == CHOOSE d \in Daemons : dpc[d] = "none"

Spawn(s) ==
  /\ spc[s] = "spawn" /\ \E d \in Daemons : dpc[d] = "none"
  /\ overlap' = (overlap \/ \E e \in Daemons : Busy(e))
  /\ At(Fresh, "lstat") /\ Move(s, "poll")
  /\ UNCHANGED <<path, ln, hw, faults>>

(* The error is kept for later: another session's daemon may answer. *)
SpawnFails(s) ==
  /\ spc[s] = "spawn" /\ Fault
  /\ Move(s, "poll")
  /\ UNCHANGED <<path, ln, dpc, hw, overlap>>

Poll(s) ==
  /\ spc[s] = "poll" /\ Alive
  /\ Move(s, "dial")
  /\ UNCHANGED <<path, ln, dpc, hw, faults, overlap>>

(* The deadline of Ensure. *)
GiveUp(s) ==
  /\ spc[s] = "poll"
  /\ Move(s, "failed")
  /\ UNCHANGED <<path, ln, dpc, hw, faults, overlap>>

Dial(s) ==
  /\ spc[s] = "dial"
  /\ Move(s, IF Alive THEN "connected" ELSE "failed")
  /\ UNCHANGED <<path, ln, dpc, hw, faults, overlap>>

----------------------------------------------------------------------------
Init ==
  /\ path \in {None, Leftover}
  /\ ln = [d \in Daemons |-> "none"] /\ dpc = [d \in Daemons |-> "none"]
  /\ hw = [d \in Daemons |-> FALSE]
  /\ spc = [s \in Sessions |-> "look"]
  /\ faults = 0 /\ overlap = FALSE

Opening(d) == Lstat(d) \/ Probe(d) \/ RemoveFile(d) \/ Bind(d) \/ Listen(d)

Ending(d) == Unlink(d) \/ Shut(d) \/ Release(d) \/ Cleanup(d)

Daemon(d) == Opening(d) \/ Start(d) \/ Ending(d)

Session(s) ==
  \/ Look(s) \/ Spawn(s) \/ Poll(s) \/ GiveUp(s) \/ Dial(s)

(* Every session has ended; daemons serve on or have ended.  Any other      *)
(* state without a step is a deadlock.                                     *)
Rest ==
  /\ \A s \in Sessions : spc[s] \in {"connected", "failed"}
  /\ \A d \in Daemons : dpc[d] \in {"none", "serve", "gone"}
  /\ UNCHANGED vars

Next ==
  \/ \E d \in Daemons : Daemon(d) \/ StartFails(d) \/ Stop(d) \/ Crash(d)
  \/ \E s \in Sessions : Session(s) \/ SpawnFails(s)
  \/ Rest

Spec == Init /\ [][Next]_vars

(* Processes that live run. *)
FairSpec ==
  /\ Spec
  /\ \A d \in Daemons : WF_vars(Daemon(d))
  /\ \A s \in Sessions : WF_vars(Session(s))

----------------------------------------------------------------------------
(* The types of all variables; and a daemon that has come past its bind, and *)
(* no other that lives, has a listener (cmdCapture binds before it touches  *)
(* the devices).                                                           *)
TypeOK ==
  /\ path \in Daemons \union {None, Leftover}
  /\ ln \in [Daemons -> {"none", "bound", "open", "closed"}]
  /\ dpc \in [Daemons -> {"none", "lstat", "probe", "remove", "bind", "listen", "start",
                          "serve", "unlink", "shut", "release", "cleanup", "gone"}]
  /\ hw \in [Daemons -> BOOLEAN]
  /\ spc \in [Sessions -> {"look", "spawn", "poll", "dial", "connected", "failed"}]
  /\ faults \in 0..MaxFaults /\ overlap \in BOOLEAN
  /\ \A d \in Daemons : dpc[d] # "gone" =>
       (ln[d] = "none" <=> dpc[d] \in {"none", "lstat", "probe", "remove", "bind"})

(* "Binding is also the single-instance lock" (ipc.Listen): two daemons     *)
(* never hold the devices at once.                                         *)
SingleInstance == \A d, e \in Daemons : hw[d] /\ hw[e] => d = e

(* "Later clients find it through the socket" (package daemon): the file of *)
(* a daemon that serves is its own.                                        *)
Reachable == \A d \in Daemons : dpc[d] = "serve" => path = d

(* The take-over is safe as long as launches overlap neither with each      *)
(* other nor with the end of a daemon, whatever files the daemons that died *)
(* left: one daemon at a time holds the devices (Listen, cmdCapture) ...    *)
SerialInstance == ~overlap => SingleInstance

(* ... and it is the one that clients find.                                *)
SerialReachable == ~overlap => Reachable

(* The inductive invariant of both: at most one daemon is on its way in or  *)
(* out; once it has found the path free no other one serves; and the path  *)
(* is its own from the bind on.                                            *)
Serial ==
  ~overlap =>
    /\ \A d, e \in Daemons : Busy(d) /\ Busy(e) => d = e
    /\ \A d \in Daemons : hw[d] => dpc[d] \in {"serve", "unlink", "shut", "release"}
    /\ \A d \in Daemons : dpc[d] \in {"listen", "start", "serve"} => path = d
    /\ \A d \in Daemons : dpc[d] \in {"start", "serve"} => ln[d] = "open"
    /\ \A d, e \in Daemons :
         dpc[e] = "serve" /\ d # e => dpc[d] \in {"none", "lstat", "probe", "serve", "gone"}

(* Once every failure is over and no daemon is ending, a session that found *)
(* none gets one started that serves, whatever file the dead ones left and  *)
(* however many sessions start one at a time (daemon.Ensure).              *)
Recovers ==
  \A s \in Sessions :
    spc[s] = "spawn" /\ faults = MaxFaults /\ (\A d \in Daemons : ~Stopping(d))
      ~> \E d \in Daemons : dpc[d] = "serve"

============================================================================
