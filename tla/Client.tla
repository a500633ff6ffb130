------------------------------- MODULE Client -------------------------------
(***************************************************************************)
(* The command sercon: what its subcommands share.  main dispatches to one  *)
(* of them; a session spawns ssh (dialRemote), says hello, asks for the     *)
(* port and reads frames until the daemon's reply to each (readUntil).      *)
(*                                                                         *)
(* A session is numbered by its dial.  Goroutines of an earlier session may *)
(* outlive it, so everything they use is kept per session.  The daemon is   *)
(* its side of the conversation only; Hub and Stream are the daemon.        *)
(***************************************************************************)
EXTENDS Integers, Sequences, FiniteSets, SequencesExt

CONSTANTS
  None,      \* no error, no exit status
  MaxDials,  \* bound of the model: sessions of one process
  MaxFaulty, \* bound of the model: the first sessions, whose link may fail
  MaxTty,    \* bound of the model: dials, data chunks and keys of a process on
  MaxPiped   \* a terminal, and of one that is not

ASSUME ClientAssumption == MaxDials \in Nat \ {0} /\ MaxTty \in Nat /\ MaxPiped \in Nat

Sessions == 1..MaxDials
Commands == {"attach", "run", "ask"}     \* "ask" is ls, status and stop
Errors == {None, "quit", "reconnect", "error"}

VARIABLES
  cmd,      \* the subcommand
  tty,      \* standard input is a terminal
  pc,       \* where the main goroutine is
  err,      \* the error it carries
  code,     \* the exit status, or None
  n,        \* dials so far; the session of the main goroutine
  link,     \* "none", "up", "silent" (half-open), "full" (half-open, and a write that
            \* fills the pipe to ssh holds the Writer), "cut" (ssh has ended), "closed"
  stage,    \* what the daemon has been asked, and has answered
  down,     \* frames the client has not read
  typed,    \* how many keys were typed, or piped in
  sent,     \* data chunks the daemon has sent
  backlog,  \* data that arrived before the reply to open
  shown     \* what standard output (and a capture file) got: <<session, chunk>>

client == <<cmd, tty, pc, err, code, n, link, stage, down, typed, sent, backlog, shown>>

Chunk(k, hit) == [op |-> "data", k |-> k, hit |-> hit]
Ctrl(op) == [op |-> op, k |-> 0, hit |-> FALSE]

InBounds == n + typed + FoldFunction(LAMBDA a, b : a + b, 0, sent)
              < IF tty THEN MaxTty ELSE MaxPiped

Items(s, frames) == [i \in DOMAIN frames |-> <<s, frames[i].k>>]

----------------------------------------------------------------------------
(* ssh and the two pipes to it.  A frame is written and flushed under the   *)
(* lock of the session's Writer, so a write that finds the pipe full keeps  *)
(* every other of the session waiting until ssh ends or the pipe is closed. *)

CanWrite(s) == link[s] \in {"up", "silent"}
Waits(s) == link[s] = "full"
Blocks(s) == link[s] \in {"silent", "full"} /\ link' = [link EXCEPT ![s] = "full"]
Arrives(s) == link[s] = "up"
CanRead(s) == down[s] # <<>>
AtEnd(s) == link[s] = "closed" \/ (link[s] = "cut" /\ ~CanRead(s))

Take(s) == down' = [down EXCEPT ![s] = Tail(@)]

(* The main goroutine's step from l to l1. *)
Goto(l, l1) == pc = l /\ pc' = l1
Fails(l) == Goto(l, "leave") /\ err' = "error"

(* No target; or ls, status and stop, which run one ssh to its end.  The    *)
(* session commands dial.                                                  *)
Dispatch ==
  /\ Goto("main", IF cmd = "ask" THEN "ended" ELSE "dial")
  /\ err' \in (IF cmd = "ask" THEN {None, "error"} ELSE {None})
  /\ UNCHANGED <<cmd, tty, code, n, link, stage, down, typed, sent, backlog, shown>>

BadUsage ==
  /\ Goto("main", "exit") /\ code' \in {1, 2}
  /\ UNCHANGED <<cmd, tty, err, n, link, stage, down, typed, sent, backlog, shown>>

Dial ==
  /\ Goto("dial", "hello") /\ n < MaxDials /\ InBounds
  /\ n' = n + 1
  /\ link' = [link EXCEPT ![n'] = "up"]
  /\ backlog' = <<>>
  /\ UNCHANGED <<cmd, tty, err, code, stage, down, typed, sent, shown>>

(* ssh does not start: there is nothing to close. *)
DialFails ==
  /\ Goto("dial", "ended") /\ err' = "error"
  /\ UNCHANGED <<cmd, tty, code, n, link, stage, down, typed, sent, backlog, shown>>

----------------------------------------------------------------------------
(* handshake, openPort: the first frames of a session find the pipe empty.  *)
(* Operators whose comment begins with [fault] are what a plausible mistake *)
(* would make of the operator after them.                                   *)

Ask(l, l1, q) ==
  /\ pc = l
  /\ IF CanWrite(n)
       THEN /\ Goto(l, l1)
            /\ stage' = [stage EXCEPT ![n] = IF Arrives(n) THEN q ELSE @]
            /\ UNCHANGED err
       ELSE Fails(l) /\ UNCHANGED stage
  /\ UNCHANGED <<cmd, tty, code, n, link, down, typed, sent, backlog, shown>>

Hello == Ask("hello", "welcome", "hello")
OpenPort == Ask("open", "opened", "asked")

(* [fault] Data before the reply is dropped. *)
KeepNone(f) == UNCHANGED backlog

(* Data before the reply is kept for the caller. *)
Keep(f) ==
  IF f.op = "data" THEN backlog' = Append(backlog, f) ELSE UNCHANGED backlog

(* One frame: the reply that is waited for, an error, or something to skip. *)
ReadUntil(l, want, l1) ==
  /\ pc = l /\ CanRead(n) /\ Take(n)
  /\ LET f == Head(down[n]) IN
     /\ Keep(f)
     /\ \/ f.op = "error" /\ Fails(l)
        \/ f.op = want /\ Goto(l, l1) /\ UNCHANGED err
        \/ f.op \notin {"error", want} /\ Goto(l, l) /\ UNCHANGED err
  /\ UNCHANGED <<cmd, tty, code, n, link, stage, typed, sent, shown>>

ReadFails(l) ==
  /\ pc = l /\ AtEnd(n) /\ Fails(l)
  /\ UNCHANGED <<cmd, tty, code, n, link, stage, down, typed, sent, backlog, shown>>

Handshake ==
  \/ Hello \/ ReadUntil("welcome", "welcome", "open") \/ ReadFails("welcome")
  \/ OpenPort \/ ReadUntil("opened", "opened", "ready") \/ ReadFails("opened")

----------------------------------------------------------------------------
(* remote.Close: both streams are closed, and ssh ends by then or is killed *)
(* after two seconds.  It runs at the end of a session ("close") and once   *)
(* more when attachOnce or cmdRun returns ("leave").                        *)
Close ==
  /\ \/ Goto("close", "drain") \/ Goto("leave", "ended")
  /\ link' = [link EXCEPT ![n] = "closed"]
  /\ UNCHANGED <<cmd, tty, err, code, n, stage, down, typed, sent, backlog, shown>>

(* The end of cmdRun, cmdList, cmdStatus and cmdStop, back in main. *)
Exit ==
  /\ Goto("ended", "exit") /\ cmd # "attach"
  /\ code' = IF err \in {None, "quit"} THEN 0 ELSE 1
  /\ UNCHANGED <<cmd, tty, err, n, link, stage, down, typed, sent, backlog, shown>>

----------------------------------------------------------------------------
(* Outside the process: the daemon's side, the network, ssh's keep-alive.   *)

Talks(s) == link[s] = "up" /\ pc # "exit"

Says(s, f) == down' = [down EXCEPT ![s] = Append(@, f)]

Answer(s) ==
  /\ Talks(s)
  /\ \/ /\ stage[s] = "hello" /\ Says(s, Ctrl("welcome"))
        /\ stage' = [stage EXCEPT ![s] = "welcomed"]
     \/ /\ stage[s] = "asked"
        /\ \/ Says(s, Ctrl("opened")) /\ stage' = [stage EXCEPT ![s] = "open"]
           \/ Says(s, Ctrl("error")) /\ stage' = [stage EXCEPT ![s] = "refused"]
  /\ UNCHANGED <<cmd, tty, pc, err, code, n, link, typed, sent, backlog, shown>>

(* The backlog goes out ahead of the reply to open, live data after it.     *)
Data(s) ==
  /\ Talks(s) /\ stage[s] \in {"asked", "open"} /\ InBounds
  /\ sent' = [sent EXCEPT ![s] = @ + 1]
  /\ \E hit \in (IF cmd = "run" THEN BOOLEAN ELSE {FALSE}) : Says(s, Chunk(sent'[s], hit))
  /\ UNCHANGED <<cmd, tty, pc, err, code, n, link, stage, typed, backlog, shown>>

(* A refusal, which only run acts on, or the end of the attachment.         *)
Remark(s) ==
  /\ Talks(s) /\ stage[s] = "open" /\ ~CanRead(s)
  /\ \/ cmd = "run" /\ Says(s, Ctrl("error")) /\ UNCHANGED stage
     \/ Says(s, Ctrl("closed")) /\ stage' = [stage EXCEPT ![s] = "closed"]
  /\ UNCHANGED <<cmd, tty, pc, err, code, n, link, typed, sent, backlog, shown>>

LinkFails(s) ==
  /\ Talks(s) /\ s <= MaxFaulty
  /\ \E l \in {"silent", "cut"} : link' = [link EXCEPT ![s] = l]
  /\ UNCHANGED <<cmd, tty, pc, err, code, n, stage, down, typed, sent, backlog, shown>>

(* ServerAliveInterval and ServerAliveCountMax: ssh gives a dead link up.   *)
KeepAlive(s) ==
  /\ link[s] \in {"silent", "full"} /\ pc # "exit"
  /\ link' = [link EXCEPT ![s] = "cut"]
  /\ UNCHANGED <<cmd, tty, pc, err, code, n, stage, down, typed, sent, backlog, shown>>

Outside == \E s \in 1..n : Answer(s) \/ Data(s) \/ Remark(s) \/ LinkFails(s) \/ KeepAlive(s)

Common == Dispatch \/ BadUsage \/ Dial \/ DialFails \/ Handshake \/ Close \/ Exit

ClientInit ==
  /\ cmd \in Commands /\ tty \in (IF cmd = "attach" THEN BOOLEAN ELSE {FALSE})
  /\ pc = "main" /\ err = None /\ code = None /\ n = 0
  /\ link = [s \in Sessions |-> "none"]
  /\ stage = [s \in Sessions |-> "none"]
  /\ down = [s \in Sessions |-> <<>>]
  /\ typed = 0 /\ sent = [s \in Sessions |-> 0]
  /\ backlog = <<>> /\ shown = <<>>
=============================================================================
