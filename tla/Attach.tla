------------------------------- MODULE Attach -------------------------------
(***************************************************************************)
(* sercon attach: a session is the main goroutine and three others, which   *)
(* pump the keyboard, pump the output and keep the connection alive.  The   *)
(* first of them to end, a signal or a recorded failure ends the session;   *)
(* the others are given 500 ms.  On a terminal the command then reconnects. *)
(*                                                                         *)
(* A key is a record of its kind and of its place in what was typed.        *)
(***************************************************************************)
EXTENDS Client

CONSTANTS
  Retries,   \* whether --no-reconnect may be absent, be given
  Logs,      \* whether --log may be given, be absent
  Kinds,     \* keys that are typed: "k" for most, "esc" for Ctrl-A, commands
  MaxQuiet   \* pings without an answer before the deadline is over

ASSUME AttachAssumption ==
  /\ None \notin {"quit", "reconnect", "error"}
  /\ Retries \subseteq BOOLEAN /\ Logs \subseteq BOOLEAN /\ MaxQuiet \in Nat

Quits == {"x"}                  \* x X q Q
Plain(kind) == kind \notin {"a", "x", "r", "l", "b"}
MaxBackoff == 15

VARIABLES
  retry,    \* --no-reconnect was not given
  stdin,    \* those nobody has read
  eof,      \* standard input is closed
  raw,      \* the terminal is raw
  backoff,  \* seconds before the next attempt
  inp,      \* per session: pumpInput
  escaping, \* session.escaping
  held,     \* a read whose write blocks: what was made of it so far, and the rest
  outp,     \* pumpOutput
  beat,     \* heartbeat runs
  quiet,    \* pings since the last frame
  failure,  \* session.failure
  ended,    \* session.closed is closed
  out,      \* the first result of the goroutines: the others are discarded
  logged,   \* the local log: the same items as shown
  logOn,    \* localLog.on
  took,     \* history: the keys each session has read
  up        \* history: the keys of each session that reached the daemon

keyboard == <<stdin, eof>>
local == <<logged, logOn>>
input == <<inp, escaping, held, took, up>>
pulse == <<beat, quiet>>
fate == <<failure, ended>>
attach == <<retry, keyboard, raw, backoff, input, outp, pulse, fate, out, local>>

Result(s, e) == out' = IF s = n /\ pc = "live" /\ out[s] = <<>>
                         THEN [out EXCEPT ![s] = <<e>>] ELSE out
Show(s, items) ==
  /\ shown' = shown \o items
  /\ logged' = IF logOn THEN logged \o items ELSE logged

----------------------------------------------------------------------------
(* handleKeys and escape.  Operators whose comment begins with [fault] are  *)
(* what a plausible mistake would make of the operator after them.          *)

(* One key, given what the session did with the keys before it: whether an  *)
(* escape is open, the keys to send, whether the log is toggled, the end.   *)
Key(d, key) ==
  IF d.stop # None THEN d
  ELSE IF ~d.esc THEN IF key.kind = "esc" THEN [d EXCEPT !.esc = TRUE, !.mark = key]
                      ELSE [d EXCEPT !.emit = Append(@, key)]
  ELSE LET e == [d EXCEPT !.esc = FALSE] IN
       CASE key.kind \in Quits -> [e EXCEPT !.stop = "quit"]
         [] key.kind = "r"     -> [e EXCEPT !.stop = "reconnect"]
         [] key.kind = "l"     -> [e EXCEPT !.log = ~@]
         [] key.kind = "b"     -> e
         [] key.kind = "a"     -> [e EXCEPT !.emit = Append(@, key)]
         [] OTHER              -> [e EXCEPT !.emit = @ \o <<d.mark, key>>]

Fresh(s) == [esc |-> escaping[s].open, mark |-> escaping[s].mark,
             emit |-> <<>>, log |-> FALSE, stop |-> None]

Decoded(d0, keys) ==
  LET d[i \in 0..Len(keys)] == IF i = 0 THEN d0 ELSE Key(d[i - 1], keys[i])
  IN  d[Len(keys)]

(* [fault] An escape does not survive the end of a read. *)
DecodeAfresh(s, keys) == Decoded([Fresh(s) EXCEPT !.esc = FALSE], keys)

Decode(s, keys) == Decoded(Fresh(s), keys)

(* The keys as they are, on a pipe. *)
Literal(s, keys) == [Fresh(s) EXCEPT !.emit = keys]

Handled(s, keys) == IF tty THEN Decode(s, keys) ELSE Literal(s, keys)

(* What was typed before a request to reconnect in the same read is dropped. *)
Sends(d) == IF d.stop = "reconnect" THEN <<>> ELSE d.emit

(* A break or a request for the status is written at its key i, ahead of    *)
(* the keys before it; these are written at the end.                        *)
Writes(s, keys, i) ==
  LET d == Handled(s, SubSeq(keys, 1, i - 1)) IN
  \/ tty /\ d.stop = None /\ d.esc /\ keys[i].kind = "b"
  \/ i = Len(keys) /\ Sends(Handled(s, keys)) # <<>>

Notes(s, d) ==
  /\ escaping' = [escaping EXCEPT ![s] = [open |-> d.esc, mark |-> d.mark]]
  /\ logOn' = IF d.log THEN ~logOn ELSE logOn

(* A break that is not written is no error. *)
HandleKeys(s, d) ==
  LET lost == Sends(d) # <<>> /\ ~CanWrite(s)
      end == IF d.stop # None THEN d.stop ELSE IF lost THEN "error" ELSE None
  IN
  /\ Notes(s, d)
  /\ up' = IF CanWrite(s) /\ Arrives(s) THEN [up EXCEPT ![s] = @ \o Sends(d)] ELSE up
  /\ inp' = [inp EXCEPT ![s] = IF end = None THEN "read" ELSE "done"]
  /\ IF end = None THEN UNCHANGED out ELSE Result(s, end)

----------------------------------------------------------------------------
(* pumpInput.                                                              *)

(* A read takes what there is of it, and its keys are handled.  The pump of *)
(* a session that has ended is still blocked in its read.                   *)
Fetch(s, k) ==
  /\ inp[s] = "read"
  /\ took' = [took EXCEPT ![s] = @ \o SubSeq(stdin, 1, k)]
  /\ stdin' = SubSeq(stdin, k + 1, Len(stdin))

ReadKeys(s) ==
  /\ \E k \in 1..Len(stdin) :
       /\ Fetch(s, k)
       /\ Waits(s) => \A i \in 1..k : ~Writes(s, SubSeq(stdin, 1, k), i)
       /\ HandleKeys(s, Handled(s, SubSeq(stdin, 1, k)))
  /\ UNCHANGED client
  /\ UNCHANGED <<retry, eof, raw, backoff, held, outp, pulse, fate, logged>>

(* The write at key i of a read does not return. *)
WriteBlocks(s) ==
  /\ \E k \in 1..Len(stdin) : \E i \in 1..k :
       LET keys == SubSeq(stdin, 1, k)
           d == Handled(s, SubSeq(keys, 1, i))
       IN
       /\ Fetch(s, k)
       /\ Writes(s, keys, i) /\ Blocks(s)
       /\ Waits(s) => \A j \in 1..(i - 1) : ~Writes(s, keys, j)
       /\ Notes(s, d)
       /\ held' = [held EXCEPT ![s] = [done |-> [d EXCEPT !.log = FALSE],
                                      rest |-> SubSeq(keys, i + 1, k)]]
  /\ inp' = [inp EXCEPT ![s] = "stuck"]
  /\ UNCHANGED <<cmd, tty, pc, err, code, n, stage, down, typed, sent, backlog, shown>>
  /\ UNCHANGED <<retry, eof, raw, backoff, up, outp, pulse, fate, out, logged>>

(* It fails when the pipe is broken or closed; the rest is handled then.    *)
WriteFails(s) ==
  /\ inp[s] = "stuck" /\ ~Waits(s)
  /\ HandleKeys(s, Decoded(held[s].done, held[s].rest))
  /\ UNCHANGED client
  /\ UNCHANGED <<retry, keyboard, raw, backoff, held, took, outp, pulse, fate, logged>>

(* A terminal that was closed ends the session; a pipe just stops typing.   *)
InputClosed(s) ==
  IF tty THEN inp' = [inp EXCEPT ![s] = "done"] /\ Result(s, None)
  ELSE inp' = [inp EXCEPT ![s] = "parked"] /\ UNCHANGED out

EndOfInput(s) ==
  /\ inp[s] = "read" /\ stdin = <<>> /\ eof
  /\ InputClosed(s)
  /\ UNCHANGED client
  /\ UNCHANGED <<retry, keyboard, raw, backoff, escaping, held, took, up, outp, pulse, fate, local>>

Unpark(s) ==
  /\ inp[s] = "parked" /\ ended[s]
  /\ inp' = [inp EXCEPT ![s] = "done"] /\ Result(s, None)
  /\ UNCHANGED client
  /\ UNCHANGED <<retry, keyboard, raw, backoff, escaping, held, took, up, outp, pulse, fate, local>>

PumpInput(s) == ReadKeys(s) \/ WriteFails(s) \/ EndOfInput(s) \/ Unpark(s)

----------------------------------------------------------------------------
(* pumpOutput, handleMessage.                                              *)

(* Every frame counts as a sign of life.  Data goes to standard output,    *)
(* then to the log; a reader of the output that went away ends the pump.    *)
Receive(s) ==
  /\ outp[s] = "read" /\ CanRead(s) /\ Take(s)
  /\ quiet' = [quiet EXCEPT ![s] = 0]
  /\ LET f == Head(down[s]) IN
     \/ f.op = "data" /\ Show(s, Items(s, <<f>>)) /\ UNCHANGED <<outp, out>>
     \/ /\ \/ f.op = "data" /\ ~tty /\ Result(s, "error")
           \/ f.op = "closed" /\ Result(s, "quit")
        /\ outp' = [outp EXCEPT ![s] = "done"] /\ UNCHANGED <<shown, logged>>
     \/ f.op \notin {"data", "closed"} /\ UNCHANGED <<outp, out, shown, logged>>
  /\ UNCHANGED <<cmd, tty, pc, err, code, n, link, stage, typed, sent, backlog>>
  /\ UNCHANGED <<retry, keyboard, raw, backoff, input, beat, fate, logOn>>

OutputEnds(s) ==
  /\ outp[s] = "read" /\ AtEnd(s)
  /\ outp' = [outp EXCEPT ![s] = "done"] /\ Result(s, "error")
  /\ UNCHANGED client
  /\ UNCHANGED <<retry, keyboard, raw, backoff, input, pulse, fate, local>>

PumpOutput(s) == Receive(s) \/ OutputEnds(s)

----------------------------------------------------------------------------
(* heartbeat, fail.                                                        *)

(* The first failure is kept, and session.closed is closed once. *)
Fail(s) ==
  /\ failure' = [failure EXCEPT ![s] = "error"]
  /\ ended' = [ended EXCEPT ![s] = TRUE]
  /\ beat' = [beat EXCEPT ![s] = FALSE]
  /\ Result(s, "error")

(* [fault] The pings are sent and nobody looks at the answers. *)
BeatBlindly(s) ==
  IF ~CanWrite(s) THEN Fail(s) /\ UNCHANGED quiet
  ELSE UNCHANGED <<failure, ended, beat, out, quiet>>

(* One tick: a ping, which a link that is up answers before the next tick.  *)
Beat(s) ==
  IF ~CanWrite(s) \/ quiet[s] = MaxQuiet THEN Fail(s) /\ UNCHANGED quiet
  ELSE /\ quiet' = [quiet EXCEPT ![s] = IF Arrives(s) THEN 0 ELSE @ + 1]
       /\ UNCHANGED <<failure, ended, beat, out>>

Heartbeat(s) ==
  /\ beat[s] /\ ~Waits(s) /\ Beat(s)
  /\ UNCHANGED client
  /\ UNCHANGED <<retry, keyboard, raw, backoff, input, outp, local>>

(* Behind the keys that were written, the ping is what fills the pipe.      *)
PingBlocks(s) ==
  /\ beat[s] /\ took[s] # <<>> /\ ~Waits(s) /\ Blocks(s)
  /\ UNCHANGED <<cmd, tty, pc, err, code, n, stage, down, typed, sent, backlog, shown>>
  /\ UNCHANGED attach

PipeFills(s) == WriteBlocks(s) \/ PingBlocks(s)

(* session.closed is only closed by fail, so heartbeat ends by its own.     *)

----------------------------------------------------------------------------
(* attachOnce, run, runPiped.                                              *)

(* The backlog is shown before the goroutines start. *)
BeginWith(s) == Show(s, Items(s, backlog))

Begin ==
  /\ cmd = "attach"
  /\ \/ /\ Goto("ready", "live") /\ UNCHANGED err
        /\ raw' = tty
        /\ BeginWith(n)
        /\ inp' = [inp EXCEPT ![n] = "read"]
        /\ outp' = [outp EXCEPT ![n] = "read"]
        /\ beat' = [beat EXCEPT ![n] = TRUE]
     \/ /\ tty /\ Fails("ready")     \* no raw mode
        /\ UNCHANGED <<raw, shown, logged, inp, outp, beat>>
  /\ UNCHANGED <<cmd, tty, code, n, link, stage, down, typed, sent, backlog>>
  /\ UNCHANGED <<retry, keyboard, backoff, escaping, held, took, up, quiet, fate, out, logOn>>

(* select: a result, or session.closed. *)
SessionEnds ==
  /\ Goto("live", "close")
  /\ \/ /\ out[n] # <<>>
        /\ err' = Head(out[n])
     \/ ended[n] /\ err' = None
  /\ UNCHANGED <<cmd, tty, code, n, link, stage, down, typed, sent, backlog, shown>>
  /\ UNCHANGED attach

(* drain has received two results or waited for 500 ms; the recorded        *)
(* failure replaces the result, and the terminal is restored.               *)
Restore ==
  /\ Goto("drain", "leave")
  /\ err' = IF failure[n] # None THEN failure[n] ELSE err
  /\ raw' = FALSE
  /\ UNCHANGED <<cmd, tty, code, n, link, stage, down, typed, sent, backlog, shown>>
  /\ UNCHANGED <<retry, keyboard, backoff, input, outp, pulse, fate, out, local>>

----------------------------------------------------------------------------
(* cmdAttach.                                                              *)

AttachExit(status) ==
  /\ Goto("ended", "exit") /\ code' = status /\ UNCHANGED <<err, backoff>>

(* What a session that ended leads to: the end, another dial, or a pause.   *)
Again ==
  /\ cmd = "attach"
  /\ \/ err \in {None, "quit"} /\ AttachExit(0)
     \/ /\ err = "reconnect" /\ Goto("ended", "dial") /\ backoff' = 1
        /\ err' = None /\ UNCHANGED code
     \/ err = "error" /\ ~retry /\ AttachExit(1)
     \/ /\ err = "error" /\ retry /\ Goto("ended", "backoff")
        /\ UNCHANGED <<err, backoff, code>>
  /\ UNCHANGED <<cmd, tty, n, link, stage, down, typed, sent, backlog, shown>>
  /\ UNCHANGED <<retry, keyboard, raw, input, outp, pulse, fate, out, local>>

(* [fault] The pause doubles without a limit. *)
DoubleOnly(b) == 2 * b

Longer(b) == IF 2 * b > MaxBackoff THEN MaxBackoff ELSE 2 * b

(* The pause is over: dial, and double the next one up to the longest.      *)
Retry ==
  /\ Goto("backoff", "dial")
  /\ err' = None
  /\ backoff' = Longer(backoff)
  /\ UNCHANGED <<cmd, tty, code, n, link, stage, down, typed, sent, backlog, shown>>
  /\ UNCHANGED <<retry, keyboard, raw, input, outp, pulse, fate, out, local>>

(* On a pipe a signal ends the session as well. *)
Signal ==
  /\ ~tty /\ Goto("live", "close") /\ err' = None
  /\ UNCHANGED <<cmd, tty, code, n, link, stage, down, typed, sent, backlog, shown>>
  /\ UNCHANGED attach

(* Ctrl-C while the terminal is not raw, in the pause or while dialling.    *)
Interrupt ==
  /\ cmd = "attach" /\ ~raw
  /\ pc \in {"dial", "hello", "welcome", "open", "opened", "backoff"} /\ pc' = "exit"
  /\ code' = IF pc = "backoff" THEN 0 ELSE 1
  /\ UNCHANGED <<cmd, tty, err, n, link, stage, down, typed, sent, backlog, shown>>
  /\ UNCHANGED attach

(* The keyboard, or what is piped in.  Bound of the model: nothing is typed *)
(* while the main goroutine dials or closes.                               *)
Type ==
  /\ pc \in {"live", "backoff"} /\ InBounds /\ ~eof
  /\ \E k \in (IF tty THEN Kinds ELSE {"k"}) :
       stdin' = Append(stdin, [kind |-> k, n |-> typed + 1])
  /\ typed' = typed + 1
  /\ UNCHANGED <<cmd, tty, pc, err, code, n, link, stage, down, sent, backlog, shown>>
  /\ UNCHANGED <<retry, eof, raw, backoff, input, outp, pulse, fate, out, local>>

(* Bound of the model: a terminal is closed before anything is typed.       *)
CloseInput ==
  /\ pc = "live" /\ ~eof /\ (tty => typed = 0 /\ n = 1) /\ eof' = TRUE
  /\ UNCHANGED client
  /\ UNCHANGED <<retry, stdin, raw, backoff, input, outp, pulse, fate, out, local>>

Attacher == Begin \/ SessionEnds \/ Restore \/ Again \/ Retry

(* A pipe does not reconnect.  --log opens the local log.                   *)
AttachInit ==
  /\ retry \in (IF cmd = "attach" /\ tty THEN Retries ELSE {FALSE})
  /\ stdin = <<>> /\ eof = FALSE
  /\ raw = FALSE /\ backoff = 1
  /\ inp = [s \in Sessions |-> "none"] /\ outp = [s \in Sessions |-> "none"]
  /\ escaping = [s \in Sessions |-> [open |-> FALSE, mark |-> None]]
  /\ held = [s \in Sessions |-> [done |-> [esc |-> FALSE, mark |-> None, emit |-> <<>>,
                                           log |-> FALSE, stop |-> None],
                                rest |-> <<>>]]
  /\ beat = [s \in Sessions |-> FALSE] /\ quiet = [s \in Sessions |-> 0]
  /\ failure = [s \in Sessions |-> None] /\ ended = [s \in Sessions |-> FALSE]
  /\ out = [s \in Sessions |-> <<>>]
  /\ logged = <<>> /\ logOn \in (IF cmd = "attach" THEN Logs ELSE {FALSE})
  /\ took = [s \in Sessions |-> <<>>] /\ up = [s \in Sessions |-> <<>>]
=============================================================================
