------------------------------- MODULE Script -------------------------------
(***************************************************************************)
(* sercon run: the steps of a script (send, wait, sleep) against the        *)
(* transcript that a second goroutine collects.                             *)
(***************************************************************************)
EXTENDS Client

CONSTANTS
  Programs,   \* the scripts: sequences of "send", "wait" and "sleep"
  MaxCollect  \* chunks the transcript holds

ASSUME ScriptAssumption ==
  Programs \subseteq Seq({"send", "wait", "sleep"}) /\ MaxCollect \in Nat \ {0}

VARIABLES
  prog,      \* the steps
  step,      \* the step the main goroutine is at
  buf,       \* collector.buf: the chunks it holds
  consumed,  \* collector.consumed
  hits,      \* the chunks that ended a wait
  collects,  \* the collecting goroutine runs
  readErr    \* its error, or None

script == <<prog, step, buf, consumed, hits, collects, readErr>>

----------------------------------------------------------------------------
(* collector.  Operators whose comment begins with [fault] are what a       *)
(* plausible mistake would make of the operator after them.                 *)

Over(b) == IF Len(b) > MaxCollect THEN Len(b) - MaxCollect ELSE 0

(* [fault] The mark stays where it was when the transcript is cut. *)
ShiftNone(drop) == consumed' = IF consumed > MaxCollect THEN MaxCollect ELSE consumed

Shift(drop) == consumed' = IF consumed > drop THEN consumed - drop ELSE 0

(* The oldest chunks go when there are too many; everything is echoed.      *)
Feed(s, frames) ==
  LET b == buf \o frames IN
  /\ buf' = SubSeq(b, Over(b) + 1, Len(b))
  /\ Shift(Over(b))
  /\ shown' = shown \o Items(s, frames)

Matches == {i \in 1..Len(buf) : i > consumed /\ buf[i].hit}
First == CHOOSE i \in Matches : \A j \in Matches : i <= j

----------------------------------------------------------------------------
(* cmdRun.                                                                 *)

(* The capture file may not open. *)
RunReady ==
  /\ cmd = "run" /\ pc = "ready"
  /\ \/ /\ Goto("ready", "step") /\ collects' = TRUE
        /\ Feed(n, backlog)
        /\ UNCHANGED err
     \/ Fails("ready") /\ UNCHANGED <<collects, buf, consumed, shown>>
  /\ UNCHANGED <<cmd, tty, code, n, link, stage, down, typed, sent, backlog,
                 prog, step, hits, readErr>>

(* collect: one frame, or the end of the link. *)
Collect ==
  /\ collects /\ pc # "exit" /\ CanRead(n) /\ Take(n)
  /\ LET f == Head(down[n]) IN
     /\ IF f.op = "data" THEN Feed(n, <<f>>) ELSE UNCHANGED <<buf, consumed, shown>>
     /\ collects' = (f.op # "error")
     /\ readErr' = IF f.op = "error" THEN "error" ELSE readErr
  /\ UNCHANGED <<cmd, tty, pc, err, code, n, link, stage, typed, sent, backlog,
                 prog, step, hits>>

CollectEnds ==
  /\ collects /\ pc # "exit" /\ AtEnd(n)
  /\ collects' = FALSE /\ readErr' = "error"
  /\ UNCHANGED client /\ UNCHANGED <<prog, step, buf, consumed, hits>>

(* An error of the reader ends the run, but only between two steps. *)
LinkLost ==
  /\ pc = "step" /\ step <= Len(prog) /\ readErr # None
  /\ Fails("step") /\ readErr' = None
  /\ UNCHANGED <<cmd, tty, code, n, link, stage, down, typed, sent, backlog, shown>>
  /\ UNCHANGED <<prog, step, buf, consumed, hits, collects>>

At(kind) == pc = "step" /\ step <= Len(prog) /\ readErr = None /\ prog[step] = kind

(* A send that fails ends the run.  It may fill the pipe of a silent link,  *)
(* and it has no deadline.                                                  *)
SendOrSleep ==
  /\ At("send") \/ At("sleep")
  /\ IF prog[step] = "send" /\ ~CanWrite(n)
       THEN Fails("step") /\ UNCHANGED step
       ELSE Goto("step", "step") /\ step' = step + 1 /\ UNCHANGED err
  /\ UNCHANGED <<cmd, tty, code, n, link, stage, down, typed, sent, backlog, shown>>
  /\ UNCHANGED <<prog, buf, consumed, hits, collects, readErr>>

SendBlocks ==
  /\ At("send") /\ Goto("step", "send") /\ Blocks(n)
  /\ UNCHANGED <<cmd, tty, err, code, n, stage, down, typed, sent, backlog, shown>>
  /\ UNCHANGED script

SendFails ==
  /\ Fails("send") /\ ~Waits(n)
  /\ UNCHANGED <<cmd, tty, code, n, link, stage, down, typed, sent, backlog, shown>>
  /\ UNCHANGED script

WaitBegins == At("wait") /\ Goto("step", "wait")
  /\ UNCHANGED <<cmd, tty, err, code, n, link, stage, down, typed, sent, backlog, shown>>
  /\ UNCHANGED script

(* collector.wait looks at the transcript from the mark on. *)
WaitHit ==
  /\ Matches # {} /\ Goto("wait", "step")
  /\ consumed' = First
  /\ hits' = Append(hits, buf[First].k)
  /\ step' = step + 1
  /\ UNCHANGED <<cmd, tty, err, code, n, link, stage, down, typed, sent, backlog, shown>>
  /\ UNCHANGED <<prog, buf, collects, readErr>>

WaitMiss ==
  /\ Matches = {} /\ Goto("wait", "missed")
  /\ UNCHANGED <<cmd, tty, err, code, n, link, stage, down, typed, sent, backlog, shown>>
  /\ UNCHANGED script

(* It looks again when something was fed, or after 200 ms. *)
WaitAgain ==
  /\ Goto("missed", "wait")
  /\ UNCHANGED <<cmd, tty, err, code, n, link, stage, down, typed, sent, backlog, shown>>
  /\ UNCHANGED script

WaitTimeout ==
  /\ Fails("missed")
  /\ UNCHANGED <<cmd, tty, code, n, link, stage, down, typed, sent, backlog, shown>>
  /\ UNCHANGED script

(* 300 ms for the burst after the last match, then success. *)
Settle ==
  /\ step > Len(prog) /\ Goto("step", "leave") /\ err' = None
  /\ UNCHANGED <<cmd, tty, code, n, link, stage, down, typed, sent, backlog, shown>>
  /\ UNCHANGED script

Runner == RunReady \/ LinkLost \/ SendOrSleep \/ SendBlocks \/ SendFails
            \/ WaitBegins \/ WaitHit \/ WaitMiss \/ WaitAgain \/ WaitTimeout \/ Settle
Collector == Collect \/ CollectEnds

ScriptInit ==
  /\ prog \in (IF cmd = "run" THEN Programs ELSE {<<>>})
  /\ step = 1 /\ buf = <<>> /\ consumed = 0 /\ hits = <<>>
  /\ collects = FALSE /\ readErr = None
=============================================================================
