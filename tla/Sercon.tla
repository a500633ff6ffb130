------------------------------- MODULE Sercon -------------------------------
(***************************************************************************)
(* The command sercon as a process: its subcommands over one entry point,   *)
(* one kind of session and one daemon, and what is expected of them.        *)
(***************************************************************************)
EXTENDS Attach, Script, Text, Select

vars == <<client, attach, script>>

Init == ClientInit /\ AttachInit /\ ScriptInit

Running == pc # "exit"

Goroutines(s) ==
  /\ Running
  /\ PumpInput(s) \/ PumpOutput(s) \/ Heartbeat(s) \/ PipeFills(s)
  /\ UNCHANGED script

Main ==
  \/ Common /\ UNCHANGED <<attach, script>>
  \/ Attacher /\ UNCHANGED script
  \/ Runner /\ UNCHANGED attach

User == (Type \/ CloseInput \/ Signal \/ Interrupt) /\ UNCHANGED script
Daemon == Outside /\ UNCHANGED <<attach, script>>
Collecting == Collector /\ UNCHANGED attach

(* The process is gone. *)
Exited == pc = "exit" /\ UNCHANGED vars

Next ==
  \/ Main
  \/ \E s \in Sessions : Goroutines(s)
  \/ Collecting \/ User \/ Daemon \/ Exited

Spec == Init /\ [][Next]_vars

(* The goroutines run, and the time of a wait passes.  Nothing is assumed   *)
(* of the user, of signals, of the daemon, of the network or of ssh's own   *)
(* keep-alive, and a write into a full pipe need not end.                   *)
FairSpec ==
  /\ Spec
  /\ WF_vars(Main) /\ WF_vars(Collecting)
  /\ SF_vars(WaitTimeout /\ UNCHANGED attach)
  /\ \A s \in Sessions : /\ WF_vars(Running /\ PumpInput(s) /\ UNCHANGED script)
                         /\ WF_vars(Running /\ PumpOutput(s) /\ UNCHANGED script)
                         /\ WF_vars(Running /\ Heartbeat(s) /\ UNCHANGED script)

----------------------------------------------------------------------------
(* Every variable holds what its declaration in the code lets it hold, and  *)
(* the transcript's mark stays inside the transcript, which is bounded.     *)
TypeOK ==
  /\ cmd \in Commands /\ err \in Errors /\ code \in {None, 0, 1, 2}
  /\ n \in 0..MaxDials /\ tty \in BOOLEAN /\ retry \in BOOLEAN /\ raw \in BOOLEAN
  /\ link \in [Sessions -> {"none", "up", "silent", "full", "cut", "closed"}]
  /\ inp \in [Sessions -> {"none", "read", "stuck", "parked", "done"}]
  /\ outp \in [Sessions -> {"none", "read", "done"}]
  /\ quiet \in [Sessions -> 0..MaxQuiet]
  /\ backoff \in {1, 2, 4, 8, MaxBackoff}
  /\ Len(buf) <= MaxCollect /\ consumed \in 0..Len(buf)

(* What a sequence of keys means, read as a whole: an escape is open after  *)
(* an unescaped Ctrl-A.                                                     *)
Open(q) == LET o[i \in 0..Len(q)] == i > 0 /\ q[i].kind = "esc" /\ ~o[i - 1] IN o

Means(q, i) ==
  IF ~Open(q)[i - 1] THEN IF q[i].kind = "esc" THEN <<>> ELSE <<q[i]>>
  ELSE IF q[i].kind = "a" THEN <<q[i]>>
  ELSE IF Plain(q[i].kind) THEN <<q[i - 1], q[i]>>
  ELSE <<>>

Meaning(q) == IF tty THEN FlattenSeq([i \in DOMAIN q |-> Means(q, i)]) ELSE q

(* The daemon receives what the keys that a session read mean, however the  *)
(* reads cut them apart: none is lost or sent twice, and a command key is   *)
(* never sent, until the session's link or the session ends.                *)
KeysSent ==
  \A s \in 1..n :
    /\ IsPrefix(up[s], Meaning(took[s]))
    /\ inp[s] = "read" /\ link[s] = "up" => up[s] = Meaning(took[s])

ShownOf(s) == Only(shown, {s} \X Nat)
DataOf(s, frames) == Items(s, Only(frames, [op : {"data"}, k : Nat, hit : BOOLEAN]))
Sent(s) == [k \in 1..sent[s] |-> <<s, k>>]

(* No chunk is lost, repeated or shown out of order between the daemon and  *)
(* the console (or the capture file), across the seam between the backlog   *)
(* and live data; the local log follows what was shown.                     *)
ConsoleComplete ==
  /\ \A s \in 1..n :
       /\ IsPrefix(ShownOf(s), Sent(s))
       /\ outp[s] = "read" => ShownOf(s) \o DataOf(s, down[s]) = Sent(s)
  /\ collects => ShownOf(n) \o DataOf(n, down[n]) = Sent(n)
  /\ pc = "ready" => DataOf(n, backlog) \o DataOf(n, down[n]) = Sent(n)
  /\ logged = Only(shown, ToSet(logged))

(* A pipe that was closed does not end the session: its input goroutine     *)
(* ends only after the session's link, its streams or the session itself.   *)
PipeKeepsReading ==
  \A s \in 1..n : ~tty /\ inp[s] = "done" => link[s] \in {"cut", "closed"} \/ ended[s]

(* What is typed or piped in is what the port gets, whole and in order.     *)
KeysMeanWhatWasTyped == KeysSent /\ PipeKeepsReading

(* A wait ends at the first match after the one before it that is still in  *)
(* the transcript: two waits for one pattern see two occurrences in order.  *)
LastHit == IF hits = <<>> THEN 0 ELSE Last(hits)
NextMatch ==
  [][hits' # hits =>
       Last(hits') = CHOOSE k \in {f.k : f \in {buf[i] : i \in DOMAIN buf}} :
                       /\ k > LastHit
                       /\ \E i \in DOMAIN buf : buf[i].k = k /\ buf[i].hit
                       /\ \A i \in DOMAIN buf : buf[i].hit /\ buf[i].k > LastHit => k <= buf[i].k]_vars

(* A session whose link is dead is left, by the heartbeat or the output     *)
(* pump of attach and by the waits of run: always when ssh has ended (no    *)
(* link is full after that), and when the link only stays silent, unless a  *)
(* write fills the pipe to ssh.                                            *)
(* That write keeps the Writer's lock, so that the heartbeat waits as well, *)
(* and nothing of sercon's own ends the session until ssh gives up.         *)
Working == {"live", "close", "drain", "step", "send", "wait", "missed", "leave"}
Linked(states) == pc \in Working /\ link[n] \in states
DeadLinkIsLeft ==
  Linked({"silent", "cut"}) ~> (pc \in {"dial", "backoff", "exit"} \/ Linked({"full"}))

(* Before anything is dialled: the command line and the remote command mean *)
(* at the other end what they meant here.                                   *)
(* So do the steps of a script, which is refused as a whole or has one step *)
(* for each of its lines, and the frames of a session, however it ends.     *)
MeaningKept ==
  pc = "main" => /\ ArgumentsKeepMeaning /\ CommandReadsBack
                 /\ EscapesDecode /\ ScriptIsItsLines /\ FramesReadBack
=============================================================================
