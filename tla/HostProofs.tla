----------------------------- MODULE HostProofs -----------------------------
(***************************************************************************)
(* Proofs about the two sides of the daemon that meet its host, which      *)
(* share nothing: the devices (Serial) and the socket file (Endpoint).     *)
(*                                                                         *)
(* Serial: what both drivers own while calls, the line, the operating      *)
(* system and a Close run in any order, and where each byte is, for any    *)
(* number of bytes, calls and false counts and buffers of any size.        *)
(*                                                                         *)
(* Endpoint, for every set of daemons and sessions: a stale socket is      *)
(* taken over safely as long as launches overlap neither with each other   *)
(* nor with the end of an older daemon.                                    *)
(***************************************************************************)
EXTENDS Serial, Endpoint, TLAPS

-----------------------------------------------------------------------------
(* The inductive invariant. *)

(* The bytes a drain holds and has not returned. *)
InHand == IF rd \in {"filing", "overdue"} /\ ov["read"].st = "ok" THEN ov["read"].n ELSE 0

(* Who is inside a call holds the lock, and the last thing Close does is to take
   it and close the handle. *)
Locked ==
  /\ ioMu = (IF rd # "idle" THEN "reader" ELSE IF wr # "idle" THEN "writer" ELSE "free")
  /\ rd = "idle" \/ wr = "idle"
  /\ closed <=> cl # "idle"
  /\ handle <=> cl # "done"
  /\ cl = "done" => rd = "idle" /\ wr = "idle"

(* An operation is on the structure of its kind, and with a driver that cancels
   at once no call leaves one behind. *)
Placed ==
  /\ \A o \in ops : o.on = "write" <=> o.kind = "out"
  /\ ~lazy => \A o \in ops : IF o.on = "read" THEN rd \in {"parked", "spent", "filing", "overdue"}
                                              ELSE wr = "parked"

(* On an orderly structure there is at most one operation, it has not signalled,
   and it is the one the call that waits there issued. A Read that ended for good
   may leave its wait for an event. *)
Single ==
  \A s \in Structs : Orderly(s) =>
    /\ \A a, b \in On(s) : a = b
    /\ On(s) # {} => ov[s].st = "pending" /\ ~sig[s]

Matched ==
  /\ Orderly("read") => \A o \in On("read") :
       \/ o.kind = "event" /\ rd \in {"parked", "spent", "late"}
       \/ o.kind = "event" /\ rd = "idle" /\ ret \in {"closed", "error"}
       \/ o.kind = "file" /\ rd \in {"filing", "overdue"}
  /\ Orderly("write") => On("write") = {} \/ wr = "parked"
  /\ Orderly("read") /\ rd = "parked" /\ ~sig["read"] => On("read") # {}

(* The queue is empty from the look at it to the end of the wait, unless the
   latch says otherwise; and where the bytes are. *)
Counted ==
  /\ Orderly("read") /\ rd = "arm" /\ ~latch => rx = 0
  /\ Orderly("read") /\ rd = "parked" /\ ~sig["read"] => rx = 0
  /\ rx + got + lied + InHand <= arrived
  /\ ~cut => arrived = rx + got + lied + InHand

WinInv == WinTypeOK /\ Locked /\ Placed /\ Single /\ Matched /\ Counted

(* Linux: the numbers, as far as Close has come, and what they refer to. *)
Numbered ==
  /\ fd = (IF cls.pc \in {"idle", "half"} THEN 3 ELSE -1)
  /\ epfd = (IF cls.pc = "idle" THEN 4 ELSE -1)
  /\ cls.pc # "idle" => cls.epfd = 4
  /\ cls.pc \in {"swapped", "closing", "done"} => cls.fd = 3
  /\ cls.pc # "done" => files[3] = "tty"
  /\ wrt.fd \in {-1, 3}
  /\ stolen \/ astray => cls.pc = "done"

(* A Read that began after Close did never gets past its two loads. *)
Loaded ==
  /\ rdr.fd = (IF rdr.pc \in {"idle", "half"} THEN -1 ELSE 3)
  /\ rdr.pc # "idle" => rdr.ret \notin {"closed", "gone", "error"}
  /\ during => cls.pc # "idle"
  /\ cls.pc # "idle" /\ ~during => rdr.pc = "idle" \/ (rdr.pc = "half" /\ rdr.epfd = -1)

Drained ==
  /\ came = queue + read
  /\ rdr.pc = "hup" \/ rdr.ret = "gone" => hup
  /\ rdr.ret = "gone" /\ ~during => queue = 0

LinuxInv == LinuxTypeOK /\ Numbered /\ Loaded /\ Drained

SerialInv == WinInv /\ LinuxInv
-----------------------------------------------------------------------------
(* The three things that happen to an operation: their types, and that they keep
   the structures single. *)

LEMMA IssueTypes ==
  ASSUME WinTypeOK, NEW s \in Structs, NEW kind \in {"event", "file", "out"},
         NEW id \in Nat, NEW n \in 0 .. Buf, Issue(s, kind, id, n)
  PROVE  ops' \subseteq Op /\ ov' \in [Structs -> Done] /\ sig' \in [Structs -> BOOLEAN]
<1>1. [st |-> "pending", n |-> 0] \in Done
  BY WinPortAssumption DEF Done
<1>2. [on |-> s, kind |-> kind, id |-> id, n |-> n, cut |-> FALSE] \in Op
  BY DEF Op
<1> QED BY <1>1, <1>2 DEF WinTypeOK, Issue

LEMMA IssueSingle ==
  ASSUME Single, WinTypeOK, lazy' = lazy, cut' = cut, quit' = quit,
         NEW s \in Structs, NEW kind, NEW id, NEW n, Issue(s, kind, id, n),
         Orderly(s) => On(s) = {}
  PROVE  Single'
<1>1. SUFFICES ASSUME NEW t \in Structs, Orderly(t)
               PROVE  /\ \A a, b \in On(t)' : a = b
                      /\ On(t)' # {} => ov'[t].st = "pending" /\ ~sig'[t]
  BY <1>1 DEF Single, Orderly
<1>2. CASE t = s
  BY <1>1, <1>2 DEF WinTypeOK, Issue, On
<1>3. CASE t # s
  <2>1. On(t)' = On(t) /\ ov'[t] = ov[t] /\ sig'[t] = sig[t]
    BY <1>3 DEF WinTypeOK, Issue, On
  <2> QED BY <1>1, <2>1 DEF Single
<1> QED BY <1>2, <1>3

LEMMA FinishTypes ==
  ASSUME WinTypeOK, NEW o \in ops, NEW st \in {"ok", "aborted"}, NEW n \in 0 .. Buf,
         Finish(o, st, n)
  PROVE  ops' \subseteq Op /\ ov' \in [Structs -> Done] /\ sig' \in [Structs -> BOOLEAN]
<1>1. [st |-> st, n |-> n] \in Done
  BY DEF Done
<1> QED BY <1>1 DEF WinTypeOK, Finish

LEMMA CancelTypes ==
  ASSUME WinTypeOK, NEW s \in Structs, CancelIoEx(s)
  PROVE  ops' \subseteq Op /\ ov' \in [Structs -> Done] /\ sig' \in [Structs -> BOOLEAN]
<1>1. [st |-> "aborted", n |-> 0] \in Done
  BY WinPortAssumption DEF Done
<1>2. \A o \in On(s) : [o EXCEPT !.cut = TRUE] \in Op
  BY DEF WinTypeOK, On, Op
<1> QED BY <1>1, <1>2 DEF WinTypeOK, CancelIoEx, driver, On

LEMMA CancelSingle ==
  ASSUME Single, WinTypeOK, lazy' = lazy, NEW s \in Structs, CancelIoEx(s),
         \A t \in Structs : Orderly(t)' => Orderly(t)
  PROVE  Single'
<1>1. SUFFICES ASSUME NEW t \in Structs, Orderly(t)
               PROVE  /\ \A a, b \in On(t)' : a = b
                      /\ On(t)' # {} => ov'[t].st = "pending" /\ ~sig'[t]
  BY <1>1 DEF Single
<1>2. CASE t # s
  <2>1. On(t)' = On(t)
    BY <1>2 DEF WinTypeOK, Op, CancelIoEx, driver, On
  <2>2. ov'[t] = ov[t] /\ sig'[t] = sig[t]
    BY <1>2 DEF WinTypeOK, CancelIoEx, driver
  <2> QED BY <1>1, <2>1, <2>2 DEF Single
<1>3. CASE t = s
  <2>1. CASE On(s) = {} /\ UNCHANGED driver
    BY <1>3, <2>1 DEF driver, On
  <2>2. CASE ops' = ops \ On(s)
    BY <1>3, <2>2 DEF On
  <2>3. CASE /\ On(s) # {}
             /\ ops' = (ops \ On(s)) \cup {[o EXCEPT !.cut = TRUE] : o \in On(s)}
             /\ UNCHANGED <<ov, sig>>
    <3>1. On(s)' = {[o EXCEPT !.cut = TRUE] : o \in On(s)}
      BY <2>3 DEF WinTypeOK, Op, On
    <3>2. \A a, b \in On(s) : a = b
      BY <1>1, <1>3 DEF Single
    <3>3. ov'[s].st = "pending" /\ ~sig'[s]
      BY <1>1, <1>3, <2>3 DEF Single
    <3>4. \A a, b \in On(s)' : a = b
      BY <3>1, <3>2
    <3> QED BY <1>3, <3>3, <3>4
  <2> QED BY <2>1, <2>2, <2>3 DEF CancelIoEx
<1> QED BY <1>2, <1>3

(* What a cancelled structure has left: nothing from a driver that cancels at
   once, and from a lazy one an operation unless the event is set. *)
LEMMA CancelLeaves ==
  ASSUME WinTypeOK, NEW s \in Structs, CancelIoEx(s)
  PROVE  /\ ~lazy => On(s)' = {}
         /\ \A o \in On(s)' : \E p \in On(s) : p.kind = o.kind
         /\ On(s) # {} => On(s)' # {} \/ sig'[s]
         /\ On(s) = {} => UNCHANGED driver
         /\ \A t \in Structs \ {s} : On(t)' = On(t) /\ ov'[t] = ov[t] /\ sig'[t] = sig[t]
         /\ ov'[s] = ov[s] \/ ov'[s] = [st |-> "aborted", n |-> 0]
         /\ sig[s] => sig'[s]
<1>1. CASE On(s) = {} /\ UNCHANGED driver
  BY <1>1 DEF driver, On
<1>2. CASE /\ On(s) # {}
           /\ ops' = ops \ On(s)
           /\ ov'  = [ov EXCEPT ![s] = [st |-> "aborted", n |-> 0]]
           /\ sig' = [sig EXCEPT ![s] = TRUE]
  BY <1>2 DEF WinTypeOK, On
<1>3. CASE /\ lazy /\ On(s) # {}
           /\ ops' = (ops \ On(s)) \cup {[o EXCEPT !.cut = TRUE] : o \in On(s)}
           /\ UNCHANGED <<ov, sig>>
  <2>1. On(s)' = {[o EXCEPT !.cut = TRUE] : o \in On(s)}
    BY <1>3 DEF WinTypeOK, Op, On
  <2>2. \A t \in Structs \ {s} : On(t)' = On(t)
    BY <1>3 DEF WinTypeOK, Op, On
  <2>3. \A o \in On(s)' : \E p \in On(s) : p.kind = o.kind
    BY <2>1 DEF WinTypeOK, Op, On
  <2> QED BY <1>3, <2>1, <2>2, <2>3
<1> QED BY <1>1, <1>2, <1>3 DEF CancelIoEx
-----------------------------------------------------------------------------
(* The driver keeps the invariant. *)

LEMMA WithholdsKeeps == ASSUME WinInv, Withholds PROVE WinInv'
<1> USE DEF WinInv, Withholds, reader, writer, driver
<1>1. WinTypeOK'
  BY WinPortAssumption DEF WinTypeOK
<1>2. Locked'
  BY DEF Locked
<1>3. Placed'
  BY DEF Placed
<1>4. Single'
  BY DEF Single, On, Orderly
<1>5. Matched'
  BY DEF Matched, On, Orderly
<1>6. Counted'
  BY DEF WinTypeOK, Counted, InHand, Orderly, Structs, Done
<1> QED BY <1>1, <1>2, <1>3, <1>4, <1>5, <1>6

LEMMA LineChangesKeeps == ASSUME WinInv, LineChanges PROVE WinInv'
<1> USE DEF WinInv, LineChanges, reader, writer, driver
<1>1. WinTypeOK'
  <2>1. stuck' \in BOOLEAN /\ gone' \in BOOLEAN
    BY Zenon DEF WinTypeOK
  <2> QED BY <2>1 DEF WinTypeOK
<1>2. Locked'
  BY DEF Locked
<1>3. Placed'
  BY DEF Placed
<1>4. Single'
  BY DEF Single, On, Orderly
<1>5. Matched'
  BY DEF Matched, On, Orderly
<1>6. Counted'
  BY DEF Counted, InHand, Orderly
<1> QED BY <1>1, <1>2, <1>3, <1>4, <1>5, <1>6

LEMMA AbortsKeeps == ASSUME WinInv, NEW o \in ops, Aborts(o) PROVE WinInv'
<1> USE DEF WinInv, Aborts, line, reader, writer
<1>1. WinTypeOK'
  <2>1. 0 \in 0 .. Buf
    BY WinPortAssumption
  <2> QED BY <2>1, FinishTypes DEF WinTypeOK
<1>2. Locked'
  BY DEF Locked
<1>3. Placed'
  BY DEF Placed, Finish
<1>4. Single'
  BY DEF WinTypeOK, Op, Single, On, Orderly, Finish
<1>5. Matched'
  BY DEF WinTypeOK, Op, Structs, Matched, Single, On, Orderly, Finish
<1>6. Counted'
  BY DEF WinTypeOK, Op, Done, Structs, Single, Placed, Counted, InHand, On, Orderly, Finish
<1> QED BY <1>1, <1>2, <1>3, <1>4, <1>5, <1>6

(* The last byte a read of the queue takes was on its way to that read. *)
LEMMA CompletesKeeps == ASSUME WinInv, NEW o \in ops, Completes(o) PROVE WinInv'
<1> USE DEF WinInv, Completes, reader, writer
<1>1. WinTypeOK'
  <2>1. o.n \in 0 .. Buf
    BY DEF WinTypeOK, Op
  <2>2. rx' \in 0 .. MaxBytes
    BY <2>1, WinPortAssumption DEF WinTypeOK
  <2>3. Finish(o, "ok", o.n)
    OBVIOUS
  <2> HIDE DEF Completes
  <2>4. ops' \subseteq Op /\ ov' \in [Structs -> Done] /\ sig' \in [Structs -> BOOLEAN]
    BY <2>1, <2>3, FinishTypes
  <2> QED BY <2>2, <2>4 DEF WinTypeOK, Completes
<1>2. Locked'
  BY DEF Locked
<1>3. Placed'
  BY DEF Placed, Finish
<1>4. Single'
  BY DEF WinTypeOK, Op, Single, On, Orderly, Finish
<1>5. Matched'
  BY DEF WinTypeOK, Op, Structs, Matched, Single, On, Orderly, Finish
<1>6. Counted'
  BY DEF WinTypeOK, Op, Done, Structs, Single, Matched, Placed, Counted, InHand, On, Orderly,
         Finish
<1> QED BY <1>1, <1>2, <1>3, <1>4, <1>5, <1>6

LEMMA ArrivesKeeps == ASSUME WinInv, Arrives PROVE WinInv'
<1> USE DEF WinInv, Arrives, reader, writer, driver
<1>1. WinTypeOK'
  <2>1. arrived' \in 0 .. MaxBytes /\ rx' \in 0 .. MaxBytes
    BY WinPortAssumption DEF WinTypeOK, Counted, InHand, Structs, Done
  <2>2. latch' \in BOOLEAN
    BY DEF WinTypeOK
  <2>3. ops' \subseteq Op /\ ov' \in [Structs -> Done] /\ sig' \in [Structs -> BOOLEAN]
    <3>1. CASE UNCHANGED driver
      BY <3>1 DEF WinTypeOK
    <3>2. ASSUME NEW o \in ops, Finish(o, "ok", 0)
          PROVE  ops' \subseteq Op /\ ov' \in [Structs -> Done] /\ sig' \in [Structs -> BOOLEAN]
      BY <3>2, FinishTypes, WinPortAssumption
    <3> QED BY <3>1, <3>2
  <2> QED BY <2>1, <2>2, <2>3 DEF WinTypeOK
<1>2. Locked'
  BY DEF Locked
<1>3. Placed'
  BY DEF Placed, Finish
<1>4. Single'
  BY DEF WinTypeOK, Op, Single, On, Orderly, Finish
<1>5. Matched'
  BY DEF WinTypeOK, Op, Structs, Matched, Single, On, Orderly, Finish
<1>6. Counted'
  BY DEF WinTypeOK, Op, Done, Structs, Single, Matched, Placed, Counted, InHand, On, Orderly,
         Finish
<1> QED BY <1>1, <1>2, <1>3, <1>4, <1>5, <1>6
-----------------------------------------------------------------------------
(* Read keeps it. *)

LEMMA ReadCallKeeps == ASSUME WinInv, ReadCall PROVE WinInv'
<1> USE DEF WinInv, ReadCall, Return, Begins, Quiet, line, writer, driver
<1>1. WinTypeOK'
  BY DEF WinTypeOK
<1>2. Locked'
  BY DEF WinTypeOK, Locked
<1>3. Placed'
  BY DEF Placed
<1>4. Single'
  BY DEF WinTypeOK, Single, On, Orderly, Structs
<1>5. Matched'
  BY DEF WinTypeOK, Op, Structs, Matched, Single, On, Orderly
<1>6. Counted'
  BY DEF WinTypeOK, Structs, Done, Counted, Matched, Single, InHand, On, Orderly
<1> QED BY <1>1, <1>2, <1>3, <1>4, <1>5, <1>6

LEMMA DrainLooksKeeps == ASSUME WinInv, DrainLooks PROVE WinInv'
<1> USE DEF WinInv, DrainLooks, Return, Goto, Ask, Quiet, line, writer, driver
<1>1. WinTypeOK'
  BY WinPortAssumption DEF WinTypeOK
<1>2. Locked'
  BY DEF WinTypeOK, Locked
<1>3. Placed'
  BY DEF Placed
<1>4. Single'
  BY DEF WinTypeOK, Single, On, Orderly, Structs
<1>5. Matched'
  BY DEF WinTypeOK, Op, Structs, Matched, Single, On, Orderly
<1>6. Counted'
  BY DEF WinTypeOK, Structs, Done, Counted, Matched, Single, InHand, On, Orderly
<1> QED BY <1>1, <1>2, <1>3, <1>4, <1>5, <1>6

LEMMA DrainReadsKeeps == ASSUME WinInv, DrainReads PROVE WinInv'
<1> USE DEF WinInv, DrainReads, Return, Goto, writer
<1>1. WinTypeOK'
  <2>1. CASE want <= rx
    <3>1. [st |-> "ok", n |-> want] \in Done
      BY DEF WinTypeOK, Done
    <3>2. rx' \in 0 .. MaxBytes /\ got' \in 0 .. MaxBytes
      BY <2>1, WinPortAssumption DEF WinTypeOK, Counted, InHand, Structs, Done
    <3>3. ov' \in [Structs -> Done] /\ sig' \in [Structs -> BOOLEAN]
      <4>1. /\ ov'  = [ov EXCEPT !["read"] = [st |-> "ok", n |-> want]]
            /\ sig' = [sig EXCEPT !["read"] = TRUE]
        BY <2>1, WinPortAssumption DEF WinTypeOK
      <4> HIDE DEF DrainReads
      <4> QED BY <3>1, <4>1 DEF WinTypeOK, Structs
    <3> QED BY <2>1, <3>2, <3>3 DEF WinTypeOK
  <2>2. CASE want > rx
    <3>1. Issue("read", "file", lied, want) /\ "read" \in Structs
      BY <2>2 DEF WinTypeOK, Structs
    <3>2. lied \in Nat /\ want \in 0 .. Buf
      BY WinPortAssumption DEF WinTypeOK
    <3>3. ops' \subseteq Op /\ ov' \in [Structs -> Done] /\ sig' \in [Structs -> BOOLEAN]
      BY <3>1, <3>2, IssueTypes
    <3> QED BY <2>2, <3>3 DEF WinTypeOK
  <2> QED BY <2>1, <2>2 DEF WinTypeOK
<1>2. Locked'
  BY DEF WinTypeOK, Locked
<1>3. Placed'
  BY DEF Placed, Issue, Structs
<1>4. Single'
  <2>1. Orderly("read") => On("read") = {}
    BY DEF Matched
  <2>2. CASE want <= rx
    BY <2>1, <2>2 DEF WinTypeOK, Single, On, Orderly, Structs
  <2>3. CASE want > rx
    <3>1. Issue("read", "file", lied, want) /\ "read" \in Structs
      BY <2>3 DEF WinTypeOK, Structs
    <3> QED BY <2>1, <3>1, IssueSingle
  <2> QED BY <2>2, <2>3 DEF WinTypeOK
<1>5. Matched'
  BY DEF WinTypeOK, Op, Structs, Placed, Matched, Single, On, Orderly, Issue
<1>6. Counted'
  BY DEF WinTypeOK, Structs, Done, Counted, InHand, Orderly, Issue
<1> QED BY <1>1, <1>2, <1>3, <1>4, <1>5, <1>6

LEMMA DrainWakesKeeps == ASSUME WinInv, DrainWakes PROVE WinInv'
<1> USE DEF WinInv, DrainWakes, Return, OrClosed, Quiet, line, writer
<1>1. WinTypeOK'
  BY WinPortAssumption DEF WinTypeOK, Counted, InHand, Structs, Done
<1>2. Locked'
  BY DEF WinTypeOK, Locked
<1>3. Placed'
  BY DEF WinTypeOK, Op, Structs, Placed, Single, On, Orderly
<1>4. Single'
  BY DEF WinTypeOK, Single, On, Orderly, Structs
<1>5. Matched'
  BY DEF WinTypeOK, Op, Structs, Matched, Single, On, Orderly
<1>6. Counted'
  BY DEF WinTypeOK, Structs, Done, Counted, Matched, Single, InHand, On, Orderly
<1> QED BY <1>1, <1>2, <1>3, <1>4, <1>5, <1>6

LEMMA DrainTimesOutKeeps == ASSUME WinInv, DrainTimesOut PROVE WinInv'
<1> USE DEF WinInv, DrainTimesOut, Goto, Quiet, line, writer, driver
<1>1. WinTypeOK'
  BY DEF WinTypeOK
<1>2. Locked'
  BY DEF WinTypeOK, Locked
<1>3. Placed'
  BY DEF Placed
<1>4. Single'
  BY DEF WinTypeOK, Single, On, Orderly, Structs
<1>5. Matched'
  BY DEF WinTypeOK, Op, Structs, Matched, Single, On, Orderly
<1>6. Counted'
  BY DEF WinTypeOK, Structs, Done, Counted, Matched, Single, InHand, On, Orderly
<1> QED BY <1>1, <1>2, <1>3, <1>4, <1>5, <1>6

LEMMA DrainGivesUpKeeps == ASSUME WinInv, DrainGivesUp PROVE WinInv'
<1> USE DEF WinInv, DrainGivesUp, Return, OrClosed, Quiet, line, writer
<1>0. /\ ~lazy => On("read")' = {}
      /\ \A o \in On("read")' : \E p \in On("read") : p.kind = o.kind
      /\ \A t \in Structs \ {"read"} : On(t)' = On(t) /\ ov'[t] = ov[t] /\ sig'[t] = sig[t]
  BY CancelLeaves DEF Structs
<1>1. WinTypeOK'
  <2>1. ops' \subseteq Op /\ ov' \in [Structs -> Done] /\ sig' \in [Structs -> BOOLEAN]
    BY CancelTypes DEF Structs
  <2> QED BY <2>1 DEF WinTypeOK
<1>2. Locked'
  BY DEF WinTypeOK, Locked
<1>3. Placed'
  BY <1>0 DEF WinTypeOK, Op, Structs, Placed, On, CancelIoEx, driver
<1>4. Single'
  BY CancelSingle DEF Structs, Orderly
<1>5. Matched'
  <2>1. Orderly("read")' => On("read")' = {}
    BY <1>0 DEF WinTypeOK, Orderly
  <2>2. Orderly("write")' => On("write")' = {} \/ wr = "parked"
    BY <1>0 DEF Matched, Orderly, Structs
  <2> QED BY <2>1, <2>2 DEF Matched
<1>6. Counted'
  BY DEF WinTypeOK, Structs, Done, Counted, InHand, Orderly
<1> QED BY <1>1, <1>2, <1>3, <1>4, <1>5, <1>6

LEMMA ArmKeeps == ASSUME WinInv, Arm PROVE WinInv'
<1> USE DEF WinInv, Arm, Return, Goto, writer
<1>1. WinTypeOK'
  <2>1. CASE latch
    <3>1. [st |-> "ok", n |-> 0] \in Done
      BY WinPortAssumption DEF Done
    <3>2. ov' \in [Structs -> Done] /\ sig' \in [Structs -> BOOLEAN]
      BY <2>1, <3>1 DEF WinTypeOK, Structs
    <3>3. got' = got /\ want' = want /\ ioMu' \in {"free", ioMu}
      BY <2>1 DEF WinTypeOK
    <3>4. ret' \in {"closed", ret} /\ rd' \in {"idle", "last"} /\ ops' = ops
      BY <2>1
    <3>6. latch' \in BOOLEAN
      BY <2>1
    <3>5. closed' = closed /\ handle' = handle /\ wr' = wr /\ calls' = calls /\ cl' = cl
          /\ rx' = rx /\ arrived' = arrived /\ lied' = lied /\ cut' = cut /\ quit' = quit
          /\ stuck' = stuck /\ gone' = gone /\ lazy' = lazy
      OBVIOUS
    <3> HIDE DEF Arm
    <3> QED BY <3>2, <3>3, <3>4, <3>5, <3>6 DEF WinTypeOK
  <2>2. CASE ~latch /\ UNCHANGED driver /\ Return("error", 0)
    BY <2>2 DEF WinTypeOK, driver
  <2>3. CASE ~latch /\ Issue("read", "event", 0, 0) /\ Goto("parked") /\ UNCHANGED latch
    <3>1. ops' \subseteq Op /\ ov' \in [Structs -> Done] /\ sig' \in [Structs -> BOOLEAN]
      BY <2>3, IssueTypes, WinPortAssumption DEF Structs
    <3> QED BY <2>3, <3>1 DEF WinTypeOK
  <2> QED BY <2>1, <2>2, <2>3
<1>2. Locked'
  BY DEF WinTypeOK, Locked
<1>3. Placed'
  BY DEF Placed, Issue, Structs, driver
<1>4. Single'
  <2>1. Orderly("read") => On("read") = {}
    BY DEF Matched
  <2>2. CASE latch
    BY <2>1, <2>2 DEF WinTypeOK, Single, On, Orderly, Structs
  <2>3. CASE ~latch /\ UNCHANGED driver
    BY <2>3 DEF driver, Single, On, Orderly
  <2>4. CASE Issue("read", "event", 0, 0)
    BY <2>1, <2>4, IssueSingle DEF Structs
  <2> QED BY <2>2, <2>3, <2>4
<1>5. Matched'
  <2>1. CASE latch
    BY <2>1 DEF Matched, On, Orderly
  <2>2. CASE ~latch /\ UNCHANGED driver /\ Return("error", 0)
    BY <2>2 DEF driver, Matched, On, Orderly
  <2>3. CASE ~latch /\ Issue("read", "event", 0, 0) /\ Goto("parked")
    <3>1. (Orderly("read")' => Orderly("read")) /\ (Orderly("write")' => Orderly("write")) /\ wr' = wr
      BY DEF Orderly
    <3>2. On("write")' = On("write")
      BY <2>3 DEF On, Issue
    <3>3. [on |-> "read", kind |-> "event", id |-> 0, n |-> 0, cut |-> FALSE] \in On("read")'
      BY <2>3 DEF On, Issue
    <3>4. Orderly("read") => \A o \in On("read")' : o.kind = "event"
      BY <2>3 DEF Matched, On, Issue
    <3>5. rd' = "parked"
      BY <2>3
    <3> HIDE DEF Arm
    <3> QED BY <3>1, <3>2, <3>3, <3>4, <3>5 DEF Matched
  <2>4. \/ latch
        \/ ~latch /\ UNCHANGED driver /\ Return("error", 0)
        \/ ~latch /\ Issue("read", "event", 0, 0) /\ Goto("parked")
    BY Zenon
  <2> HIDE DEF Arm, Return, Goto
  <2> QED BY <2>1, <2>2, <2>3, <2>4
<1>6. Counted'
  BY DEF WinTypeOK, Structs, Done, Counted, InHand, Orderly, Issue, driver
<1> QED BY <1>1, <1>2, <1>3, <1>4, <1>5, <1>6

LEMMA ReadWakesKeeps == ASSUME WinInv, ReadWakes PROVE WinInv'
<1> USE DEF WinInv, ReadWakes, Return, Goto, Quiet, line, writer
<1>1. WinTypeOK'
  <2>1. sig' \in [Structs -> BOOLEAN]
    BY DEF WinTypeOK
  <2>2. got' = got
    BY DEF WinTypeOK
  <2> QED BY <2>1, <2>2 DEF WinTypeOK
<1>2. Locked'
  BY DEF WinTypeOK, Locked
<1>3. Placed'
  BY DEF WinTypeOK, Op, Structs, Placed, Single, On, Orderly
<1>4. Single'
  BY DEF WinTypeOK, Single, On, Orderly, Structs
<1>5. Matched'
  BY DEF WinTypeOK, Op, Structs, Matched, Single, On, Orderly
<1>6. Counted'
  BY DEF WinTypeOK, Structs, Done, Counted, Matched, Single, InHand, On, Orderly
<1> QED BY <1>1, <1>2, <1>3, <1>4, <1>5, <1>6

LEMMA ReadTimesOutKeeps == ASSUME WinInv, ReadTimesOut PROVE WinInv'
<1> USE DEF WinInv, ReadTimesOut, Goto, Quiet, line, writer, driver
<1>1. WinTypeOK'
  BY DEF WinTypeOK
<1>2. Locked'
  BY DEF WinTypeOK, Locked
<1>3. Placed'
  BY DEF Placed
<1>4. Single'
  BY DEF WinTypeOK, Single, On, Orderly, Structs
<1>5. Matched'
  BY DEF WinTypeOK, Op, Structs, Matched, Single, On, Orderly
<1>6. Counted'
  BY DEF WinTypeOK, Structs, Done, Counted, Matched, Single, InHand, On, Orderly
<1> QED BY <1>1, <1>2, <1>3, <1>4, <1>5, <1>6

LEMMA ReadCancelsKeeps == ASSUME WinInv, ReadCancels PROVE WinInv'
<1> USE DEF WinInv, ReadCancels, Goto, Quiet, line, writer
<1>0. /\ ~lazy => On("read")' = {}
      /\ \A o \in On("read")' : \E p \in On("read") : p.kind = o.kind
      /\ \A t \in Structs \ {"read"} : On(t)' = On(t) /\ ov'[t] = ov[t] /\ sig'[t] = sig[t]
  BY CancelLeaves DEF Structs
<1>1. WinTypeOK'
  <2>1. ops' \subseteq Op /\ ov' \in [Structs -> Done] /\ sig' \in [Structs -> BOOLEAN]
    BY CancelTypes DEF Structs
  <2> QED BY <2>1 DEF WinTypeOK
<1>2. Locked'
  BY DEF WinTypeOK, Locked
<1>3. Placed'
  BY <1>0 DEF WinTypeOK, Op, Structs, Placed, On, CancelIoEx, driver
<1>4. Single'
  BY CancelSingle DEF Structs, Orderly
<1>5. Matched'
  <2>1. Orderly("read")' => \A o \in On("read")' : o.kind = "event"
    BY <1>0 DEF Matched, Orderly
  <2>2. Orderly("write")' => On("write")' = {} \/ wr = "parked"
    BY <1>0 DEF Matched, Orderly, Structs
  <2> QED BY <2>1, <2>2 DEF Matched
<1>6. Counted'
  BY DEF WinTypeOK, Structs, Done, Counted, InHand, Orderly
<1> QED BY <1>1, <1>2, <1>3, <1>4, <1>5, <1>6

LEMMA ReadSettlesKeeps == ASSUME WinInv, ReadSettles PROVE WinInv'
<1> USE DEF WinInv, ReadSettles, Return, Goto, Quiet, line, writer, driver
<1>1. WinTypeOK'
  BY DEF WinTypeOK
<1>2. Locked'
  BY DEF WinTypeOK, Locked
<1>3. Placed'
  BY DEF Placed
<1>4. Single'
  BY DEF WinTypeOK, Single, On, Orderly, Structs
<1>5. Matched'
  BY DEF WinTypeOK, Op, Structs, Matched, Single, On, Orderly
<1>6. Counted'
  BY DEF WinTypeOK, Structs, Done, Counted, Matched, Single, InHand, On, Orderly
<1> QED BY <1>1, <1>2, <1>3, <1>4, <1>5, <1>6
-----------------------------------------------------------------------------
(* Write, SendBreak and Close keep it. *)

LEMMA WriteIssuesKeeps == ASSUME WinInv, WriteIssues PROVE WinInv'
<1> USE DEF WinInv, WriteIssues, Leave, Unread, line, reader
<1>1. WinTypeOK'
  <2>1. CASE gone
    BY <2>1 DEF WinTypeOK, driver
  <2>2. CASE ~gone
    <3>1. Issue("write", "out", calls, 0) /\ calls \in Nat
      BY <2>2, WinPortAssumption DEF WinTypeOK
    <3>2. ops' \subseteq Op /\ ov' \in [Structs -> Done] /\ sig' \in [Structs -> BOOLEAN]
      BY <3>1, IssueTypes, WinPortAssumption DEF Structs
    <3> QED BY <2>2, <3>2 DEF WinTypeOK
  <2> QED BY <2>1, <2>2
<1>2. Locked'
  BY DEF WinTypeOK, Locked
<1>3. Placed'
  BY DEF Placed, Issue, Structs, driver
<1>4. Single'
  <2>1. CASE gone
    BY <2>1 DEF driver, Single, On, Orderly
  <2>2. CASE ~gone
    <3>1. Orderly("write") => On("write") = {}
      BY DEF Matched
    <3>2. Issue("write", "out", calls, 0)
      BY <2>2
    <3> QED BY <3>1, <3>2, IssueSingle DEF Structs
  <2> QED BY <2>1, <2>2
<1>5. Matched'
  BY DEF WinTypeOK, Op, Structs, Matched, On, Orderly, Issue, driver
<1>6. Counted'
  BY DEF WinTypeOK, Structs, Done, Counted, InHand, Orderly, Issue, driver
<1> QED BY <1>1, <1>2, <1>3, <1>4, <1>5, <1>6

LEMMA WriteWakesKeeps == ASSUME WinInv, WriteWakes PROVE WinInv'
<1> USE DEF WinInv, WriteWakes, Leave, Unread, line, reader
<1>1. WinTypeOK'
  <2>1. sig' \in [Structs -> BOOLEAN]
    BY DEF WinTypeOK
  <2> QED BY <2>1 DEF WinTypeOK
<1>2. Locked'
  BY DEF WinTypeOK, Locked
<1>3. Placed'
  BY DEF WinTypeOK, Op, Structs, Placed, Single, On, Orderly
<1>4. Single'
  BY DEF WinTypeOK, Single, On, Orderly, Structs
<1>5. Matched'
  BY DEF WinTypeOK, Op, Structs, Matched, Single, On, Orderly
<1>6. Counted'
  BY DEF WinTypeOK, Structs, Counted, InHand, Orderly
<1> QED BY <1>1, <1>2, <1>3, <1>4, <1>5, <1>6

LEMMA WriteGivesUpKeeps == ASSUME WinInv, WriteGivesUp PROVE WinInv'
<1> USE DEF WinInv, WriteGivesUp, Leave, Unread, line, reader
<1>0. /\ ~lazy => On("write")' = {}
      /\ \A o \in On("write")' : \E p \in On("write") : p.kind = o.kind
      /\ \A t \in Structs \ {"write"} : On(t)' = On(t) /\ ov'[t] = ov[t] /\ sig'[t] = sig[t]
  BY CancelLeaves DEF Structs
<1>1. WinTypeOK'
  <2>1. ops' \subseteq Op /\ ov' \in [Structs -> Done] /\ sig' \in [Structs -> BOOLEAN]
    BY CancelTypes DEF Structs
  <2> QED BY <2>1 DEF WinTypeOK
<1>2. Locked'
  BY DEF WinTypeOK, Locked
<1>3. Placed'
  BY <1>0 DEF WinTypeOK, Op, Structs, Placed, On, CancelIoEx, driver
<1>4. Single'
  BY CancelSingle DEF Structs, Orderly
<1>5. Matched'
  <2>1. Orderly("write")' => On("write")' = {}
    BY <1>0 DEF WinTypeOK, Orderly
  <2>2. On("read")' = On("read") /\ sig'["read"] = sig["read"]
    BY <1>0 DEF Structs
  <2> QED BY <2>1, <2>2 DEF Matched, Orderly
<1>6. Counted'
  BY <1>0 DEF WinTypeOK, Structs, Counted, InHand, Orderly
<1> QED BY <1>1, <1>2, <1>3, <1>4, <1>5, <1>6

LEMMA BreakEndsKeeps == ASSUME WinInv, BreakEnds PROVE WinInv'
<1> USE DEF WinInv, BreakEnds, Leave, Unread, line, reader, driver
<1>1. WinTypeOK'
  BY DEF WinTypeOK
<1>2. Locked'
  BY DEF WinTypeOK, Locked
<1>3. Placed'
  BY DEF Placed
<1>4. Single'
  BY DEF Single, On, Orderly
<1>5. Matched'
  BY DEF WinTypeOK, Op, Structs, Matched, Single, On, Orderly
<1>6. Counted'
  BY DEF Counted, InHand, Orderly
<1> QED BY <1>1, <1>2, <1>3, <1>4, <1>5, <1>6

LEMMA WriteCallKeeps == ASSUME WinInv, NEW pc \in {"write", "break"}, WriteCall(pc) PROVE WinInv'
<1> USE DEF WinInv, WriteCall, Unread, line, reader, driver
<1>1. WinTypeOK'
  BY WinPortAssumption DEF WinTypeOK
<1>2. Locked'
  BY DEF Locked
<1>3. Placed'
  BY DEF Placed
<1>4. Single'
  BY DEF Single, On, Orderly
<1>5. Matched'
  BY DEF Matched, On, Orderly
<1>6. Counted'
  BY DEF Counted, InHand, Orderly
<1> QED BY <1>1, <1>2, <1>3, <1>4, <1>5, <1>6

LEMMA CloseMarksKeeps == ASSUME WinInv, CloseMarks PROVE WinInv'
<1> USE DEF WinInv, CloseMarks, line, reader, writer, driver
<1>1. WinTypeOK'
  BY DEF WinTypeOK
<1>2. Locked'
  BY DEF Locked
<1>3. Placed'
  BY DEF Placed
<1>4. Single'
  BY DEF Single, On, Orderly
<1>5. Matched'
  BY DEF Matched, On, Orderly
<1>6. Counted'
  BY DEF Counted, InHand, Orderly
<1> QED BY <1>1, <1>2, <1>3, <1>4, <1>5, <1>6

LEMMA CloseCancelsKeeps ==
  ASSUME WinInv, NEW s \in Structs, NEW from \in {"marked", "half"},
         NEW to \in {"half", "cancelled"}, CloseCancels(s, from, to)
  PROVE  WinInv'
<1> USE DEF WinInv, CloseCancels, line, reader, writer
<1>0. /\ ~lazy => On(s)' = {}
      /\ \A o \in On(s)' : \E p \in On(s) : p.kind = o.kind
      /\ On(s) # {} => On(s)' # {} \/ sig'[s]
      /\ On(s) = {} => UNCHANGED driver
      /\ \A t \in Structs \ {s} : On(t)' = On(t) /\ ov'[t] = ov[t] /\ sig'[t] = sig[t]
      /\ ov'[s] = ov[s] \/ ov'[s] = [st |-> "aborted", n |-> 0]
      /\ sig[s] => sig'[s]
  BY CancelLeaves
<1>1. WinTypeOK'
  <2>1. ops' \subseteq Op /\ ov' \in [Structs -> Done] /\ sig' \in [Structs -> BOOLEAN]
    BY CancelTypes
  <2> QED BY <2>1 DEF WinTypeOK
<1>2. Locked'
  BY DEF Locked
<1>3. Placed'
  BY <1>0 DEF WinTypeOK, Op, Structs, Placed, On, CancelIoEx, driver
<1>4. Single'
  BY CancelSingle DEF Orderly
<1>5. Matched'
  <2>1. CASE s = "read"
    BY <1>0, <2>1 DEF Matched, Orderly, Structs
  <2>2. CASE s = "write"
    <3>1. On("read")' = On("read") /\ sig'["read"] = sig["read"]
      BY <1>0, <2>2 DEF Structs
    <3>2. On("write") = {} => On("write")' = {}
      BY <1>0, <2>2
    <3> QED BY <3>1, <3>2 DEF Matched, Orderly
  <2> QED BY <2>1, <2>2 DEF Structs
<1>6. Counted'
  <2>1. CASE s = "read"
    <3>1. ~cut /\ On("read") # {} => InHand = 0
      BY DEF Single, Orderly, InHand, Structs
    <3>2. ~cut /\ On("read") = {} => ov' = ov
      BY <1>0, <2>1 DEF driver
    <3>3. InHand \in Nat /\ InHand' \in {InHand, 0}
      BY <1>0, <2>1 DEF WinTypeOK, InHand, Structs, Done
    <3>4. ~cut => InHand' = InHand
      BY <3>1, <3>2, <3>3 DEF InHand
    <3>5. sig["read"] => sig'["read"]
      BY <1>0, <2>1
    <3> QED BY <3>3, <3>4, <3>5 DEF WinTypeOK, Counted, Orderly
  <2>2. CASE s = "write"
    <3>1. ov'["read"] = ov["read"] /\ sig'["read"] = sig["read"]
      BY <1>0, <2>2 DEF Structs
    <3> QED BY <3>1 DEF Counted, InHand, Orderly
  <2> QED BY <2>1, <2>2 DEF Structs
<1> QED BY <1>1, <1>2, <1>3, <1>4, <1>5, <1>6

LEMMA CloseReleasesKeeps == ASSUME WinInv, CloseReleases PROVE WinInv'
<1> USE DEF WinInv, CloseReleases, line, reader, writer, driver
<1>1. WinTypeOK'
  BY DEF WinTypeOK
<1>2. Locked'
  BY DEF Locked
<1>3. Placed'
  BY DEF Placed
<1>4. Single'
  BY DEF Single, On, Orderly
<1>5. Matched'
  BY DEF Matched, On, Orderly
<1>6. Counted'
  BY DEF Counted, InHand, Orderly
<1> QED BY <1>1, <1>2, <1>3, <1>4, <1>5, <1>6

LEMMA WinNextKeeps == ASSUME WinInv, WinNext PROVE WinInv'
<1>1. CASE Driver
  BY <1>1, ArrivesKeeps, WithholdsKeeps, LineChangesKeeps, AbortsKeeps, CompletesKeeps DEF Driver
<1>2. CASE Read
  BY <1>2, ReadCallKeeps, DrainLooksKeeps, DrainReadsKeeps, DrainWakesKeeps, DrainTimesOutKeeps,
     DrainGivesUpKeeps, ArmKeeps, ReadWakesKeeps, ReadTimesOutKeeps, ReadCancelsKeeps,
     ReadSettlesKeeps DEF Read
<1>3. CASE Write
  BY <1>3, WriteCallKeeps, WriteIssuesKeeps, WriteWakesKeeps, WriteGivesUpKeeps, BreakEndsKeeps
     DEF Write
<1>4. CASE Close
  BY <1>4, CloseMarksKeeps, CloseCancelsKeeps, CloseReleasesKeeps DEF Close, Structs
<1> QED BY <1>1, <1>2, <1>3, <1>4 DEF WinNext
-----------------------------------------------------------------------------
(* Linux. *)

LEMMA LinuxLineKeeps == ASSUME LinuxInv, LinuxLine PROVE LinuxInv'
<1> USE DEF LinuxInv, LinuxLine, harm
<1>1. LinuxTypeOK'
  <2>1. queue' \in 0 .. LinuxBytes /\ came' \in 0 .. LinuxBytes
    BY LinuxPortAssumption DEF LinuxTypeOK, Drained
  <2>2. hup' \in BOOLEAN /\ full' \in BOOLEAN
    BY Zenon DEF LinuxTypeOK
  <2> QED BY <2>1, <2>2 DEF LinuxTypeOK
<1>2. Numbered'
  BY DEF Numbered
<1>3. Loaded'
  BY DEF Loaded
<1>4. Drained'
  BY DEF LinuxTypeOK, Drained
<1> QED BY <1>1, <1>2, <1>3, <1>4

LEMMA OtherOpensKeeps == ASSUME LinuxInv, OtherOpens PROVE LinuxInv'
<1> USE DEF LinuxInv, OtherOpens, tty, harm
<1>1. LinuxTypeOK'
  BY DEF LinuxTypeOK, Files
<1>2. Numbered'
  BY DEF LinuxTypeOK, Numbered, Numbers
<1>3. Loaded'
  BY DEF Loaded
<1>4. Drained'
  BY DEF Drained
<1> QED BY <1>1, <1>2, <1>3, <1>4

LEMMA ReadLoadsKeeps == ASSUME LinuxInv, ReadLoads PROVE LinuxInv'
<1> USE DEF LinuxInv, ReadLoads, EndRead, harm
<1>0. UNCHANGED <<fd, epfd, files, wrt, cls, queue, came, read, hup, full, stolen, astray>>
  BY DEF LinuxTypeOK
<1>1. -1 \in Numbers \cup {-1} /\ (fd = 3 \/ fd = -1)
  BY DEF Numbered
<1>2. CASE /\ rdr.pc = "idle" /\ rdr.ret \notin {"closed", "gone", "error"}
           /\ rdr' = [rdr EXCEPT !.pc = "half", !.epfd = epfd]
           /\ during' = FALSE
  <2> HIDE DEF ReadLoads
  <2>1. /\ rdr' \in [pc : {"idle", "half", "loaded", "waiting", "stray", "ready", "hup"},
                     fd : Numbers \cup {-1}, epfd : Numbers \cup {-1},
                     ret : {"none", "data", "nothing", "closed", "gone", "error"}]
        /\ rdr'.pc = "half" /\ rdr'.fd = rdr.fd /\ rdr'.epfd = epfd /\ rdr'.ret = rdr.ret
    <3>1. epfd \in Numbers \cup {-1} /\ rdr.fd \in Numbers \cup {-1}
      BY DEF LinuxTypeOK
    <3>2. rdr' = [pc |-> "half", fd |-> rdr.fd, epfd |-> epfd, ret |-> rdr.ret]
      BY <1>2 DEF LinuxTypeOK
    <3>3. rdr.ret \in {"none", "data", "nothing", "closed", "gone", "error"}
      BY DEF LinuxTypeOK
    <3> HIDE DEF LinuxInv
    <3> QED BY <3>1, <3>2, <3>3
  <2>2. LinuxTypeOK'
    <3>1. during' \in BOOLEAN
      BY <1>2
    <3> QED BY <1>0, <2>1, <3>1 DEF LinuxTypeOK
  <2>3. Numbered'
    BY <1>0 DEF Numbered
  <2>4. Loaded'
    BY <1>0, <1>2, <2>1 DEF Numbered, Loaded
  <2>5. Drained'
    BY <1>0, <1>2, <2>1 DEF Drained
  <2> QED BY <2>2, <2>3, <2>4, <2>5
<1>3. CASE /\ rdr.pc = "half" /\ during' = during
           /\ rdr' = [pc |-> "idle", fd |-> -1, epfd |-> -1, ret |-> "closed"]
  <2> HIDE DEF ReadLoads
  <2>1. LinuxTypeOK'
    BY <1>0, <1>1, <1>3 DEF LinuxTypeOK
  <2>2. Numbered'
    BY <1>0 DEF Numbered
  <2>3. Loaded' /\ Drained'
    BY <1>0, <1>3 DEF Loaded, Drained
  <2> QED BY <2>1, <2>2, <2>3
<1>4. CASE /\ rdr.pc = "half" /\ rdr.epfd # -1 /\ fd = 3 /\ during' = during
           /\ rdr' = [rdr EXCEPT !.pc = "loaded", !.fd = fd]
  <2> HIDE DEF ReadLoads
  <2>1. /\ rdr' \in [pc : {"idle", "half", "loaded", "waiting", "stray", "ready", "hup"},
                     fd : Numbers \cup {-1}, epfd : Numbers \cup {-1},
                     ret : {"none", "data", "nothing", "closed", "gone", "error"}]
        /\ rdr'.pc = "loaded" /\ rdr'.fd = 3 /\ rdr'.ret = rdr.ret
    BY <1>4 DEF LinuxTypeOK
  <2>2. LinuxTypeOK'
    BY <1>0, <1>4, <2>1 DEF LinuxTypeOK
  <2>3. Numbered'
    BY <1>0 DEF Numbered
  <2>4. Loaded'
    BY <1>0, <1>4, <2>1 DEF Loaded
  <2>5. Drained'
    BY <1>0, <1>4, <2>1 DEF Loaded, Drained
  <2> QED BY <2>2, <2>3, <2>4, <2>5
<1>5. CASE rdr.pc = "idle"
  BY <1>2, <1>5
<1>6. CASE rdr.pc = "half"
  <2>1. rdr.epfd < 0 \/ fd < 0 <=> rdr.epfd = -1 \/ fd = -1
    BY <1>1 DEF LinuxTypeOK, Numbers
  <2> QED BY <1>1, <1>3, <1>4, <1>6, <2>1
<1> QED BY <1>5, <1>6

LEMMA PollBeginsKeeps == ASSUME LinuxInv, PollBegins PROVE LinuxInv'
<1> USE DEF LinuxInv, PollBegins, EndRead, harm
<1>1. LinuxTypeOK'
  BY DEF LinuxTypeOK, Numbers
<1>2. Numbered'
  BY DEF Numbered
<1>3. Loaded'
  BY DEF LinuxTypeOK, Loaded
<1>4. Drained'
  BY DEF LinuxTypeOK, Loaded, Drained
<1> QED BY <1>1, <1>2, <1>3, <1>4

LEMMA PollEndsKeeps == ASSUME LinuxInv, PollEnds PROVE LinuxInv'
<1> USE DEF LinuxInv, PollEnds, EndRead, harm
<1>1. LinuxTypeOK'
  BY DEF LinuxTypeOK, Numbers
<1>2. Numbered'
  BY DEF Numbered
<1>3. Loaded'
  BY DEF LinuxTypeOK, Loaded
<1>4. Drained'
  BY DEF LinuxTypeOK, Loaded, Drained
<1> QED BY <1>1, <1>2, <1>3, <1>4

(* A device that is gone is empty unless Close let its number be taken. *)
LEMMA ReadsKeeps == ASSUME LinuxInv, Reads PROVE LinuxInv'
<1> DEFINE n == IF queue < LinuxBuf THEN queue ELSE LinuxBuf
           f == FileAt(rdr.fd)
<1> USE DEF LinuxInv
<1>0. /\ rdr.pc \in {"ready", "hup"} /\ rdr.fd = 3 /\ f = files[3]
      /\ UNCHANGED <<fd, epfd, files, during, wrt, cls, came, hup, full, astray>>
      /\ stolen' = (stolen \/ f = "tty2")
  BY DEF Reads, Loaded, FileAt, Numbers
<1>1. \E r \in {"data", "nothing", "gone", "error"}, k \in {0, n} :
        EndRead(r, k) /\ (r = "gone" => rdr.pc = "hup" /\ k = 0 /\ (f = "tty" => n = 0))
  <2>1. CASE f = "tty" /\ n > 0
    <3>1. EndRead("data", n)
      BY <2>1 DEF Reads
    <3> QED BY <3>1
  <2>2. CASE f = "tty2"
    <3>1. EndRead("data", 0)
      BY <2>2 DEF Reads
    <3> QED BY <3>1
  <2>3. CASE f = "tty" /\ n = 0 /\ rdr.pc = "ready"
    <3>1. EndRead("nothing", 0)
      BY <2>3 DEF Reads
    <3> QED BY <3>1
  <2>4. CASE /\ ~(f = "tty" /\ n > 0) /\ f # "tty2"
             /\ ~(f = "tty" /\ n = 0 /\ rdr.pc = "ready")
    <3>1. EndRead(IF rdr.pc = "hup" THEN "gone" ELSE "error", 0)
      BY <2>4 DEF Reads
    <3>2. n \in Nat
      BY LinuxPortAssumption DEF LinuxTypeOK
    <3> QED BY <2>4, <3>1, <3>2
  <2> QED BY <2>1, <2>2, <2>3, <2>4
<1>2. PICK r \in {"data", "nothing", "gone", "error"}, k \in {0, n} :
        EndRead(r, k) /\ (r = "gone" => rdr.pc = "hup" /\ k = 0 /\ (f = "tty" => n = 0))
  BY <1>1
<1>3. n \in Nat /\ k \in 0 .. queue /\ (n = 0 => queue = 0)
  BY LinuxPortAssumption DEF LinuxTypeOK
<1>4. f = "tty2" => cls.pc = "done"
  BY <1>0 DEF Numbered
<1>5. LinuxTypeOK'
  <2>1. queue' \in 0 .. LinuxBytes /\ read' \in 0 .. LinuxBytes
    BY <1>2, <1>3, LinuxPortAssumption DEF LinuxTypeOK, EndRead, Drained
  <2>2. stolen' \in BOOLEAN
    BY <1>0
  <2> QED BY <1>0, <1>2, <2>1, <2>2 DEF LinuxTypeOK, EndRead
<1>6. Numbered'
  BY <1>0, <1>4 DEF Numbered
<1>7. Loaded'
  BY <1>0, <1>2 DEF Loaded, EndRead
<1>8. Drained'
  <2>1. came' = queue' + read'
    BY <1>0, <1>2, <1>3 DEF LinuxTypeOK, EndRead, Drained
  <2>2. rdr'.pc = "idle" /\ rdr'.ret = r
    BY <1>2 DEF EndRead
  <2>3. r = "gone" => hup /\ queue' = queue
    BY <1>2, <1>3 DEF LinuxTypeOK, EndRead, Drained
  <2>4. r = "gone" /\ ~during => queue = 0
    BY <1>0, <1>2, <1>3 DEF Numbered, Loaded
  <2> QED BY <1>0, <2>1, <2>2, <2>3, <2>4 DEF Drained
<1> QED BY <1>5, <1>6, <1>7, <1>8

LEMMA WriteLoadsKeeps == ASSUME LinuxInv, WriteLoads PROVE LinuxInv'
<1> USE DEF LinuxInv, WriteLoads, tty, harm
<1>1. LinuxTypeOK'
  BY LinuxPortAssumption DEF LinuxTypeOK
<1>2. Numbered'
  BY DEF LinuxTypeOK, Numbered
<1>3. Loaded'
  BY DEF Loaded
<1>4. Drained'
  BY DEF Drained
<1> QED BY <1>1, <1>2, <1>3, <1>4

LEMMA WriteSomeKeeps == ASSUME LinuxInv, WriteSome PROVE LinuxInv'
<1> USE DEF LinuxInv, WriteSome, tty
<1>1. LinuxTypeOK'
  <2>1. astray' \in BOOLEAN
    OBVIOUS
  <2>2. wrt' \in [pc : {"idle", "writing"}, fd : Numbers \cup {-1}, left : 0 .. LinuxWrite,
                  ret : {"none", "all", "closed", "stalled", "error"}]
    <3>1. -1 \in Numbers \cup {-1} /\ 0 \in 0 .. LinuxWrite
      BY LinuxPortAssumption
    <3>2. CASE wrt' = [wrt EXCEPT !.left = wrt.left - 1] /\ wrt.left > 1
      <4>1. wrt.left - 1 \in 0 .. LinuxWrite
        BY <3>2, LinuxPortAssumption DEF LinuxTypeOK
      <4> HIDE DEF WriteSome
      <4> QED BY <3>2, <4>1 DEF LinuxTypeOK
    <3>3. ASSUME NEW r \in {"all", "stalled", "error"},
                 wrt' = [wrt EXCEPT !.pc = "idle", !.fd = -1, !.left = 0, !.ret = r]
          PROVE  wrt' \in [pc : {"idle", "writing"}, fd : Numbers \cup {-1}, left : 0 .. LinuxWrite,
                           ret : {"none", "all", "closed", "stalled", "error"}]
      <4> HIDE DEF WriteSome
      <4> QED BY <3>1, <3>3 DEF LinuxTypeOK
    <3>4. \/ wrt' = [wrt EXCEPT !.left = wrt.left - 1] /\ wrt.left > 1
          \/ \E r \in {"all", "stalled", "error"} :
               wrt' = [wrt EXCEPT !.pc = "idle", !.fd = -1, !.left = 0, !.ret = r]
      OBVIOUS
    <3> QED BY <3>2, <3>3, <3>4
  <2> QED BY <2>1, <2>2 DEF LinuxTypeOK
<1>2. Numbered'
  <2>1. FileAt(wrt.fd) = "tty2" => cls.pc = "done"
    BY DEF Numbered, FileAt, Numbers
  <2>2. wrt'.fd \in {-1, 3}
    BY DEF LinuxTypeOK, Numbered
  <2> QED BY <2>1, <2>2 DEF Numbered
<1>3. Loaded'
  BY DEF Loaded
<1>4. Drained'
  BY DEF Drained
<1> QED BY <1>1, <1>2, <1>3, <1>4

LEMMA LinuxCloseKeeps == ASSUME LinuxInv, LinuxClose PROVE LinuxInv'
<1> USE DEF LinuxInv
<1>1. \/ /\ cls.pc = "idle" /\ cls' = [pc |-> "half", fd |-> -1, epfd |-> 4]
         /\ epfd' = -1 /\ during' = (rdr.pc # "idle") /\ fd' = fd /\ files' = files
      \/ /\ cls.pc = "half" /\ cls' = [pc |-> "swapped", fd |-> 3, epfd |-> 4]
         /\ fd' = -1 /\ epfd' = epfd /\ during' = during /\ files' = files
      \/ /\ cls.pc = "swapped" /\ cls' = [pc |-> "closing", fd |-> 3, epfd |-> 4]
         /\ files' = [files EXCEPT ![4] = "free"] /\ UNCHANGED <<fd, epfd, during>>
      \/ /\ cls.pc = "closing" /\ cls' = [pc |-> "done", fd |-> 3, epfd |-> 4]
         /\ files' = [files EXCEPT ![3] = "free"] /\ UNCHANGED <<fd, epfd, during>>
  <2> USE DEF LinuxClose, LinuxTypeOK, Numbered
  <2>1. CASE cls.pc = "idle"
    BY <2>1
  <2>2. CASE cls.pc = "half"
    BY <2>2
  <2>3. CASE cls.pc = "swapped"
    BY <2>3
  <2>4. CASE cls.pc = "closing"
    BY <2>4
  <2> QED BY <2>1, <2>2, <2>3, <2>4
<1>2. UNCHANGED <<rdr, wrt, queue, came, read, hup, full, stolen, astray>>
  BY DEF LinuxClose, tty, harm
<1>3. LinuxTypeOK'
  <2>1. during' \in BOOLEAN
    BY <1>1 DEF LinuxTypeOK
  <2>2. files' \in [Numbers -> Files]
    BY <1>1 DEF LinuxTypeOK, Files
  <2>3. {3, 4, -1} \subseteq Numbers \cup {-1}
    BY DEF Numbers
  <2>4. /\ fd' \in Numbers \cup {-1} /\ epfd' \in Numbers \cup {-1}
        /\ cls' \in [pc : {"idle", "half", "swapped", "closing", "done"},
                     fd : Numbers \cup {-1}, epfd : Numbers \cup {-1}]
    BY <1>1, <2>3 DEF LinuxTypeOK
  <2> QED BY <1>2, <2>1, <2>2, <2>4 DEF LinuxTypeOK
<1>4. Numbered'
  BY <1>1, <1>2 DEF LinuxTypeOK, Numbered, Numbers
<1>5. Loaded'
  <2>1. cls'.pc # "idle" /\ (cls.pc # "idle" => during' = during)
    BY <1>1
  <2>2. cls.pc = "idle" => (during' <=> rdr.pc # "idle")
    BY <1>1
  <2>3. ~during' => rdr.pc = "idle" \/ (rdr.pc = "half" /\ rdr.epfd = -1)
    BY <2>1, <2>2 DEF Loaded
  <2> QED BY <1>2, <2>1, <2>3 DEF Loaded
<1>6. Drained'
  BY <1>1, <1>2 DEF LinuxTypeOK, Loaded, Drained
<1> QED BY <1>3, <1>4, <1>5, <1>6

LEMMA LinuxNextKeeps == ASSUME LinuxInv, LinuxNext PROVE LinuxInv'
BY LinuxLineKeeps, OtherOpensKeeps, ReadLoadsKeeps, PollBeginsKeeps, PollEndsKeeps, ReadsKeeps,
   WriteLoadsKeeps, WriteSomeKeeps, LinuxCloseKeeps DEF LinuxNext, LinuxRead
-----------------------------------------------------------------------------
(* The invariant holds, and with it the properties. *)

LEMMA OpenInv == ASSUME Open PROVE WinInv
<1> USE WinPortAssumption DEF Open
<1>1. WinTypeOK
  <2>1. [st |-> "idle", n |-> 0] \in Done
    BY DEF Done
  <2>2. ov \in [Structs -> Done] /\ sig \in [Structs -> BOOLEAN]
    BY <2>1
  <2>3. lazy \in BOOLEAN /\ 0 \in 0 .. Buf /\ 0 \in 0 .. MaxBytes /\ 0 \in 0 .. MaxCalls
        /\ 0 \in 0 .. MaxLies
    OBVIOUS
  <2> QED BY <2>2, <2>3 DEF WinTypeOK
<1>2. Locked /\ Placed
  BY DEF Locked, Placed
<1>3. Single /\ Matched /\ Counted
  BY DEF Single, Matched, Counted, InHand, On, Structs
<1> QED BY <1>1, <1>2, <1>3 DEF WinInv

LEMMA LinuxOpenInv == ASSUME LinuxOpen PROVE LinuxInv
<1> USE LinuxPortAssumption DEF LinuxOpen
<1>1. files \in [Numbers -> Files]
  BY DEF Numbers, Files
<1>2. LinuxTypeOK
  <2>1. {3, 4, -1} \subseteq Numbers \cup {-1} /\ 0 \in 0 .. LinuxWrite /\ 0 \in 0 .. LinuxBytes
    BY DEF Numbers
  <2> QED BY <1>1, <2>1 DEF LinuxTypeOK
<1>3. files[3] = "tty"
  BY DEF Numbers
<1>4. Numbered /\ Loaded /\ Drained
  BY <1>3 DEF Numbered, Loaded, Drained
<1> QED BY <1>2, <1>4 DEF LinuxInv

LEMMA WinStutters == ASSUME WinInv, UNCHANGED winVars PROVE WinInv'
BY DEF WinInv, winVars, WinTypeOK, Locked, Placed, Single, Matched, Counted, InHand, Orderly, On

LEMMA LinuxStutters == ASSUME LinuxInv, UNCHANGED linuxVars PROVE LinuxInv'
BY DEF LinuxInv, linuxVars, LinuxTypeOK, Numbered, Loaded, Drained

LEMMA InvHolds == PortSpec => []SerialInv
<1>1. PortInit => SerialInv
  BY OpenInv, LinuxOpenInv DEF PortInit, SerialInv
<1>2. SerialInv /\ [PortNext]_serialVars => SerialInv'
  <2>1. SUFFICES ASSUME WinInv, LinuxInv, [PortNext]_serialVars PROVE WinInv' /\ LinuxInv'
    BY <2>1 DEF SerialInv
  <2>2. CASE WindowsStep
    BY <2>1, <2>2, WinNextKeeps, LinuxStutters DEF WindowsStep
  <2>3. CASE LinuxStep
    BY <2>1, <2>3, LinuxNextKeeps, WinStutters DEF LinuxStep
  <2>4. CASE UNCHANGED serialVars
    BY <2>1, <2>4, WinStutters, LinuxStutters DEF serialVars
  <2> QED BY <2>1, <2>2, <2>3, <2>4 DEF PortNext
<1> QED BY <1>1, <1>2, PTL DEF PortSpec

(* The state of both drivers is what their modules say: no count of bytes leaves
   its bounds, the drain asks for no more than the buffer holds, and every
   number Linux uses is one of the two Open returned or none. *)
THEOREM PortTypeCorrect == PortSpec => []PortTypeOK
<1>1. SerialInv => PortTypeOK
  BY DEF SerialInv, WinInv, LinuxInv, PortTypeOK
<1> QED BY <1>1, InvHolds, PTL

(* Close takes nothing from under a call: the handle and the events outlive every
   call and, with a driver that cancels at once, every operation; on Linux only a
   call that Close overtook can reach another port's device. And an OVERLAPPED
   structure serves one operation at a time, whose result goes to the call that
   issued it, for as long as no call left a cancelled operation with a driver
   that is slow to complete it: whatever the line, the driver and the callers do. *)
THEOREM ResourcesOwnedHolds == PortSpec => []ResourcesOwned
<1>1. ASSUME SerialInv PROVE ResourcesOwned
  <2> USE <1>1 DEF SerialInv, WinInv, LinuxInv
  <2>1. ~handle => rd = "idle" /\ wr = "idle" /\ (lazy \/ ops = {})
    BY DEF Locked, Placed
  <2>2. cls.pc # "idle" /\ ~during => rdr.fd = -1
    BY DEF Loaded
  <2>3. stolen \/ astray => cls.pc = "done"
    BY DEF Numbered
  <2>4. OneOperationEach
    BY DEF OneOperationEach, Single
  <2> QED BY <2>1, <2>2, <2>3, <2>4 DEF ResourcesOwned, NothingInUseIsFreed
<1> QED BY <1>1, InvHolds, PTL

(* A reader never sleeps on bytes that are in the queue, and every byte the line
   delivered is in the queue, in the hands of a drain, returned, or withheld by
   the driver: none twice, none lost, unless a drain gave up. *)
THEOREM NoByteForgottenHolds == PortSpec => []NoByteForgotten
<1>1. SerialInv => NoByteForgotten
  BY DEF SerialInv, WinInv, LinuxInv, Counted, InHand, Drained, NoByteForgotten
<1> QED BY <1>1, InvHolds, PTL

----------------------------------------------------------------------------
(* The socket file. *)

USE EndpointAssumption

DaemonAt == {"none", "lstat", "probe", "remove", "bind", "listen", "start",
             "serve", "unlink", "shut", "release", "cleanup", "gone"}

(* What the prover needs of the types. *)
Types ==
  /\ path \in Daemons \union {None, Leftover}
  /\ ln \in [Daemons -> {"none", "bound", "open", "closed"}]
  /\ dpc \in [Daemons -> DaemonAt]
  /\ hw \in [Daemons -> BOOLEAN]
  /\ overlap \in BOOLEAN

LEMMA TypesInit == Init => Types
  BY DEF Init, Types, DaemonAt

LEMMA TypesStep == Types /\ [Next]_vars => Types'
<1> SUFFICES ASSUME Types, [Next]_vars PROVE Types'
  OBVIOUS
<1>1. ASSUME NEW d \in Daemons, Daemon(d) PROVE Types'
  <2>1. CASE Opening(d)
    BY <2>1 DEF Opening, Lstat, Probe, RemoveFile, Bind, Listen, Types, At, DaemonAt
  <2>2. CASE Start(d)
    BY <2>2 DEF Start, Types, At, DaemonAt
  <2>3. CASE Ending(d)
    BY <2>3 DEF Ending, Unlink, Shut, Release, Cleanup, Types, At, DaemonAt
  <2> QED
    BY <1>1, <2>1, <2>2, <2>3 DEF Daemon
<1>2. ASSUME NEW d \in Daemons, StartFails(d) \/ Stop(d) \/ Crash(d) PROVE Types'
  BY <1>2 DEF StartFails, Stop, Crash, Fault, Types, At, DaemonAt
<1>3. ASSUME NEW s \in Sessions, Session(s) \/ SpawnFails(s) PROVE Types'
  <2>1. (\E d \in Daemons : dpc[d] = "none") => Fresh \in Daemons
    BY DEF Fresh
  <2> QED
    BY <1>3, <2>1 DEF Session, Look, Spawn, Poll, GiveUp, Dial, SpawnFails, Fault, Types,
                      At, DaemonAt, Move
<1>4. CASE Rest \/ UNCHANGED vars
  BY <1>4 DEF Rest, vars, Types
<1> QED
  BY <1>1, <1>2, <1>3, <1>4 DEF Next

----------------------------------------------------------------------------
(* The take-over without overlap. *)

LEMMA SerialInit == Init => Serial
  BY DEF Init, Serial, Busy, Launching, Stopping

(* The steps of a daemon: it is the one that is busy, or it serves and      *)
(* nobody is on the way in.                                                 *)
LEMMA SerialDaemon ==
  ASSUME Types, Serial, NEW d \in Daemons,
         Daemon(d) \/ StartFails(d) \/ Stop(d) \/ Crash(d)
  PROVE  Serial'
<1> USE DEF Types, DaemonAt, At, Launching, Stopping, Busy
<1>1. CASE Lstat(d)
  BY <1>1 DEF Lstat, Serial
<1>2. CASE Probe(d)
  BY <1>2 DEF Probe, Serial, Alive
<1>3. CASE RemoveFile(d)
  BY <1>3 DEF RemoveFile, Serial
<1>4. CASE Bind(d)
  BY <1>4 DEF Bind, Serial
<1>5. CASE Listen(d)
  BY <1>5 DEF Listen, Serial
<1>6. CASE Start(d)
  BY <1>6 DEF Start, Serial
<1>7. CASE Unlink(d)
  BY <1>7 DEF Unlink, Serial
<1>8. CASE Shut(d)
  BY <1>8 DEF Shut, Serial
<1>9. CASE Release(d)
  BY <1>9 DEF Release, Serial
<1>10. CASE Cleanup(d)
  BY <1>10 DEF Cleanup, Serial
<1>11. CASE StartFails(d)
  BY <1>11 DEF StartFails, Serial
<1>12. CASE Stop(d)
  <2>1. CASE \E e \in Daemons : Launching(e)
    BY <1>12, <2>1 DEF Stop, Serial
  <2>2. CASE \A e \in Daemons : ~Launching(e)
    <3>1. ~overlap => \A e \in Daemons : e # d => dpc[e] \in {"none", "gone"}
      BY <1>12, <2>2 DEF Stop, Serial
    <3>2. overlap' = overlap /\ path' = path /\ ln' = ln /\ hw' = hw
      BY <1>12, <2>2 DEF Stop
    <3>3. dpc' = [dpc EXCEPT ![d] = "unlink"]
      BY <1>12 DEF Stop
    <3> QED
      BY <3>1, <3>2, <3>3 DEF Serial
  <2> QED
    BY <2>1, <2>2
<1>13. CASE Crash(d)
  BY <1>13 DEF Crash, Serial
<1> QED
  BY <1>1, <1>2, <1>3, <1>4, <1>5, <1>6, <1>7, <1>8, <1>9, <1>10, <1>11, <1>12, <1>13
  DEF Daemon, Opening, Ending

(* The steps of a session: the daemon it spawns is alone, or the launch     *)
(* overlaps.                                                               *)
LEMMA SerialSession ==
  ASSUME Types, Serial, NEW s \in Sessions, Session(s) \/ SpawnFails(s)
  PROVE  Serial'
<1>1. CASE Spawn(s)
  <2>1. PICK d \in Daemons : Fresh = d /\ dpc[d] = "none"
    BY <1>1 DEF Spawn, Fresh
  <2>2. dpc' = [dpc EXCEPT ![d] = "lstat"] /\ path' = path /\ ln' = ln /\ hw' = hw
    BY <1>1, <2>1 DEF Spawn, At
  <2>3. overlap' \/ (~overlap /\ \A e \in Daemons : ~Busy(e))
    BY <1>1 DEF Spawn, Types
  <2> QED
    BY <2>1, <2>2, <2>3 DEF Serial, Types, DaemonAt, Launching, Stopping, Busy
<1>2. CASE Look(s) \/ Poll(s) \/ GiveUp(s) \/ Dial(s) \/ SpawnFails(s)
  BY <1>2 DEF Look, Poll, GiveUp, Dial, SpawnFails, Serial, Launching, Stopping, Busy
<1> QED
  BY <1>1, <1>2 DEF Session

(* Serial holds in every reachable state. *)
THEOREM SerialHolds == Spec => [](Types /\ Serial)
<1>1. Init => Types /\ Serial
  BY TypesInit, SerialInit
<1>2. Types /\ Serial /\ [Next]_vars => Types' /\ Serial'
  <2> SUFFICES ASSUME Types, Serial, [Next]_vars PROVE Types' /\ Serial'
    OBVIOUS
  <2>1. Types'
    BY TypesStep
  <2>2. CASE \E d \in Daemons : Daemon(d) \/ StartFails(d) \/ Stop(d) \/ Crash(d)
    BY <2>1, <2>2, SerialDaemon
  <2>3. CASE \E s \in Sessions : Session(s) \/ SpawnFails(s)
    BY <2>1, <2>3, SerialSession
  <2>4. CASE Rest \/ UNCHANGED vars
    <3>1. UNCHANGED vars
      BY <2>4 DEF Rest
    <3> QED
      BY <2>1, <3>1 DEF vars, Serial, Launching, Stopping, Busy
  <2> QED
    BY <2>2, <2>3, <2>4 DEF Next
<1> QED
  BY <1>1, <1>2, PTL DEF Spec

(* While launches have not overlapped one daemon at a time holds the        *)
(* devices, whatever files dead daemons left (ipc.Listen, cmdCapture).      *)
THEOREM InstanceHolds == Spec => []SerialInstance
<1>1. Serial => SerialInstance
  BY DEF Serial, SerialInstance, SingleInstance, Busy, Stopping
<1> QED
  BY <1>1, SerialHolds, PTL

(* While launches have not overlapped, a daemon that serves is the one its  *)
(* socket file names (ipc.Listen, cmdCapture).                              *)
THEOREM ReachableHolds == Spec => []SerialReachable
<1>1. Serial => SerialReachable
  BY DEF Serial, SerialReachable, Reachable
<1> QED
  BY <1>1, SerialHolds, PTL

----------------------------------------------------------------------------
(* The types with the place of the listener. *)

LEMMA TypeDaemon ==
  ASSUME TypeOK, NEW d \in Daemons, Daemon(d) \/ StartFails(d) \/ Stop(d) \/ Crash(d)
  PROVE  TypeOK'
<1> USE DEF TypeOK, At, Fault, EndpointAssumption
<1>1. CASE Lstat(d)
  BY <1>1 DEF Lstat
<1>2. CASE Probe(d)
  BY <1>2 DEF Probe
<1>3. CASE RemoveFile(d)
  BY <1>3 DEF RemoveFile
<1>4. CASE Bind(d)
  BY <1>4 DEF Bind
<1>5. CASE Listen(d)
  BY <1>5 DEF Listen
<1>6. CASE Start(d)
  <2>1. ln[d] # "none" /\ dpc' = [dpc EXCEPT ![d] = "serve"] /\ hw' \in [Daemons -> BOOLEAN]
    BY <1>6 DEF Start
  <2> QED
    BY <1>6, <2>1 DEF Start
<1>7. CASE StartFails(d)
  BY <1>7 DEF StartFails
<1>8. CASE Stop(d)
  BY <1>8 DEF Stop
<1>9. CASE Unlink(d) \/ Release(d) \/ Cleanup(d)
  BY <1>9 DEF Unlink, Release, Cleanup
<1>10. CASE Shut(d)
  BY <1>10 DEF Shut
<1>11. CASE Crash(d)
  BY <1>11 DEF Crash
<1> QED
  BY <1>1, <1>2, <1>3, <1>4, <1>5, <1>6, <1>7, <1>8, <1>9, <1>10, <1>11
  DEF Daemon, Opening, Ending

LEMMA TypeSession ==
  ASSUME TypeOK, NEW s \in Sessions, Session(s) \/ SpawnFails(s)
  PROVE  TypeOK'
<1>1. CASE Spawn(s)
  <2>1. Fresh \in Daemons /\ dpc[Fresh] = "none"
    BY <1>1 DEF Spawn, Fresh
  <2> QED
    BY <1>1, <2>1 DEF Spawn, TypeOK, At, Move
<1>2. CASE Look(s) \/ Poll(s) \/ GiveUp(s) \/ Dial(s) \/ SpawnFails(s)
  BY <1>2 DEF Look, Poll, GiveUp, Dial, SpawnFails, TypeOK, Move, Fault
<1> QED
  BY <1>1, <1>2 DEF Session

(* Every reachable state is well typed, and a daemon has a listener exactly *)
(* once it is past its bind (ipc.Listen before hub.New in cmdCapture).      *)
THEOREM TypeCorrect == Spec => []TypeOK
<1>1. ASSUME Init PROVE TypeOK
  <2>1. faults \in 0..MaxFaults
    BY <1>1 DEF Init, EndpointAssumption
  <2>2. \A d \in Daemons : ln[d] = "none" /\ dpc[d] = "none"
    BY <1>1 DEF Init
  <2>3. overlap \in BOOLEAN /\ hw \in [Daemons -> BOOLEAN]
    BY <1>1 DEF Init
  <2> QED
    BY <1>1, <2>1, <2>2, <2>3 DEF Init, TypeOK
<1>2. TypeOK /\ [Next]_vars => TypeOK'
  BY TypeDaemon, TypeSession DEF Next, Rest, vars, TypeOK
<1> QED
  BY <1>1, <1>2, PTL DEF Spec

=============================================================================
