------------------------------ MODULE WinPort ------------------------------
(* The Windows serial driver: src/internal/serialport/serialport_windows.go.

   One port, the three kinds of goroutine that use it and the device driver
   under it. Read, Write and SendBreak run one at a time behind ioMu; Close
   marks the port closed and cancels what is pending without that lock, and
   only then takes it to close the handle and the two events.

   All input and output is overlapped. Each of the two OVERLAPPED structures,
   with its event, serves one operation after the other, so an operation that
   is still with the driver when its structure is used again would complete into
   the wrong call. A driver may complete a cancelled operation before CancelIoEx
   returns or later ("lazy"): both are allowed by the interface. *)
EXTENDS Naturals, FiniteSets

CONSTANTS
  MaxBytes,   \* bytes the line delivers
  Buf,        \* the reader's buffer
  MaxCalls,   \* calls of Write and SendBreak
  MaxLies,    \* bytes the driver counts in ClearCommError and then does not deliver
  LazyDrivers \* the kinds of driver: subset of BOOLEAN

ASSUME WinPortAssumption ==
  /\ {MaxBytes, MaxCalls, MaxLies} \subseteq Nat
  /\ Buf \in Nat \ {0}
  /\ LazyDrivers \subseteq BOOLEAN

VARIABLES
  handle,   \* the handle and its events are open
  closed,   \* Port.closed
  ioMu,     \* who holds Port.ioMu
  rd,       \* where Read is
  want,     \* the count drain asked ReadFile for
  ret,      \* how the last Read ended
  wr,       \* where Write or SendBreak is
  calls,    \* calls of Write and SendBreak so far; a write's number is its name
  cl,       \* where Close is
  ops,      \* the operations the driver holds
  ov,       \* the two OVERLAPPED structures
  sig,      \* their auto-reset events
  rx,       \* bytes in the driver's input queue
  latch,    \* an RXCHAR no WaitCommEvent has reported
  arrived, got, lied,  \* bytes: from the line, returned by Read, withheld
  cut,      \* a drain gave up on its ReadFile
  quit,     \* a write gave up on its WriteFile
  stuck,    \* flow control holds the output
  gone,     \* the adapter was pulled
  lazy      \* the kind of driver

winVars == <<handle, closed, ioMu, rd, want, ret, wr, calls, cl, ops, ov,
             sig, rx, latch, arrived, got, lied, cut, quit, stuck,
             gone, lazy>>
line    == <<rx, latch, arrived, lied, stuck, gone, lazy>>
reader  == <<rd, want, ret, got, cut>>
writer  == <<wr, calls, quit>>
driver  == <<ops, ov, sig>>

Structs == {"read", "write"}
Done    == [st : {"idle", "pending", "ok", "aborted"}, n : 0 .. Buf]
Op      == [on : Structs, kind : {"event", "file", "out"}, id : Nat, n : 0 .. Buf, cut : BOOLEAN]

WinTypeOK ==
  /\ handle \in BOOLEAN /\ closed \in BOOLEAN
  /\ ioMu \in {"free", "reader", "writer", "closer"}
  /\ rd \in {"idle", "first", "arm", "parked", "spent", "late", "last", "file", "filing",
             "overdue"}
  /\ want \in 0 .. Buf
  /\ ret \in {"none", "data", "nothing", "closed", "error"}
  /\ wr \in {"idle", "write", "parked", "break"}
  /\ calls \in 0 .. MaxCalls
  /\ cl \in {"idle", "marked", "half", "cancelled", "done"}
  /\ ops \subseteq Op /\ ov \in [Structs -> Done] /\ sig \in [Structs -> BOOLEAN]
  /\ {rx, got, arrived} \subseteq 0 .. MaxBytes
  /\ lied \in 0 .. MaxLies
  /\ {latch, cut, quit, stuck, gone, lazy} \subseteq BOOLEAN

(* What Open leaves: handle, events, settings and event mask in place, and the
   input that came before purged. *)
Open ==
  /\ handle = TRUE /\ closed = FALSE /\ ioMu = "free"
  /\ rd = "idle" /\ want = 0 /\ ret = "none"
  /\ wr = "idle" /\ calls = 0 /\ cl = "idle"
  /\ ops = {} /\ ov = [s \in Structs |-> [st |-> "idle", n |-> 0]]
  /\ sig = [s \in Structs |-> FALSE]
  /\ rx = 0 /\ latch = FALSE /\ arrived = 0 /\ got = 0 /\ lied = 0 /\ cut = FALSE
  /\ quit = FALSE /\ stuck = FALSE /\ gone = FALSE
  /\ lazy \in LazyDrivers

-----------------------------------------------------------------------------
(* The driver. *)

On(s) == {o \in ops : o.on = s}

(* resetRead and resetWrite, then the call that hands the structure over. *)
Issue(s, kind, id, n) ==
  /\ ops' = ops \cup {[on |-> s, kind |-> kind, id |-> id, n |-> n, cut |-> FALSE]}
  /\ ov'  = [ov EXCEPT ![s] = [st |-> "pending", n |-> 0]]
  /\ sig' = [sig EXCEPT ![s] = FALSE]

(* The driver completes o: the status and the count go into the structure. *)
Finish(o, st, n) ==
  /\ ops' = ops \ {o}
  /\ ov'  = [ov EXCEPT ![o.on] = [st |-> st, n |-> n]]
  /\ sig' = [sig EXCEPT ![o.on] = TRUE]

(* CancelIoEx for one structure. *)
CancelIoEx(s) ==
  \/ /\ On(s) = {}
     /\ UNCHANGED driver
  \/ /\ On(s) # {}
     /\ ops' = ops \ On(s)
     /\ ov'  = [ov EXCEPT ![s] = [st |-> "aborted", n |-> 0]]
     /\ sig' = [sig EXCEPT ![s] = TRUE]
  \/ /\ lazy /\ On(s) # {}
     /\ ops' = (ops \ On(s)) \cup {[o EXCEPT !.cut = TRUE] : o \in On(s)}
     /\ UNCHANGED <<ov, sig>>

Aborts(o) ==
  /\ o.cut \/ gone
  /\ Finish(o, "aborted", 0)
  /\ UNCHANGED <<line, handle, closed, ioMu, reader, writer, cl>>

Completes(o) ==
  /\ \/ /\ o.kind = "file" /\ o.n <= rx
        /\ Finish(o, "ok", o.n)
        /\ rx' = rx - o.n
     \/ /\ o.kind = "out" /\ ~stuck /\ ~gone
        /\ Finish(o, "ok", o.n)
        /\ UNCHANGED rx
  /\ UNCHANGED <<handle, closed, ioMu, reader, writer, cl, latch, arrived, lied,
                 stuck, gone, lazy>>

(* A byte comes in: it completes the event that is waited for, or is remembered
   for the next WaitCommEvent. *)
Arrives ==
  /\ handle /\ ~gone /\ arrived < MaxBytes
  /\ arrived' = arrived + 1
  /\ rx' = rx + 1
  /\ \/ \E o \in ops :
          /\ o.kind = "event"
          /\ Finish(o, "ok", 0)
          /\ UNCHANGED latch
     \/ /\ \A o \in ops : o.kind # "event"
        /\ latch' = TRUE
        /\ UNCHANGED driver
  /\ UNCHANGED <<handle, closed, ioMu, reader, writer, cl, lied, stuck,
                 gone, lazy>>

(* The driver takes a queued byte away, between the count and the ReadFile. *)
Withholds ==
  /\ rx > 0 /\ lied < MaxLies
  /\ rx' = rx - 1
  /\ lied' = lied + 1
  /\ UNCHANGED <<handle, closed, ioMu, reader, writer, cl, driver, latch, arrived,
                 stuck, gone, lazy>>

LineChanges ==
  /\ \/ stuck' = ~stuck /\ UNCHANGED gone
     \/ ~gone /\ gone' = TRUE /\ UNCHANGED stuck
  /\ UNCHANGED <<handle, closed, ioMu, reader, writer, cl, driver, rx, latch,
                 arrived, lied, lazy>>

Driver == \/ Arrives \/ Withholds \/ LineChanges
          \/ \E o \in ops : Aborts(o) \/ Completes(o)
-----------------------------------------------------------------------------
(* Read and drain.  Operators whose comment begins with [fault] are what a
   plausible mistake would make of the operator after them. *)

Quiet == UNCHANGED <<line, handle, closed, writer, cl>>

Return(r, n) ==
  /\ rd' = "idle" /\ ret' = r /\ got' = got + n /\ ioMu' = "free"
  /\ UNCHANGED want

Goto(pc) == rd' = pc /\ UNCHANGED <<ret, got, want, ioMu>>

(* The result a call gives once the port may have been closed under it. *)
OrClosed(r) == IF closed THEN "closed" ELSE r

(* [fault] Blocks without looking at what is queued. *)
BlocksFirst == "arm"

(* Whatever is already queued goes out before blocking. *)
Begins == "first"

(* A worker reads until an error; a closed port says so before anything else. *)
ReadCall ==
  /\ rd = "idle" /\ ret \notin {"closed", "error"} /\ ioMu = "free"
  /\ IF closed THEN Return("closed", 0)
               ELSE rd' = Begins /\ ioMu' = "reader" /\ UNCHANGED <<ret, got, want>>
  /\ UNCHANGED <<cut, driver>> /\ Quiet

(* [fault] Asks for all that is queued. *)
AskAll == rx

(* As much as is queued and fits. *)
Ask == IF rx < Buf THEN rx ELSE Buf

(* ClearCommError, at the head of drain; a pulled adapter shows here first. *)
DrainLooks ==
  /\ rd \in {"first", "last"}
  /\ \/ gone /\ Return("error", 0)
     \/ ~gone /\ rx = 0 /\ rd = "first" /\ Goto("arm")
     \/ ~gone /\ rx = 0 /\ rd = "last" /\ Return("nothing", 0)
     \/ /\ ~gone /\ rx > 0
        /\ rd' = "file"
        /\ want' = Ask
        /\ UNCHANGED <<ret, got, ioMu>>
  /\ UNCHANGED <<cut, driver>> /\ Quiet

(* ReadFile for the count the driver gave: at once, or pending if it lied. *)
DrainReads ==
  /\ rd = "file"
  /\ UNCHANGED <<cut, handle, closed, writer, cl, latch, arrived, lied,
                 stuck, gone, lazy>>
  /\ \/ /\ want <= rx
        /\ rx' = rx - want
        /\ ov'  = [ov EXCEPT !["read"] = [st |-> "ok", n |-> want]]
        /\ sig' = [sig EXCEPT !["read"] = TRUE]
        /\ UNCHANGED ops
        /\ Return("data", want)
     \/ /\ want > rx
        /\ Issue("read", "file", lied, want)
        /\ Goto("filing") /\ UNCHANGED rx

(* The wait for that ReadFile: it completes, or it is cut off after 2 seconds
   and its completion, data or not, is looked at and dropped. *)
DrainWakes ==
  /\ rd = "filing" /\ sig["read"]
  /\ sig' = [sig EXCEPT !["read"] = FALSE]
  /\ IF ov["read"].st = "ok" THEN Return("data", ov["read"].n)
                             ELSE Return(OrClosed("error"), 0)
  /\ UNCHANGED <<cut, ops, ov>> /\ Quiet

(* [fault] Waits for the bytes the driver promised, however long. *)
DrainWaits == FALSE /\ UNCHANGED winVars

DrainTimesOut ==
  /\ rd = "filing" /\ ~sig["read"]
  /\ Goto("overdue")
  /\ UNCHANGED <<cut, driver>> /\ Quiet

DrainGivesUp ==
  /\ rd = "overdue"
  /\ CancelIoEx("read")
  /\ Return(OrClosed("nothing"), 0)
  /\ cut' = TRUE
  /\ Quiet

(* resetRead and WaitCommEvent. An event that fired already is reported at once;
   a second wait on a handle that has one is refused. *)
Arm ==
  /\ rd = "arm"
  /\ UNCHANGED <<cut, handle, closed, writer, cl, rx, arrived, lied,
                 stuck, gone, lazy>>
  /\ \/ /\ latch /\ latch' = FALSE
        /\ ov'  = [ov EXCEPT !["read"] = [st |-> "ok", n |-> 0]]
        /\ sig' = [sig EXCEPT !["read"] = TRUE]
        /\ UNCHANGED ops
        /\ IF closed THEN Return("closed", 0) ELSE Goto("last")
     \/ /\ ~latch /\ UNCHANGED latch
        /\ \/ \E o \in ops : o.kind = "event" /\ UNCHANGED driver /\ Return("error", 0)
           \/ /\ \A o \in ops : o.kind # "event"
              /\ Issue("read", "event", 0, 0)
              /\ Goto("parked")

ReadWakes ==
  /\ rd = "parked" /\ sig["read"]
  /\ sig' = [sig EXCEPT !["read"] = FALSE]
  /\ IF closed THEN Return("closed", 0)
     ELSE IF ov["read"].st = "ok" THEN Goto("last") ELSE Return("error", 0)
  /\ UNCHANGED <<cut, ops, ov>> /\ Quiet

(* The time-out: the wait is cancelled, then its result is consumed. It may have
   completed in between. *)
ReadTimesOut ==
  /\ rd = "parked" /\ ~sig["read"]
  /\ Goto("spent")
  /\ UNCHANGED <<cut, driver>> /\ Quiet

ReadCancels ==
  /\ rd = "spent"
  /\ CancelIoEx("read")
  /\ Goto("late")
  /\ UNCHANGED cut /\ Quiet

ReadSettles ==
  /\ rd = "late"
  /\ IF closed THEN Return("closed", 0)
     ELSE CASE ov["read"].st = "ok"      -> Goto("last")
            [] ov["read"].st = "aborted" -> Return("nothing", 0)
            [] OTHER                     -> Return("error", 0)
  /\ UNCHANGED <<cut, driver>> /\ Quiet

Read == \/ ReadCall \/ DrainLooks \/ DrainReads \/ DrainWakes
        \/ DrainTimesOut \/ DrainGivesUp
        \/ Arm \/ ReadWakes \/ ReadTimesOut \/ ReadCancels \/ ReadSettles
-----------------------------------------------------------------------------
(* Write and SendBreak, called by the connections. *)

Unread == UNCHANGED <<line, handle, closed, reader, cl>>

WriteCall(pc) ==
  /\ wr = "idle" /\ calls < MaxCalls /\ ioMu = "free"
  /\ calls' = calls + 1
  /\ IF closed THEN UNCHANGED <<wr, ioMu>> ELSE wr' = pc /\ ioMu' = "writer"
  /\ UNCHANGED <<quit, driver>> /\ Unread

Leave == wr' = "idle" /\ ioMu' = "free" /\ UNCHANGED calls

WriteIssues ==
  /\ wr = "write"
  /\ \/ gone /\ Leave /\ UNCHANGED driver
     \/ ~gone /\ Issue("write", "out", calls, 0) /\ wr' = "parked"
        /\ UNCHANGED <<calls, ioMu>>
  /\ UNCHANGED quit /\ Unread

(* The result is the one in the structure. *)
WriteWakes ==
  /\ wr = "parked" /\ sig["write"]
  /\ sig' = [sig EXCEPT !["write"] = FALSE]
  /\ Leave
  /\ UNCHANGED <<quit, ops, ov>> /\ Unread

(* 5 seconds: cancelled, and reported as an error without its completion. *)
WriteGivesUp ==
  /\ wr = "parked" /\ ~sig["write"]
  /\ CancelIoEx("write")
  /\ quit' = TRUE
  /\ Leave
  /\ Unread

(* The line is held in break for 250 ms, under the lock. *)
BreakEnds ==
  /\ wr = "break"
  /\ Leave
  /\ UNCHANGED <<quit, driver>> /\ Unread

Write == \/ WriteCall("write") \/ WriteIssues \/ WriteWakes \/ WriteGivesUp
         \/ WriteCall("break") \/ BreakEnds
-----------------------------------------------------------------------------
(* Close, once. *)

CloseMarks ==
  /\ cl = "idle"
  /\ closed' = TRUE /\ cl' = "marked"
  /\ UNCHANGED <<line, handle, ioMu, reader, writer, driver>>

CloseCancels(s, from, to) ==
  /\ cl = from /\ cl' = to
  /\ CancelIoEx(s)
  /\ UNCHANGED <<line, handle, closed, ioMu, reader, writer>>

(* [fault] Closes the handle without waiting for the calls it woke. *)
CloseAtOnce ==
  /\ cl = "cancelled"
  /\ handle' = FALSE /\ cl' = "done"
  /\ UNCHANGED <<line, closed, ioMu, reader, writer, driver>>

(* Takes the lock, closes the handle and the events, lets go. *)
CloseReleases ==
  /\ cl = "cancelled" /\ ioMu = "free"
  /\ handle' = FALSE /\ cl' = "done"
  /\ UNCHANGED <<line, closed, ioMu, reader, writer, driver>>

Close == \/ CloseMarks \/ CloseCancels("read", "marked", "half")
         \/ CloseCancels("write", "half", "cancelled") \/ CloseReleases

WriteGoesOn == WriteIssues \/ WriteWakes \/ WriteGivesUp \/ BreakEnds

WinNext == Driver \/ Read \/ Write \/ Close
=============================================================================
