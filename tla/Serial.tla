------------------------------- MODULE Serial -------------------------------
(* Package serialport as one build has it: the Windows driver or the Linux one,
   behind the interface the hub's workers and connections use. *)
EXTENDS WinPort, LinuxPort, PortNames

VARIABLE os

serialVars == <<os, winVars, linuxVars>>

PortInit == os \in {"windows", "linux"} /\ Open /\ LinuxOpen

Win(A)   == os = "windows" /\ A /\ UNCHANGED <<os, linuxVars>>
Linux(A) == os = "linux" /\ A /\ UNCHANGED <<os, winVars>>

WindowsStep == os = "windows" /\ WinNext /\ UNCHANGED <<os, linuxVars>>
LinuxStep   == os = "linux" /\ LinuxNext /\ UNCHANGED <<os, winVars>>

PortNext == WindowsStep \/ LinuxStep

PortSpec == PortInit /\ [][PortNext]_serialVars

(* Every goroutine runs, and every wait ends at its time-out at the latest. *)
PortFairSpec ==
  /\ PortSpec
  /\ WF_serialVars(Win(Read)) /\ WF_serialVars(Win(WriteGoesOn))
  /\ WF_serialVars(Win(Close /\ cl # "idle"))
  /\ WF_serialVars(Linux(LinuxRead)) /\ WF_serialVars(Linux(WriteSome))
  /\ WF_serialVars(Linux(LinuxClose /\ cls.pc # "idle"))
-----------------------------------------------------------------------------
PortTypeOK == WinTypeOK /\ LinuxTypeOK

(* The handle and the events are closed only when no call is between its lock
   and its unlock, and, with a driver that cancels at once, when it holds no
   operation that would complete into them ("Closing the handles while an
   operation was still pending would leave the driver writing into a freed event
   object"). Linux has no lock: there only a call that was under way when Close
   began holds the device's number, and it reaches another port's device, if it
   does, only once Close freed that number. *)
NothingInUseIsFreed ==
  /\ ~handle => /\ rd = "idle" /\ wr = "idle"
                /\ lazy \/ ops = {}
  /\ cls.pc # "idle" /\ ~during => rdr.fd = -1
  /\ stolen \/ astray => cls.pc = "done"

(* No operation was left with the driver when its structure was used again: the
   driver cancels at once, or no call on that structure gave up on one. *)
Orderly(s) == ~lazy \/ (IF s = "read" THEN ~cut ELSE ~quit)

(* A structure belongs to one operation at a time, and a call that wakes takes
   the result of its own operation. A lazy driver breaks that only after a write
   or a drain gave up on an operation and left it behind: the completion that
   comes late wakes the next call, whose own operation is then left in turn. The
   reader's wait for an event never does that: it takes its completion first. *)
OneOperationEach ==
  \A s \in Structs : Orderly(s) =>
    /\ \A a, b \in On(s) : a = b
    /\ sig[s] /\ (IF s = "read" THEN rd \in {"parked", "filing"} ELSE wr = "parked")
         => On(s) = {}

(* Nothing that waits is robbed of what it waits for. *)
ResourcesOwned == NothingInUseIsFreed /\ OneOperationEach

(* No byte waits in the driver's queue under a reader that is asleep (the queue
   is emptied before the wait, and what comes in between is latched); none is
   returned twice, and none is dropped unless a drain gave up. On Linux a
   device that hangs up is read to its end first. *)
NoByteForgotten ==
  /\ rd = "parked" /\ ~sig["read"] /\ Orderly("read") => rx = 0
  /\ ~cut => arrived = rx + got + lied +
               (IF rd \in {"filing", "overdue"} /\ ov["read"].st = "ok"
                THEN ov["read"].n ELSE 0)
  /\ came = queue + read
  /\ rdr.ret = "gone" /\ ~during => queue = 0

(* Before anything is read or written: Discover names every port once. *)
PortsNamedOnce == arrived = 0 /\ came = 0 => NamedOnce

(* Close always gets through, whatever the line, the driver and the goroutines
   parked in Read and Write do, and the reader finds out. *)
CloseGetsThrough ==
  /\ closed ~> (~handle /\ (ret \in {"closed", "error"}))
  /\ (fd = -1) ~> (cls.pc = "done" /\ rdr.ret \in {"closed", "gone", "error"})
=============================================================================
