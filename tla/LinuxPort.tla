----------------------------- MODULE LinuxPort -----------------------------
(* The Linux serial driver: src/internal/serialport/serialport_linux.go.

   There is no lock. Read and Write load the descriptor number once and use it
   in later system calls; Close swaps the two numbers for -1 and closes them.
   Between those steps the kernel may give the numbers to the next file the
   process opens, and in a daemon that is another port. *)
EXTENDS Integers, FiniteSets

CONSTANTS
  LinuxBytes,  \* bytes the line delivers
  LinuxBuf,    \* the reader's buffer
  LinuxWrite   \* the length of a write

ASSUME LinuxPortAssumption == {LinuxBytes, LinuxWrite} \subseteq Nat /\ LinuxBuf \in Nat \ {0}

VARIABLES
  fd, epfd,   \* the Port's numbers, -1 once it is closed
  files,      \* what each number of the process refers to
  rdr,        \* Read: where it is, the numbers it loaded, how the last one ended
  during,     \* the Read in progress was in progress when Close ran
  wrt,        \* Write: where it is, the number it loaded, bytes left, how it ended
  cls,        \* Close: where it is and the numbers it holds
  queue,      \* bytes in the port's input queue
  came, read, \* bytes that came, bytes Read returned
  hup,        \* the device is on its way out
  full,       \* the output queue accepts nothing
  stolen,     \* another port's bytes were returned by this port's Read
  astray      \* this port's bytes were written to another port

linuxVars == <<fd, epfd, files, rdr, during, wrt, cls, queue, came, read, hup,
               full, stolen, astray>>
tty      == <<queue, came, hup, full>>
harm     == <<stolen, astray>>

Numbers == 3 .. 6
Files   == {"free", "tty", "epoll", "tty2", "epoll2"}

LinuxTypeOK ==
  /\ {fd, epfd} \subseteq Numbers \cup {-1}
  /\ files \in [Numbers -> Files]
  /\ rdr \in [pc : {"idle", "half", "loaded", "waiting", "stray", "ready", "hup"},
              fd : Numbers \cup {-1}, epfd : Numbers \cup {-1},
              ret : {"none", "data", "nothing", "closed", "gone", "error"}]
  /\ wrt \in [pc : {"idle", "writing"}, fd : Numbers \cup {-1},
              left : 0 .. LinuxWrite, ret : {"none", "all", "closed", "stalled", "error"}]
  /\ cls \in [pc : {"idle", "half", "swapped", "closing", "done"},
              fd : Numbers \cup {-1}, epfd : Numbers \cup {-1}]
  /\ {queue, came, read} \subseteq 0 .. LinuxBytes
  /\ {during, hup, full, stolen, astray} \subseteq BOOLEAN

(* Open: the device first, then the epoll instance that watches it. *)
LinuxOpen ==
  /\ fd = 3 /\ epfd = 4
  /\ files = [n \in Numbers |-> CASE n = 3 -> "tty" [] n = 4 -> "epoll" [] OTHER -> "free"]
  /\ rdr = [pc |-> "idle", fd |-> -1, epfd |-> -1, ret |-> "none"]
  /\ wrt = [pc |-> "idle", fd |-> -1, left |-> 0, ret |-> "none"]
  /\ cls = [pc |-> "idle", fd |-> -1, epfd |-> -1]
  /\ queue = 0 /\ came = 0 /\ read = 0
  /\ during = FALSE /\ hup = FALSE /\ full = FALSE /\ stolen = FALSE /\ astray = FALSE

FileAt(n) == IF n \in Numbers THEN files[n] ELSE "free"
-----------------------------------------------------------------------------
(* The line, and the daemon's other port: its Open takes the lowest number that
   is free, twice. *)

LinuxLine ==
  /\ \/ /\ ~hup /\ came < LinuxBytes
        /\ came' = came + 1 /\ queue' = queue + 1
        /\ UNCHANGED <<hup, full>>
     \/ ~hup /\ hup' = TRUE /\ UNCHANGED <<queue, came, full>>
     \/ full' = ~full /\ UNCHANGED <<queue, came, hup>>
  /\ UNCHANGED <<fd, epfd, files, rdr, during, wrt, cls, read, harm>>

OtherOpens ==
  /\ \E n \in Numbers, f \in {"tty2", "epoll2"} :
       /\ files[n] = "free" /\ \A k \in Numbers : files[k] = "free" => n <= k
       /\ \A k \in Numbers : files[k] # f
       /\ f = "epoll2" => \E k \in Numbers : files[k] = "tty2"
       /\ files' = [files EXCEPT ![n] = f]
  /\ UNCHANGED <<fd, epfd, rdr, during, wrt, cls, tty, read, harm>>
-----------------------------------------------------------------------------
(* Read. *)

EndRead(r, n) ==
  /\ rdr' = [pc |-> "idle", fd |-> -1, epfd |-> -1, ret |-> r]
  /\ read' = read + n /\ queue' = queue - n

ReadLoads ==
  /\ \/ /\ rdr.pc = "idle" /\ rdr.ret \notin {"closed", "gone", "error"}
        /\ rdr' = [rdr EXCEPT !.pc = "half", !.epfd = epfd]
        /\ during' = FALSE
        /\ UNCHANGED <<queue, read>>
     \/ /\ rdr.pc = "half"
        /\ IF rdr.epfd < 0 \/ fd < 0 THEN EndRead("closed", 0)
             ELSE /\ rdr' = [rdr EXCEPT !.pc = "loaded", !.fd = fd]
                  /\ UNCHANGED <<queue, read>>
        /\ UNCHANGED during
  /\ UNCHANGED <<fd, epfd, files, wrt, cls, came, hup, full, harm>>

(* epoll_wait begins: from here on the kernel holds the file, not the number. *)
PollBegins ==
  /\ rdr.pc = "loaded"
  /\ CASE FileAt(rdr.epfd) = "epoll"  -> rdr' = [rdr EXCEPT !.pc = "waiting"] /\ UNCHANGED <<queue, read>>
       [] FileAt(rdr.epfd) = "epoll2" -> rdr' = [rdr EXCEPT !.pc = "stray"] /\ UNCHANGED <<queue, read>>
       [] OTHER                       -> EndRead("error", 0)
  /\ UNCHANGED <<fd, epfd, files, during, wrt, cls, came, hup, full, harm>>

Watched == \E n \in Numbers : files[n] = "tty"

(* It ends: input, a hang-up, a signal, or the time-out. A device whose last
   number was closed is watched no longer. *)
PollEnds ==
  /\ \/ /\ rdr.pc = "waiting" /\ Watched /\ (queue > 0 \/ hup)
        /\ rdr' = [rdr EXCEPT !.pc = IF hup THEN "hup" ELSE "ready"]
        /\ UNCHANGED <<queue, read>>
     \/ /\ rdr.pc = "stray"
        /\ rdr' = [rdr EXCEPT !.pc = "ready"]
        /\ UNCHANGED <<queue, read>>
     \/ rdr.pc \in {"waiting", "stray"} /\ EndRead("nothing", 0)
  /\ UNCHANGED <<fd, epfd, files, during, wrt, cls, came, hup, full, harm>>

(* read(2) on the number loaded earlier. A device that hangs up is drained
   first: gone is what an empty one is. *)
Reads ==
  /\ rdr.pc \in {"ready", "hup"}
  /\ LET n == IF queue < LinuxBuf THEN queue ELSE LinuxBuf
         f == FileAt(rdr.fd)
     IN  /\ CASE f = "tty" /\ n > 0 -> EndRead("data", n)
              [] f = "tty2"         -> EndRead("data", 0)
              [] f = "tty" /\ n = 0 /\ rdr.pc = "ready" -> EndRead("nothing", 0)
              [] OTHER -> EndRead(IF rdr.pc = "hup" THEN "gone" ELSE "error", 0)
         /\ stolen' = (stolen \/ f = "tty2")
  /\ UNCHANGED <<fd, epfd, files, during, wrt, cls, came, hup, full, astray>>
-----------------------------------------------------------------------------
(* Write: all of it, in as many write(2) calls as the line needs. *)

WriteLoads ==
  /\ wrt.pc = "idle" /\ wrt.ret \in {"none", "all"}
  /\ wrt' = IF fd < 0 THEN [wrt EXCEPT !.ret = "closed"]
                      ELSE [pc |-> "writing", fd |-> fd, left |-> LinuxWrite, ret |-> "none"]
  /\ UNCHANGED <<fd, epfd, files, rdr, during, cls, tty, read, harm>>

WriteSome ==
  /\ wrt.pc = "writing"
  /\ LET f == FileAt(wrt.fd)
         Ends(r) == wrt' = [wrt EXCEPT !.pc = "idle", !.fd = -1, !.left = 0, !.ret = r]
     IN  /\ \/ /\ (f = "tty" /\ ~full /\ ~hup) \/ f = "tty2"
               /\ IF wrt.left > 1 THEN wrt' = [wrt EXCEPT !.left = @ - 1] ELSE Ends("all")
            \/ f = "tty" /\ full /\ ~hup /\ Ends("stalled")
            \/ ((f = "tty" /\ hup) \/ f \in {"free", "epoll", "epoll2"}) /\ Ends("error")
         /\ astray' = (astray \/ f = "tty2")
  /\ UNCHANGED <<fd, epfd, files, rdr, during, cls, tty, read, stolen>>
-----------------------------------------------------------------------------
(* Close: two swaps, then two closes. *)

LinuxClose ==
  /\ \/ /\ cls.pc = "idle"
        /\ cls' = [pc |-> "half", fd |-> -1, epfd |-> epfd] /\ epfd' = -1
        /\ during' = (rdr.pc # "idle")
        /\ UNCHANGED <<fd, files>>
     \/ /\ cls.pc = "half"
        /\ cls' = [cls EXCEPT !.pc = "swapped", !.fd = fd] /\ fd' = -1
        /\ UNCHANGED <<epfd, files, during>>
     \/ /\ cls.pc = "swapped"
        /\ cls' = [cls EXCEPT !.pc = "closing"]
        /\ files' = [files EXCEPT ![cls.epfd] = "free"]
        /\ UNCHANGED <<fd, epfd, during>>
     \/ /\ cls.pc = "closing"
        /\ cls' = [cls EXCEPT !.pc = "done"]
        /\ files' = [files EXCEPT ![cls.fd] = "free"]
        /\ UNCHANGED <<fd, epfd, during>>
  /\ UNCHANGED <<rdr, wrt, tty, read, harm>>

LinuxRead  == ReadLoads \/ PollBegins \/ PollEnds \/ Reads
LinuxNext  == LinuxLine \/ OtherOpens \/ LinuxRead \/ WriteLoads \/ WriteSome \/ LinuxClose
=============================================================================
