# sercon in TLA+

sercon lets several people use the serial consoles of a jump host over ssh. A
capture daemon (`sercond capture`, or `sercon-gui` with its window) holds the
serial ports open, logs all they say and serves any number of clients;
`sercond session`, started by ssh, is a pipe between a client and the daemon's
socket; `sercon` is the client.

This directory specifies the program from the device drivers to the client's
terminal and the windows on the jump host's desktop, checks it with TLC and
proves the central results with TLAPS.

    tlc -workers 2 -config hub_one_port.cfg MCHub.tla     # one run
    tlapm HubProofs.tla                                   # the proofs

## Inventory

| part | code | state | operations | hard because |
|---|---|---|---|---|
| Hub: manager | `internal/hub/hub.go` | registered ports, connections, `closed`, the wait group | Start, Sync (rediscovery), Close | Close meets workers, the scanner and clients anywhere; no Add after Wait |
| Hub: port and worker | `internal/hub/hub.go` | device handle, online, running, rate, log writer, owner, clients | worker loop: open, read, fan out, back off; write, break, shutdown, release | device loss, retries, three goroutines on one handle |
| Hub: connections | `internal/hub/conn.go` | attached port, right to type, queue, `done` | hello, list, open, close, input, break, ping, status, stop; kill, detach, shutdown | an attachment is two records under two locks, taken one after the other |
| Output path | `hub.go` ring, fanout; `conn.go` enqueue, send, writeLoop | ring, bounded queues | fan out, notice, attach with backlog, write out | slow clients, the seam between backlog and live output |
| Frame protocol | `internal/proto` | the reader's buffer | Next, Write | frames cut at any byte |
| Port log, audit | `internal/portlog`, `internal/audit` | buffer, open file, day, sticky error | Write, Note, Flush, rotation, Close | rotation at midnight, errors, use after Close |
| Daemon life cycle | `internal/ipc`, `internal/daemon`, `cmd/sercond/main.go` | the socket file, the listener, the process | Alive, Listen, Ensure, capture, session, stop | several starters, crashes, an old daemon still closing |
| Relay | `internal/relay`, `cmd/sercond/relay.go` | rooms with idle publishers and waiting attachers | register, pair, splice, time out, reconnect | two connections of one session handled by two goroutines |
| Client: attach | `cmd/sercon/attach.go` | link, escape state, heartbeat, local log | connect, pump input and output, reconnect | a link lost in the middle of anything; goroutines that outlive their session |
| Client: run | `cmd/sercon/run.go` | transcript, mark, program | send a line, wait for a match, sleep | time-outs against late output |
| Client: command line | `cmd/sercon/main.go` | none | reorderArgs, quoting, dial, readUntil, list, status, stop | text that must mean the same at the other end |
| Serial drivers | `internal/serialport` | handle or descriptors, overlapped structures, closed flag | Open, Read, Write, SendBreak, Close, Discover | Close against Read and Write; results that come late |
| Configuration | `internal/config` | none | Load | defaults and limits |
| ssh keys | `internal/sshauth` | the key file and its access list | KeyFile, Parse, AddAll, Remove, load and write, elevated or not | a file that others edit, a helper that runs on its own |
| Key panel | `cmd/sercon-gui/keys*.go` | content last loaded, busy, generation | reload, add, remove, take completions | jobs of different generations, boxes with loops of their own |
| Main window | `cmd/sercon-gui` | port table shown, tweens, timers, boxes, `remoteStop` | start, refresh, animate, paint, commands, close | two timers, nested loops, a stop from a client |
| Terminal, version, tools | `internal/term`, ... | | | operating system calls |

How they interact: clients speak the frame protocol to a connection, which calls
into the manager (Resolve, RequestShutdown) and a port (attach, write, break); a
port's worker calls every attached connection's enqueue under the port's lock;
the lock order is manager, then port; a connection's own lock is never held with
another. Worker, connections and Close share the driver's handle. The daemon's
main loop accepts connections from the endpoint and calls Close at the end; the
GUI is a daemon that polls the manager's port table and has a window whose end
is the daemon's. The relay joins a publisher, which dials the daemon's socket,
to an attacher, and copies bytes.

What makes each part correct:

* hub: one writer per port, at any point between two critical sections; the two
  records of an attachment agree; nothing stays held by a client that left; one
  worker per port; Close ends, and leaves no device open; a worker never gives up.
* output path: every client's stream is an unbroken piece of the port's output;
  a full queue cuts its own client off and costs nobody else anything; the log
  is complete.
* daemon life cycle: one daemon per socket; a starter ends with a daemon to talk
  to, or says so.
* relay: both ends of a pair are paired with each other and with nobody else;
  waiting publishers and attachers meet; a pair ends together and a room with
  its last peer; bytes keep their order.
* port log: what is written is in the file in order, whole, and in the file of
  its day; a closed log stays closed.
* client: what is typed is what the port gets, commands cut out and nothing
  else; what the port says is shown once; a wait matches output of its own; a
  dead link is left, unless a blocked write holds it; arguments, commands and frames mean the same at both ends.
* drivers: nothing is freed while it is in use; a call gets its own result; no
  byte waits under a sleeping reader; Close gets through; every port is named once.
* keys and panel: what the panel shows after a job that worked is the file; an edit
  changes what was asked and nothing else; the file is the one sshd reads; no job
  leaves the panel busy. The first and the third hold with exceptions only, which
  `SaidIsSo` and `RightFile` state.
* main window: it shows the port table, rests when nothing moves, and obeys a
  client's stop.

## Modules

| module | models | proved about in |
|---|---|---|
| `Hub` | manager, ports, workers, connections, closing | `HubProofs` |
| `Lease` | what the hub promises its clients; `Hub` refines it | `HubProofs` |
| `Stream` | the output path of one port, byte for byte | `StreamProofs` |
| `Endpoint` | daemons, sessions and the socket file | `HostProofs` |
| `PortLog` | the writer of one port's log files | `PortLogProofs` |
| `Relay` | the relay server: rooms, pairs, splices | `RelayProofs` |
| `Client` | what all client commands share: dial, hello, open, frames of both ways | `SerconProofs` |
| `Attach`, `Script` | the two commands with a session: `attach` and `run` | `SerconProofs` |
| `Text` | arguments, quoting, escapes, scripts and frames as functions on texts | |
| `Sercon` | composes the four as one process with user, daemon and link | `SerconProofs` |
| `WinPort`, `LinuxPort` | the two drivers with the operating system under them | `HostProofs` |
| `PortNames` | discovery, the order and form of port names | |
| `Serial` | composes the three | `HostProofs` |
| `AuthKeys` | lines of a key file; parse, add, remove | `DesktopProofs` |
| `KeyFile` | which file sshd reads, and what the code finds | `DesktopProofs` |
| `Keys` | the key panel, its jobs, the elevated helper and the file | |
| `Window` | the main window from start to end | |
| `Desktop`, `DesktopProofs` | composes `Keys` and `Window`; proofs about both | |
| `Select` | a loop that keeps some elements of a slice, used by `AuthKeys` and by properties of `Sercon` | `FlattenProofs` |
| `FlattenProofs` | nothing: lemmas about `FlattenSeq`, a community operator `Stream`, `PortLog` and `Select` are built from, and about `Only` | |
| `MC...` | instances for TLC: symmetry, chunks, programs, files | |

### Hub

One action is one critical section of the code, or one effect outside all locks;
every unlock is a point at which the other goroutines run. The program counters
`wpc` (a port's worker), `rpc` (a connection's read loop and the handler it is
in), `closer` (Manager.Close) and `scan` (the rediscovery goroutine) say where
each goroutine is; `loc` holds the locals of a handler that survive an unlock,
as the captured log writer. A handler is a chain of actions:

    open:    RecvOpen -> Unlink -> CloseLog -> Attach -> Bind -> Ensure -> OpenLog -> Reply
             (Unlink and CloseLog only if attached; AttachFails -> Reply if refused)
    close:   RecvClose -> Unlink -> CloseLog -> Reply
    input:   RecvInput -> GetDevice -> DevWrite [-> Reply on an error]
    break:   RecvInput -> GetDevice -> DevWrite -> NoteLock -> NoteWrite
    the end: RecvEnd -> Unlink -> CloseLog -> Drop -> Unregister

    worker:  WTop -> WOpen -> WOnline -> WRead* -> WReadFails -> WOffline -> WClose -> WClear
             WTop -> WOpenFails -> WOffline -> WSleep;   WRelease when the manager closes
    Close:   Close -> CloseKill* -> (CloseShut -> CloseDevice)* -> CloseWait -> CloseRelease* -> CloseReturn

`Kill` is a kill of any other goroutine (a failed write, a full queue, the idle
watchdog). `Finished` lets the stopped system stutter, so that any other state
without a step counts as a deadlock. Abstracted: what references resolve to, the
texts and labels, the byte counters, the back-off times, what is read (module
Stream). The operators marked `[fault]` in the modules are mistakes the
properties are tried against; no behaviour contains them.

### Lease

`holder[p]` may type into p, `members[p]` see its output; a client acquires,
watches or leaves. `Hub!ImplementsLease` maps `owner` and `pconns` onto them.

### Stream

Bytes are numbers in the order the device sends them, so a loss, a repetition or
a change of order shows. `WRead` puts a chunk in the ring outside `p.mu`, `WFan`
queues it for every attached client inside, `WLog` logs it after; `WBlip` and
`WNotice` are the notices of a device that goes and comes back. A client attaches
once (`Open`, with the backlog), may detach, is killed at any time, and has a
writer goroutine (`Take`, `Write`). A client that opens again gets a new stream
that begins with a new backlog, which is the same question once more. `Wedged`
clients attach and never read; they leave only by being cut off.

### Endpoint

One action is one system call on the socket file. A daemon (`dpc`) goes

    lstat -> probe -> remove -> bind -> listen -> start -> serve      Listen, cmdCapture
    serve -> unlink -> shut -> release -> cleanup -> gone             ln.Close, Manager.Close,
                                                                      the deferred os.Remove

and gives up at `probe`, `remove` or `bind`; a failing start takes the way out
without the devices; `Crash` kills it anywhere, which closes its socket and
leaves its file. `path` is the daemon that made the file (`Leftover`: one from
before), `ln` its listener, `hw` whether it holds the devices. A session (`spc`)
is `cmdSession` with `Ensure`: look, spawn, poll, dial. `net.Listen` binds and
listens in two calls and `Close` of its listener unlinks the path before it
closes the socket; that is the Go library's behaviour, which the code relies on.
`overlap` is a history variable: a launch has overlapped with another one or
with the end of a daemon. Abstracted: the connections themselves, `Accept`
(the kernel accepts for a listener that is open), creating directories.

### PortLog

One action is one call, as the writer's mutex is held throughout; the clock is
read inside and may have passed midnight (`Now`). A buffer and a file are
sequences of items: numbered bytes that end a line or do not, stamps, notes,
headers. `Outcomes` is what `flushLocked` can come to: all is written; the file
or its header cannot be; or a first part of the buffer is on disk and the rest
is not (cut between items). `Write` makes the error sticky, `Note` and `Close`
do not. `Restart` is the daemon dying and a new writer on the same files. A
`Stat` that fails on a file just opened is left out. `ended` and `lost` record
what was promised and what went down with a daemon.

### Relay

A peer is one connection and `pc` the place of its handler in `ServeConn`:

    hello -> greet -> wait -> pair -> splice -> both -> sweep -> sweep2 -> drain -> done
    hello -> greet2 -> pair          a partner was waiting
    wait -> close -> done            the pair time-out; other failures go to close, too

`queue` is `room.idle` and `room.waiting`, `tok` the token of a room that exists.
Registering and unregistering are one action each (the server's lock), every
reply and every chunk a read or a write of its own. `copy` and `hand` are the two
goroutines of a splice: `in` copies from the handler's own peer to the partner,
`out` the other way; as both handlers of a pair splice it, four goroutines copy.
A chunk is what one read returns. The client's side of a connection is `sent`,
`outbox`, `unread` and `gone`. A connection holds `PipeSize` chunks that its client
has not read (`Take`); a write to a full one waits without a deadline, as that of
`io.Copy` does, until there is room or the connection is closed; a write to a client
that has gone may succeed, wait or fail. `Drain` is the splice's second wait. The package is not wired into the program
(relay.go:5).

### Client, Attach, Script, Text, Sercon

A session is numbered by its dial, and everything its goroutines use is kept per
session, since a goroutine of an earlier session may outlive it. `pc` is the main
goroutine: `main -> dial -> hello -> open -> ready -> ...`; `inp`, `outp` and
`quiet` are the three goroutines of an attached session (`pumpInput`,
`pumpOutput`, the heartbeat), `link[s]` the connection: up, silent (it carries
nothing and says nothing), full, cut, or closed by us. A session has one
`proto.Writer`, which writes and flushes under its lock; on a silent link the pipe
to ssh fills up, and the write that finds no room (`WriteBlocks`, `PingBlocks`,
`SendBlocks`) does not return and keeps the lock. That is `full`: whoever else
writes in the session waits (`Waits`), the heartbeat included, until ssh ends or
the pipe is closed; then the blocked write fails (`WriteFails`, `SendFails`), and
`held[s]` is the rest of the read it was part of. `up[s]` and `down[s]` are the
frames under way; of the daemon there is only its side of the conversation (Hub
and Stream are the daemon). Keys are records of what kind they are and where
they stand in what was typed, so that a loss or an exchange shows; a read returns
one or more of them, and the escape state carries over. `Attach` has the end of a
session (whichever goroutine or signal is first, then 500 ms for the others), the
reconnection with its doubling back-off, and the local log. `Script` has the
program of `run` (send, wait, sleep), the collecting goroutine, the bounded
transcript with its mark, and what makes the exit status.

`Text` is evaluated in the states before anything is dialled: `reorderArgs` puts
flags first without changing what any argument means; `shellQuote` and the remote
command are read back by a POSIX shell into the same words; `unescape` and the
script parser give one step per line or an error (that a `wait` or `sleep` with an
argument that does not parse is an error, too, run.go:253-264, is left out: what parses
is the libraries' matter); frames that arrive in any
pieces are read back as they were written, and a truncated one is an error.
Bounded inputs: up to 4 arguments, texts of up to 4 characters out of
those that matter, frames cut at every byte.

### WinPort, LinuxPort, PortNames, Serial

In `WinPort` one reader, one writer (or break) and one Close use the port as the
hub does; one action is one system call or one section of `ioMu`. `ops` are the
overlapped operations the driver has, `ov` and `sig` the two structures and
their events. The line delivers, stalls, or is pulled; the driver completes,
counts a byte it does not deliver (`ClearCommError`), and completes a cancelled
operation before `CancelIoEx` returns or, if `lazy`, later. `cut` and `quit` record that a
drain or a write gave up on its operation. What `OneOperationEach` says ends
there for a lazy driver, although the comments of Read and Write say that a
structure is cleared before it is reused (serialport_windows.go:285-290,
:489-491): neither waits for the completion of what it cancelled, so it comes
to the next call on that structure, which takes it for its own and leaves its
own operation behind. `LinuxPort` has no
lock: every system call is an action and works on the numbers loaded before it;
`files` says what each number of the process refers to, `OtherOpens` lets the
process open another port's device on a number that Close has freed. `PortNames`
is evaluated in the initial state for every set of registry values and of device
links over a few names. `Serial` takes one build at a time.

### AuthKeys, KeyFile, Keys

A line of a key file is its first word, the form of the second and its
fingerprint, and the rest; `parseKeys`, `AddAll` and `Remove` work on such lines
and are compared in the initial states with what an edit must do (`AddIsExact`,
`RemoveIsExact`), `KeyFile` for every account, one of the machine or of a domain,
with which file sshd reads: `RightFile` says for which of them the two agree. The
lookup of the account's groups is by its bare name and fails for an account of a
domain, which the code takes for no group (platform_windows.go:280). In `Keys` the panel's state belongs to the window's thread; a job
and its helper are one record in `jobs`; a helper goes on when the job has given
up, and when the program has ended. `slip` and `orphaned` record what the program
cannot see: that the helper's copy failed although icacls did not, that the result
file was read before `type` had filled it or without the file, and that a helper of
an earlier run of the program has copied. The atomic write is three steps, each of
which can fail. Failures of the system calls, the answer to the elevation prompt
and the helper's console window being closed are choices.

### Window, Desktop

Of what is drawn only the moving values are kept: a counter for each number of
the footer, a row for each port, one highlight. A timer's message is taken only
when nothing else waits, as Windows makes it; a message box is a loop inside a
handler, so boxes nest and return innermost first. `life` goes

    config -> manage -> listen -> start -> create -> open -> listener -> manager -> socket -> quit -> ended

and to `failed` from each place of the start. `Desktop` takes the panel or the
window, not both at once: they run on one thread and share no variable, the
window's commands for the panel and the end of the program being actions of Keys
that are always possible.

## Runs

| run | instance | shows |
|---|---|---|
| `hub_one_port` | 2 clients, 1 port, 1 observer allowed | types, the attachment invariant, one writer, authority of every write, nothing leaks, refinement of Lease |
| `hub_two_ports` | 1 client, 2 ports | one attachment at a time; `WorkersAccounted`: the wait group counts the goroutines that run, none starts after Wait, a clean stop |
| `hub_liveness` | 1 client, 1 port, `HealthySpec` | `DroppedLeaves`: dropped clients end; `WorkersServe`: Close ends, the worker reconnects |
| `stream` | 1 client that reads and 1 that never does, ring 2, queue 2, 3 bytes in chunks of 1 to 3 | `StreamIsWhole`: ring, gaps, the seam, the log; `NobodyHeldUp`: delivery, a wedged client disturbs nobody |
| `endpoint` | 3 daemons, 3 sessions, 1 failure, stop or death | the take-over of the socket, recovery |
| `portlog` | 4 bytes, 2 notes, 2 days, 1 failed flush, any restarts | `LinesKept`: lines in their day's file, no hole; `FilesReadable`: headers, stamps, closing |
| `relay` | 3 connections that hold 1 chunk each, 1 room, 2 tokens; 1 chunk, or 3 of one client to its partner | pairing, queues, rooms, the chunks' way, nobody stuck |
| `sercon` | 2 dials of which the first may fail, terminal and pipe, 2 programs | `KeysMeanWhatWasTyped`, `ConsoleComplete`, `NextMatch`, `DeadLinkIsLeft`, `MeaningKept` (Text) |
| `serial` | 2 bytes, buffers of 1, 2 writes or breaks, 1 false count; both kinds of driver; Linux: 2 bytes, a write of 2 | `ResourcesOwned`, `NoByteForgotten`, `CloseGetsThrough`, `PortsNamedOnce` |
| `desktop` | panel: 2 slots, 3 jobs, 2 starts, 2 files, 3 inputs; window: 1 port, 2 changes, 3 clicks, 2 boxes | `SaidIsSo`, `EditsAreExact`, `WaitsEnd`, `ScreenCatchesUp` |
| `relay_order`, `keys_stale` | small | findings, below |

Properties with several parts are conjunctions of named definitions, each with
its own comment in the module.

Bounds. Two clients suffice for the contention on one port: who is the writer,
an observer and the limit, a leaving writer and a waiting one. The second port
matters for a client that moves and for Close's loops, where one client does.
Each connection is used once, and a new one begins in the same state as any
other; there is no bound on the messages a client sends. In Stream the ring is
shorter than what is sent, a chunk can be as long as the ring, longer or
shorter, and the queues overflow. `MaxByte` bounds what the device sends;
`Silent` lets the system rest there. Three daemons are an old one, its successor
and a rival of the successor; with one failure any of them may be stopped, fail
or die at any point (the theorems have no bound). In PortLog a buffer of four
items is due without a line end, so that lines are flushed whole, in parts and
not at all; one midnight and one failed flush meet every call. In Relay three
connections are a pair and one that waits before, during or after it, for the
same room or for the next of that name; one chunk meets all four goroutines.
`MaxCrowded` keeps it at one while a third connection is or was there; where the
third never registers, one client may send three (`MaxChunks`), which over connections
that hold one fill a connection and block both copiers towards it. `relay_order` sends two, over
connections that hold both. The second token matters only within a room, and rooms
share nothing.

In Sercon two sessions are one that fails and the one after it, in which the
goroutines of the first still run. `MaxTty` (3) and `MaxPiped` (4) bound the sum
of dials, chunks and keys: an escape and a command key in one read or in two, or
on both sides of a reconnection, or beside two chunks. `Kinds` are the escape, a
command that ends the session and one that writes (a break), the last two
plain keys when no escape is open; the other kinds of keys are in the model and the
proofs. `MaxCollect` of 2 makes
the transcript forget; both programs wait twice for one pattern. `MaxQuiet`
replaces the number of unanswered pings by one. In Serial two bytes and a buffer
of one leave a byte behind each read; two calls reuse a structure that an
earlier one left pending. A third write, or a second false count, would leave
two operations on one structure that nobody cancelled; the invariants were
checked there too (7.8 million states) and are proved for any number. In Desktop two slots are a job and one that was
overtaken with its helper; two starts leave a helper behind that outlives the
program; two changes are one that a roll is under way for and one that comes
meanwhile. `CHECK_DEADLOCK FALSE` in `desktop` and `keys_stale`: the program may
have ended for good, and rests when the bounds are used up.

Fairness. `Fairness` of Hub asks that the worker, the scanner, the closer and a
handler that can go on do so (the Go scheduler; device writes and frame writes
are bounded or end when the handle or connection is closed); a reply waits for
room in the queue of a client that may never read, so only the closing of
`done` forces it; a read of a live connection or of an open device need not
return anything else than time-outs. `HealthySpec` adds that a device that is
opened again and again does open; `Reconnects` is about such devices.
In Stream the device keeps sending, and only clients outside `Wedged` are asked
to read. Relay has no fairness: `NobodyStuck` says that a step is possible, and
handlers take finitely many; a client need not read, which is the exception it states. In Endpoint a process that lives runs; the failures are
finitely many, and `Recovers` speaks of the time after the last one. In Sercon
the goroutines run, and a wait of `run` that is possible again and again times
out in the end, as time passes whatever arrives (strong fairness); nothing is
asked of the user, of signals, of the daemon, of the network or of ssh's keep-alive,
and a write into a full pipe need not ever return: `DeadLinkIsLeft` holds but for
a link that is full. In Serial the reader reads again, a write and a Close
that have begun go on; every wait has a time-out in the code. In Desktop
goroutines run, the thread takes its messages, and a minimised window is
restored; the operator answers nothing.

## Findings

* `relay_order`: the publisher's handler and the attacher's both splice the pair,
  so that two goroutines copy each direction, and the second may write the chunk
  after the first's before it (server.go:260; relay.go:25 "The relay is a dumb byte pipe").
* `keys_stale`: a key is added to the content the panel last loaded, which is
  empty when that load failed (an administrator who did not elevate for it), and
  the elevated write replaces the file by that key alone (keys_windows.go:313;
  sshauth.go:213 "AddAll appends keys that are not already present").

Observed while modelling, without a run of its own.

Daemon:

* With `autoOpen` off, an open is refused because no worker has opened the
  device (conn.go:221), before the call that would start the worker
  (conn.go:298; hub.go:411).
* The rate a first attachment asks for is recorded and reported but never
  applied to the device that is open (conn.go:262).
* Listen removes a file on which nobody answered, but by then the file may be a
  live socket: another daemon had bound it and not listened yet, or has replaced
  the leftover since. The second bind succeeds and both daemons open the devices
  (ipc.go:75 "Binding is also the single-instance lock"; ensure.go:31 calls two
  clients starting at once normal). `Serial` excludes this with `overlap`.
* The listener's Close removes the file, Manager.Close takes its time, and then
  the deferred `os.Remove` of main.go:234 runs: a daemon started meanwhile loses
  its file and keeps the devices, out of every client's reach (ensure.go:7).
  sercon-gui removes the file after manager.Close, too.
* becomeDaemon leaves the manager open if Listen fails.
* A client that attaches between the ring's write and the fan-out (hub.go:586)
  receives that chunk twice, in its backlog and live (docs/design.md:91 has the
  history first and then the live stream). `SeamIsOneChunk` shows that it is
  never more than that.
* Close does not wait for the connections' handlers; one that notes after the
  release opens the log again (`file[p] = "reopened"` in Hub). The process is
  about to exit.
* `portlog.Flush` is "called on a timer" (portlog.go:144), but nothing calls it:
  a prompt without a line end is not in the file until something follows it.
* A note in the middle of a line is appended to that line; it is not a line of
  its own (portlog.go:158).
* A flush that fails half-way in `Note` is written again by the next one: what
  it had written appears twice. `NoHole` shows that nothing is missing.
* A relay peer may receive session bytes before its "paired" reply, as its
  partner's handler copies already; and a publisher that waits is timed out like
  an attacher (server.go:155; publish.go:163 "Blocks until an attacher turns up").
* The splice writes without a deadline (server.go:264, :268). While one client of a
  pair is there and does not read, both copiers towards it block, so that nobody
  reads the other's connection: if that client leaves, nobody notices, and both
  handlers stay for as long as the first one neither reads nor leaves. `NobodyStuck`
  states the exception exactly.

Client:

* Ctrl-A r drops keys typed before it in the same read, while quitting sends
  them; a break is sent ahead of keys typed before it in the same read.
* The input goroutine of a session that ended still takes the next read from the
  keyboard (attach.go:316) and, if the new session's one has not asked first,
  that read is lost.
* On a silent link whose pipe is full, the write of `pumpInput` blocks with the
  Writer's lock (proto.go:100), the next ping waits for that lock (attach.go:504),
  and the deadline that follows the ping is not looked at: nothing of sercon's own
  leaves the link until ssh's keep-alive ends ssh (main.go:237 "in about a
  minute"), and Ctrl-A x is not read meanwhile. `DeadLinkIsLeft`
  excepts exactly these states. A `send` of `run` blocks likewise, without a time-out.
* `run` has no heartbeat: on a silent link a wait runs to its time-out. It
  ignores a "closed" message, and exits with 0 although the link was lost during
  its last step.
* `reorderArgs` drops "--". The usage text's jq example selects by `.state`,
  which the listing calls `online`.

Drivers:

* With a driver that completes cancelled operations late, a drain that gave up
  or a write that timed out leaves its operation on a structure that the next
  call uses again. `OneOperationEach` states the exception exactly.
* A drain whose read completed with data just as it gave up returns 0: those
  bytes are lost. A cancel by Close that comes before the reader has issued its
  wait is noticed only at the read's time-out.
* When an adapter is pulled, Windows loses the bytes in its queue, Linux reads
  them first.
* On Linux the pending Read of a closed port ends with (0, nil), EBADF or data
  ("the pending Read fails with ErrClosed" says the doc), and a number loaded
  before Close may by then be another port's device.
* Two directories with links of one base name give two devices with one name.

Keys:

* The elevated script's EXIT is the exit code of its last command, icacls: a copy
  that failed while icacls tightened the file that is there is reported as installed
  or removed (platform_windows.go:442), although the caller is to "report the real
  outcome" (:409). `SaidIsSo` excepts it by `slip`.
* `administratorsSID` is not the SID Windows uses (18 bytes instead of 16), so that
  no token is ever found to hold it: an administrator through a group in the group,
  of a domain (the lookup by the bare name fails), or where the group has another
  name, is taken for none, and the panel works on a file sshd does not read
  (platform_windows.go:48; :60 "KeyFile returns the authorized_keys path sshd will
  actually read"). `RightFile` says for which accounts it is so.
* The result file appears before the helper is done: an answer read at once can
  be a part of the file, which is shown as if it were all of it, or a failure; and
  removing the temporary directory takes the payload from a helper that still runs.
* TightenACL on an ordinary user's own file takes that user's right to read it.
* A file that is missing is shown as an error, though Load says it is none.
* Remove leaves a blank line behind each time; a key cut off after its blob's
  header counts as a key; "\r" alone ends a line for one parser and not the other.
* A failed rename deletes the temporary file, the only copy. Edits from outside
  between load and save are overwritten (sshauth.go:248).
* Text typed into the input box while an Add runs is cleared when it completes.

Main window:

* A button's command fires on release even if the press began elsewhere
  (main_windows.go:762 says otherwise).
* Ports never leave the table (hub.go:169), so that fading out rows is not
  reachable.
* A counter whose roll begins at the repaint after a restore has no clock and
  keeps the old number until something changes (`everHidden` in
  `ScreenCatchesUp`).
* Message boxes have no owner: the main window stays enabled and boxes nest.

## Proofs

`HubProofs` proves for every set of clients and rates, every
finite set of ports and every policy, from the one assumption `HubAssumption`:

* `TypeCorrect`: `Spec => []TypeOK`.
* `AttachmentHolds`: `Spec => [](TypeOK /\ Attachment)`.
* `SingleWriterHolds`, `WriteAuthorityHolds`, `OneAttachmentHolds`,
  `NothingLeaksHolds`, each from `Attachment`.
* `LeaseImplemented`: `Spec => ImplementsLease`.
* `WorkersAccountedHolds`: `Spec => []WorkersAccounted`.

The argument. `SingleWriter` alone is not inductive: between the port's section
of an open and the connection's (`bind`), and between the two of a detach
(`unlink`), the two records differ. `At(c)` and `Types(c)` say what the
attachment of c really is at each place of its handler, and `Attachment` states
that the port's record agrees with that at every place, that an owner is a
member, and which places of a handler imply that there is no attachment
(`drop`, `attach`, ...) or a writable one (`devwrite`). Each action changes the
record of its own connection only, which is what the lemmas about it show;
the port's and the manager's actions change none (`AttachmentFrame`). The
refinement takes the three actions that change the port's record: `Attach` is
an Acquire or a Watch, where `Attachment` gives that the client is free, and
`Unlink` is a Leave; all the others stutter.

`WorkersAccounted` counts: the wait group is the number of workers that run and
the scanner. `Live` is that set of workers; starting one adds an element and one
to the count, releasing one removes both (`AccountedEnsure`, `AccountedWorker`),
and Wait passes at zero, where the set is empty. The count says nothing of which
workers there are, so `WorkersKnown` adds what each of them and its port must
look like: a port is running exactly if it has a worker, only a worker in the
right places holds a handle, only known ports have logs, and no worker starts
once `closed` is set. With this, when Close returns, no handle and no log can be
left.

`HostProofs` holds what is proved about the two parts between the hub and its
machine, the socket file and the drivers. For `Endpoint`, with every set of
daemons and sessions and every number of failures, it proves from
`EndpointAssumption` `Spec => []TypeOK`
(`TypeCorrect`), `Spec => [](Types /\ Serial)` (`SerialHolds`) and from it `InstanceHolds` and `ReachableHolds`. The two
properties alone are not inductive: that a daemon which starts is the only one
depends on where all others are. `Serial` adds that at most one daemon is on its
way in or out, that the path names it from the bind on, and that once it has got
past the probe nobody serves. A launch or a stop that would break the first
sets `overlap`, and without it `Serial` promises nothing; what is observed of
overlapping launches above shows why it cannot.

`RelayProofs` proves for every set of connections, rooms and tokens and any
number of chunks `Spec => []TypeOK` (`TypeCorrect`) and
`Spec => []OnlyThePartner` (`OnlyThePartnerHolds`), from `RelayAssumption`.
`Pairing` says who is in a list: a peer that waits, is in no pair, is there once
and gave the room's token; so that whoever is taken from a list matches. `Bytes`
says where a chunk can be: of the chunks a client has sent, those not yet read
are in order and later than all that were read, each of which is in the hand of
one of the two goroutines that copy it or was written to the partner; so that
four goroutines write each chunk at most once although they may exchange two.
For `TypeOK`, `Occupied` adds the converse for the lists: whoever waits unpaired
is in the list of its room and role, and a room has a token only while one of
its clients is past its registration; the end of the last one's handler is then
what empties the room. `Carried` says what a hand or a buffer may hold at each
place of a copy.

`StreamProofs` proves for every set of clients, every capacity of ring, chunks
and queues and any number of bytes `Spec => []TypeOK` (`TypeCorrect`: the ring is
the tail of what was sent, the log all of it) and `Spec => []StreamIsWhole`
(`StreamIsWholeHolds`), from `StreamAssumption`. A client's stream is what it
received, then what its write loop holds, then its queue, flattened: each step
of the write loop moves bytes between the three and leaves the whole as it was.
`StreamIsWhole` compares neighbours of that stream, but does not say how far it
has come, so that the next chunk may leave a hole; and it says nothing of the
seam still to come. `StreamInv` says both: a stream counts upwards with one step
back at most (`OneSeam`), an attached client stands where the last fan-out ended
or, if it took the chunk in flight from the ring, at that chunk's end and then
without a seam so far (`StandsAt`), and a client that has not opened has been
sent nothing. `WorkerHolds` gives what the ring and the log hold between the
worker's sections.

`PortLogProofs` proves for every set of chunks and every number of days, bytes,
notes and failures, with stamps or without, `Spec => []TypeOK` (`TypeCorrect`),
`Spec => []LinesKept` (`LinesKeptHolds`) and `Spec => []FilesReadable`
(`FilesReadableHolds`), from `PortLogAssumption`. The invariant `LogInv` says of
the files that none is ahead of the date and that no lost byte comes back
(`Sound`); of a writer that is not quiet that whatever is neither lost nor on
disk is buffered, in an order that goes on where the files end (`Buffered`), so
that a flush may be cut anywhere and be repeated; and, as long as no flush has
failed, that an open file has its header (`Headed`) and that a line which goes on
was begun: from the files to the buffer, and from there to what comes next
(`Stamped`). `OutcomeIs` reduces all ends of a flush to two forms, and the lemmas
`Fine...` carry the whole invariant over a flush, an appended item and a change
of date, so that Note, two flushes in one call, is their composition. When a
daemon dies what was only buffered becomes lost, which is where `Sound` is
needed: what was lost before must not be on disk.

`FlattenProofs` proves what `FlattenSeq` computes: its type, and that a sequence
added at the end or the front comes last or first; from that, what `Only` selects:
the elements that are in both, in their order, of two sequences one after the
other. The definition of `FlattenSeq` is a recursive
function, and the library's induction theorems take an operator as a parameter,
which no installed prover can instantiate; `SetInduction` states induction for a
set of numbers instead and follows from the least element of a well-founded
order, `SeqInduction` for the sequences over a set, and `Recursion` states that a
function whose value at n is defined from the one at n - 1 exists and obeys its
equation; with them the folds of `pumpInput` and `AddAll` are within reach, `Decoded`,
`Open` and `Added` being recursive functions. What the recursive functions of Text
and PortNames compute is only checked, over bounded inputs.

`SerconProofs` proves for every number of dials, faults, keys and silent
heartbeats, every set of programs and every bound of the transcript, from
`ClientAssumption`, `AttachAssumption` and `ScriptAssumption`, `Spec => []TypeOK`
(`TypeCorrect`), `Spec => []KeysMeanWhatWasTyped` (`KeysMeanWhatWasTypedHolds`),
`Spec => []ConsoleComplete` (`ConsoleCompleteHolds`) and `Spec => NextMatch`
(`NextMatchHolds`), all from `SessionInvariant`: `Spec => []SessionInv`. Its parts:

* `StateTypes`: with the types, `Course` says what each place of the main
  goroutine implies (which command it is, whether a session exists, whether a
  collector may run) and `Begun` that a session which was not begun has no
  goroutines, keys or frames, so that its fields are fresh when it is.
* `KeysInv`: `KeysMeanWhatWasTyped` compares the keys of a session with the
  meaning of all of them together, `pumpInput` decodes each read alone, keeping
  one flag and the mark of an open escape. `KeysFit` adds that the flag is what
  reading all keys as a whole gives and that the mark is the last key; then the
  decoding of a read goes on where the last one ended (`DecodeMeans`,
  by induction over the keys of the read). A read whose write blocks was on a link
  that carries nothing any more, so that what is made of its rest reaches nobody.
* `ShownInv`: what was shown and what is under way, the backlog included, are
  together all that was sent. A goroutine that left its session promises a
  prefix only (`ChunksFit`); while the port is asked for nothing is shown and
  `readUntil` has kept what came (`BacklogFits`): with it the frames that arrive
  before the answer to an open come first and once.
* `LoggedInv`: the log is what was shown less what it lost; that every chunk is
  shown once is needed, since the log is compared as a set with an order.
* `WaitInv`: `collector` cuts the transcript at its front and moves the mark by
  as much, between any two looks of a wait. `WaitFits` says that the transcript
  is the end of all chunks shown, numbered without a gap, and where the mark
  is: behind the last match, or at 0 once that was cut off. `NextMatch`
  follows: what a wait finds behind the mark is the first match behind the last.

For the drivers `HostProofs` proves `PortSpec => []PortTypeOK` (`PortTypeCorrect`),
`PortSpec => []ResourcesOwned` (`ResourcesOwnedHolds`) and
`PortSpec => []NoByteForgotten` (`NoByteForgottenHolds`), from `WinPortAssumption` and `LinuxPortAssumption`. For Windows the invariant
says who holds `ioMu` and how far Close is (`Locked`); that on a structure no
call has given up on there is at most one operation, still pending, its event
not set (`Single`), of the kind the call that waits there issued (`Matched`);
that with a driver that cancels at once no call leaves one behind (`Placed`);
and where each byte is, the queue being empty from the look at it to the end of
the wait unless the latch is set (`Counted`). `Issue`, `Finish` and `CancelIoEx`
have lemmas of their own (`IssueSingle`, `CancelSingle`, `CancelLeaves`). For
Linux it says what the two numbers refer to at each step of Close (`Numbered`),
that a Read which began after Close never gets past its two loads (`Loaded`),
and that a device which is gone is empty (`Drained`). `PortTypeOK` is not inductive
alone: that the bytes returned stay in bounds needs `Counted`. The proof work
showed that an earlier form of `OneOperationEach`, of two operations on one
structure one is cancelled, held only for two writes; it now says what holds
for all.

`DesktopProofs` proves `DesktopSpec => []TypeOK` (`TypeCorrect`) and
`DesktopSpec => []SaidIsSo` (`SaidIsSoHolds`) for every account, first file,
paste and machine and any number of jobs, starts, clicks and boxes, from
`WindowAssumption`. `SaidIsSo` speaks of the panel after an answer; `PanelInv`
says what must be so before. `Answers`: no generation is ahead of the panel's, at
most one goroutine or answer has the panel's, and the panel is busy exactly if
there is one; what is older only reads, so that a box that stays open while the
main window reloads cannot let two changes overlap. `Alone`: no helper ever runs for an
account's own file, so that nothing there is a slip. `Follows`: what the awaited job
claims at its place (`Says`, `Claim`) is what the file holds, whether it has read it,
renamed it or had its helper copy or type it, unless its helper slipped or an
orphaned one has copied; a goroutine that writes is the awaited one, with
the panel busy, and so nothing is promised meanwhile (`WriterAlone`,
`WriterKeeps`). `Tightened`: between a successful icacls and the next change
nobody loosens the file, a copy onto an existing file leaving its access list;
a helper that outlives its goroutine's time-out, or the program, may still copy,
and only because of that copy's manner is the file tight then.
`WhichFileFixed` shows that the answer to which file sshd reads does not depend
on elevation, so that a restart as administrator keeps it. The window and the
panel share no variable, which makes `WindowInv` an invariant of its own: rows
and counters keep to the table, and a counter that stands still is where it went.

The edits themselves are exact for every file: `EveryAddIsExact` and
`EveryRemoveIsExact` state `AddsExactly` and `RemovesExactly` for a content and a
paste of any number of lines over any set of words, and `EditsAreExactHolds`,
`DesktopSpec => []EditsAreExact`, is an instance of them together with
`RightFileHolds`. The loop of `AddAll` has the invariant `Gathered`: what it has
marked as present is what the file has and what it came by, the keys it added are
those it came by less those of the file, no two of them alike, and the lines are
those that were kept with the added ones behind. That an added key is in the new
file once then needs that no kept line and not the blank last one is that key
(`OncePlaced`); that adding again does nothing is the same lemma, `AddAllIs`, of
the new file. A removal keeps all lines exactly if none has the key (`OthersAre`).

The invariants `StreamInv`, `LogInv`, `SerialInv`, `SessionInv`, `PanelInv` and `WindowInv` were checked by TLC, on the instances of
the runs, before they were proved.

Only model-checked: `PortsNamedOnce`, which rests on `SelectSeq` and `SortSeq`,
of which the prover has no facts; `MeaningKept`, what Text computes
for arguments, quoting, escapes, scripts and frames; `NobodyStuck` of Relay, which
speaks of ENABLED, and liveness, both out of the prover's reach.

## Plan

Done: Hub, Lease, Stream, Endpoint, PortLog, Relay; the client; the drivers; the
keys and the windows; the proofs above. To come, in this order:

1. `Publisher`: slots, back-off and reconnection of the relay's publishers, and
   an abstract pairing that the server implements.
2. Stream with the ring and the queues as an abstract channel per client.
3. The composition of a driver's Close with the hub's worker and its Close.

Theorems to come: `PortsNamedOnce` and the parts of `MeaningKept`.

## Not modelled

* Configuration: one JSON file read at the start; its values are constants here.
* The audit log: records are only appended, no decision depends on them.
* Terminal modes, the console helper, version output: thin wrappers over system
  calls, without state that other goroutines share.
* Developer tools: test doubles and screenshot scripts, not part of the program.
* Hub: the listing (Ports, Info) and how a reference is resolved to a port;
  status texts, byte counters, labels. `autoOpen` off is left to the observation
  above, and the limit on observers is in the model but not among the
  properties: it restates one guard.
* Relay: the publisher's slots, TLS, tickets and certificates; the package is not
  wired into the program (relay.go:5).
* Client: the table and JSON that `list` prints, the report's JSON.
* Drivers: the fields of DCB and termios and the layout of the calls' structures.
* Keys: printed access lists, the help on key generation, Linux file modes.
* Windows: layout, fonts, scaling, drawing, the demo mode, declarations of calls.
* ssh, the kernel's tty layer and the file system are external and appear as
  what they may do to the code.
