----------------------------- MODULE PortNames -----------------------------
(* Which serial ports a machine has: Discover of both backends and the rules for
   COM names (src/internal/serialport/comname.go).

   A COM name is a record: the word before the digits, in the case it was
   written in, and the number, Junk when what follows is not a number. A device
   link is a record too: its base name, where it points, whether it resolves. *)
EXTENDS Naturals, FiniteSets, SequencesExt

Junk == 1000

Name == [word : {"COM", "com", "LPT"}, num : {2, 10, Junk}]

isComName(n)  == n.word \in {"COM", "com"} /\ n.num # Junk
comNumber(n)  == IF isComName(n) THEN n.num ELSE Junk
devicePath(n, prefixed) == IF prefixed \/ isComName(n) THEN "namespace" ELSE "plain"

(* The order of bytes among names of one number: upper case first. *)
WordRank(w) == CASE w = "COM" -> 1 [] w = "LPT" -> 2 [] w = "com" -> 3

(* [fault] Names in the order of their text: COM10 before COM2. *)
NameByText(a, b) ==
  WordRank(a.word) < WordRank(b.word) \/ (WordRank(a.word) = WordRank(b.word) /\ a.num >= b.num)

NameBefore(a, b) ==
  \/ comNumber(a) < comNumber(b)
  \/ comNumber(a) = comNumber(b) /\ WordRank(a.word) <= WordRank(b.word)

(* registryPorts drops what is not a COM name; Discover sorts the rest. *)
registryPorts(values) == {v \in values : isComName(v)}
WinDiscover(values)   == SetToSortSeq(registryPorts(values), NameBefore)

(* Exists compares without regard to case. *)
Exists(values, n) ==
  \E v \in registryPorts(values) : v.num = n.num /\ isComName(n)

-----------------------------------------------------------------------------
(* Linux: what /dev/serial/by-id lists comes first, then the globs. *)

Link == [ref : {"usb-a", "usb-b", "ttyUSB0"}, dev : {"d0", "d1"}, byId : BOOLEAN]

Rank(l) == CASE l.ref = "ttyUSB0" -> 1 [] l.ref = "usb-a" -> 2 [] l.ref = "usb-b" -> 3

(* The order they are looked at. *)
ScanOrder(links) ==
  SetToSortSeq(links, LAMBDA a, b :
    \/ (a.byId /\ ~b.byId)
    \/ (a.byId = b.byId) /\ (Rank(a) < Rank(b) \/ (Rank(a) = Rank(b) /\ a.dev = "d0")))

(* A link to a device that was seen already is skipped. *)
Unseen(scan) == {i \in DOMAIN scan : \A j \in 1 .. (i - 1) : scan[j].dev # scan[i].dev}

LinuxDiscover(links) ==
  LET scan == ScanOrder(links)
  IN  SetToSortSeq({scan[i] : i \in Unseen(scan)}, LAMBDA a, b : Rank(a) <= Rank(b))
-----------------------------------------------------------------------------
(* Links as a file system holds them: one per directory and name. *)
Directories == {L \in SUBSET Link :
  \A a, b \in L : a.ref = b.ref /\ a.byId = b.byId => a = b}

(* Discover names every port once and loses none: COM2 before COM10 and nothing
   that is not a COM port on Windows; on Linux each device once, under its by-id
   name if it has one, since that name is what survives a replug. *)
NamedOnce ==
  /\ \A V \in SUBSET Name :
       LET out == WinDiscover(V)
       IN  /\ ToSet(out) = {v \in V : v.num # Junk /\ v.word # "LPT"}
           /\ \A i, j \in DOMAIN out : i < j => out[i].num <= out[j].num
           /\ \A i \in DOMAIN out : Exists(V, out[i])
  /\ \A L \in Directories :
       LET out == LinuxDiscover(L)
       IN  /\ {out[i].dev : i \in DOMAIN out} = {l.dev : l \in L}
           /\ \A i, j \in DOMAIN out : i # j => out[i].dev # out[j].dev
           /\ \A i \in DOMAIN out :
                (\E l \in L : l.byId /\ l.dev = out[i].dev) => out[i].byId
=============================================================================
