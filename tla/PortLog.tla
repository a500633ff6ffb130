------------------------------ MODULE PortLog ------------------------------
(***************************************************************************)
(* portlog.Writer: one port's console log in one file a day, with lines     *)
(* buffered until they end, a sticky error, notes of the sessions, midnight *)
(* at any moment, failing writes, and daemons that die and are started      *)
(* again on the same files.                                                 *)
(*                                                                         *)
(* A call holds the writer's mutex throughout, so a call is one action; the *)
(* clock is read inside it and may have passed midnight by then.  A byte    *)
(* is a number and whether it ends a line; a time stamp, a note and a       *)
(* header are one item each, and a write that fails is cut between items.   *)
(***************************************************************************)
EXTENDS Integers, Sequences, SequencesExt

CONSTANTS Stamps,    \* the option to stamp every line
          Chunks,    \* what one Write can carry: for each byte, does it end a line?
          Closed,    \* no file is open
          FlushAt,   \* a buffer of so many items is flushed without a line end
          MaxDay,    \* bounds of the model: days,
          MaxBytes,  \* bytes from the device,
          MaxNotes,  \* notes,
          MaxFaults  \* failed flushes

Days == 0..MaxDay

ASSUME PortLogAssumption ==
  /\ Stamps \in BOOLEAN
  /\ Chunks \subseteq Seq(BOOLEAN) /\ <<>> \notin Chunks
  /\ Closed \notin Days
  /\ FlushAt \in Nat \ {0}
  /\ MaxDay \in Nat /\ MaxBytes \in Nat /\ MaxNotes \in Nat /\ MaxFaults \in Nat

VARIABLES
  day,     \* the date
  cur,     \* the day of the open file, or Closed
  disk,    \* what each day's file holds
  buf,     \* what is not flushed yet
  atBOL,   \* the next byte begins a line
  err,     \* a Write has failed: the writer is quiet
  handed,  \* how many bytes it was given
  notes,   \* how many notes
  faults,  \* how many flushes have failed
  ended,   \* the line ends it accepted, and the date when the call returned
  lost     \* the bytes that were not on disk when a daemon died

vars == <<day, cur, disk, buf, atBOL, err, handed, notes, faults, ended, lost>>

Byte(n, nl) == [kind |-> "byte", n |-> n, nl |-> nl, day |-> day]
Stamp == [kind |-> "stamp", n |-> 0, nl |-> FALSE, day |-> day]
Marker(n) == [kind |-> "note", n |-> n, nl |-> TRUE, day |-> day]
Header == [kind |-> "header", n |-> 0, nl |-> TRUE, day |-> 0]
Torn == [kind |-> "torn", n |-> 0, nl |-> FALSE, day |-> 0]

(* Day d's file holds byte n. *)
Holds(d, n) == \E i \in 1..Len(disk[d]) : disk[d][i].kind = "byte" /\ disk[d][i].n = n

OnDisk == {n \in 1..handed : \E d \in Days : Holds(d, n)}

----------------------------------------------------------------------------
(* ensureLocked and flushLocked, from the writer w = [cur, disk, buf] on    *)
(* the date t.  Operators whose comment begins with [fault] are what a      *)
(* plausible mistake would make of the operator that follows them.         *)

(* The date when the call looks at the clock. *)
Now == {t \in Days : t \in {day, day + 1}}

(* The day's file is open; a new one has its header. *)
Ensured(w, t) ==
  [cur |-> t,
   disk |-> IF w.cur # t /\ w.disk[t] = <<>> THEN [w.disk EXCEPT ![t] = <<Header>>]
                                             ELSE w.disk]

Written(w, t, items) ==
  LET e == Ensured(w, t) IN [e EXCEPT !.disk[e.cur] = @ \o items]

(* The open or the write of the header fails: no file is open. *)
OpenFailures(w, t) ==
  LET torn == [w.disk EXCEPT ![t] = <<Torn>>]
  IN  IF w.cur = t THEN {}
      ELSE {[cur |-> Closed, disk |-> x, buf |-> w.buf] :
              x \in {w.disk} \union IF w.disk[t] = <<>> THEN {torn} ELSE {}}

(* [fault] The buffer is emptied although the write failed. *)
WriteFailuresForget(w, t) ==
  {[cur |-> Written(w, t, <<>>).cur, disk |-> Written(w, t, SubSeq(w.buf, 1, k)).disk,
    buf |-> <<>>] : k \in 0..(Len(w.buf) - 1)}

(* The write of the buffer fails after some of it. *)
WriteFailures(w, t) ==
  {[cur |-> Written(w, t, <<>>).cur, disk |-> Written(w, t, SubSeq(w.buf, 1, k)).disk,
    buf |-> w.buf] : k \in 0..(Len(w.buf) - 1)}

Flushed(w, t) ==
  LET r == Written(w, t, w.buf) IN [cur |-> r.cur, disk |-> r.disk, buf |-> <<>>]

(* What a flush can come to. *)
Outcomes(w, t) ==
  {[to |-> Flushed(w, t), ok |-> TRUE]} \union
  IF faults < MaxFaults
    THEN {[to |-> r, ok |-> FALSE] : r \in OpenFailures(w, t) \union WriteFailures(w, t)}
    ELSE {}

Writer == [cur |-> cur, disk |-> disk, buf |-> buf]

Become(r) ==
  /\ cur' = r.to.cur /\ disk' = r.to.disk /\ buf' = r.to.buf
  /\ faults' = IF r.ok THEN faults ELSE faults + 1

----------------------------------------------------------------------------
(* Write. *)

Begins(c, i) == IF i = 1 THEN atBOL ELSE c[i - 1]

(* What Write appends to the buffer. *)
Items(c) ==
  FlattenSeq([i \in 1..Len(c) |->
    IF Stamps /\ Begins(c, i) THEN <<Stamp, Byte(handed + i, c[i])>>
                              ELSE <<Byte(handed + i, c[i])>>])

(* [fault] Only a line end flushes the buffer. *)
DueAtLineEnd(c, b) == \E i \in 1..Len(c) : c[i]

(* The buffer has to be flushed. *)
Due(c, b) == (\E i \in 1..Len(c) : c[i]) \/ Len(b) >= FlushAt

Hand(c) == handed + Len(c) <= MaxBytes /\ handed' = handed + Len(c)

(* The writer is quiet. *)
WriteQuiet(c) ==
  /\ err /\ Hand(c)
  /\ UNCHANGED <<day, cur, disk, buf, atBOL, err, notes, faults, ended, lost>>

WriteBuffers(c) ==
  /\ ~err /\ ~Due(c, buf \o Items(c)) /\ Hand(c)
  /\ buf' = buf \o Items(c) /\ atBOL' = Last(c)
  /\ UNCHANGED <<day, cur, disk, err, notes, faults, ended, lost>>

WriteFlushes(c) ==
  /\ ~err /\ Due(c, buf \o Items(c)) /\ Hand(c)
  /\ \E t \in Now :
       /\ day' = t
       /\ \E r \in Outcomes([Writer EXCEPT !.buf = @ \o Items(c)], t) :
            Become(r) /\ err' = ~r.ok
       /\ ended' = ended \union
            {[n |-> handed + i, day |-> t] : i \in {j \in 1..Len(c) : c[j]}}
  /\ atBOL' = Last(c)
  /\ UNCHANGED <<notes, lost>>

----------------------------------------------------------------------------
(* Note: what is buffered is flushed, then the marker. *)

(* [fault] The line that was begun goes on after the marker. *)
NoteMarksMidLine(w, since) ==
  \E t \in Now : t >= since /\ day' = t /\ atBOL' = atBOL
    /\ \E r \in Outcomes([w EXCEPT !.buf = Append(@, Marker(notes'))], t) : Become(r)

NoteMarks(w, since) ==
  \E t \in Now : t >= since /\ day' = t /\ atBOL' = TRUE
    /\ \E r \in Outcomes([w EXCEPT !.buf = Append(@, Marker(notes'))], t) : Become(r)

Note ==
  /\ ~err /\ notes < MaxNotes /\ notes' = notes + 1
  /\ IF buf = <<>> THEN NoteMarks(Writer, day)
     ELSE \E t \in Now : \E r \in Outcomes(Writer, t) :
            IF r.ok THEN NoteMarks(r.to, t)
                    ELSE Become(r) /\ day' = t /\ UNCHANGED atBOL
  /\ UNCHANGED <<err, handed, ended, lost>>

----------------------------------------------------------------------------
(* Close, and the end of the process. *)

Close ==
  /\ IF buf = <<>> \/ err
       THEN cur' = Closed /\ UNCHANGED <<day, disk, buf, faults>>
       ELSE \E t \in Now : \E r \in Outcomes(Writer, t) :
              day' = t /\ Become([r EXCEPT !.to.cur = Closed])
  /\ UNCHANGED <<atBOL, err, handed, notes, ended, lost>>

(* The daemon dies, and a new one writes on: New. *)
Restart ==
  /\ cur' = Closed /\ buf' = <<>> /\ atBOL' = TRUE /\ err' = FALSE
  /\ lost' = (1..handed) \ OnDisk
  /\ UNCHANGED <<day, disk, handed, notes, faults, ended>>

Midnight ==
  /\ day < MaxDay /\ day' = day + 1
  /\ UNCHANGED <<cur, disk, buf, atBOL, err, handed, notes, faults, ended, lost>>

Init ==
  /\ day = 0 /\ cur = Closed
  /\ disk = [d \in Days |-> <<>>]
  /\ buf = <<>> /\ atBOL = TRUE /\ err = FALSE
  /\ handed = 0 /\ notes = 0 /\ faults = 0
  /\ ended = {} /\ lost = {}

Next ==
  \/ \E c \in Chunks : WriteQuiet(c) \/ WriteBuffers(c) \/ WriteFlushes(c)
  \/ Note \/ Close \/ Restart \/ Midnight

Spec == Init /\ [][Next]_vars

----------------------------------------------------------------------------
Item == [kind : {"byte", "stamp", "note", "header", "torn"}, n : Nat, nl : BOOLEAN,
         day : Days]

(* The types of all variables; and unless a flush has failed the buffer     *)
(* holds less than what makes Write flush it.                              *)
TypeOK ==
  /\ day \in Days /\ cur \in Days \union {Closed}
  /\ disk \in [Days -> Seq(Item)] /\ buf \in Seq(Item)
  /\ atBOL \in BOOLEAN /\ err \in BOOLEAN
  /\ handed \in 0..MaxBytes /\ notes \in 0..MaxNotes /\ faults \in 0..MaxFaults
  /\ ended \subseteq [n : 1..handed, day : Days] /\ lost \subseteq 1..handed
  /\ faults = 0 => Len(buf) < FlushAt

(* A line the writer accepted is in the file of the day on which the call   *)
(* returned, whatever becomes of the daemon, as long as the disk takes what *)
(* it is given (Write, flushLocked, ensureLocked).                         *)
LineOnDisk ==
  faults = 0 => \A e \in ended : Holds(e.day, e.n)

(* The files have no hole: before a byte come all earlier ones, but for     *)
(* those that died with a daemon.  In particular a flush that fails half-   *)
(* way and is tried again loses nothing (Write's sticky error, flushLocked).*)
NoHole ==
  \A d \in Days : \A i \in 1..Len(disk[d]) : disk[d][i].kind = "byte" =>
    \A m \in (1..(disk[d][i].n - 1)) \ lost :
      \E e \in Days : \E j \in 1..Len(disk[e]) :
        /\ e < d \/ (e = d /\ j < i)
        /\ disk[e][j].kind = "byte" /\ disk[e][j].n = m

(* A file that is not empty begins with its header and has no other, across *)
(* midnight, Close and restarts (ensureLocked).                            *)
OneHeader ==
  faults = 0 => \A d \in Days : \A i \in 1..Len(disk[d]) :
    disk[d][i].kind = "header" <=> i = 1

(* With stamps, a line that begins in a file begins with one, also after a  *)
(* note in the middle of a line (Write, Note).                             *)
FreshLines ==
  faults = 0 /\ Stamps => \A d \in Days : \A i \in 2..Len(disk[d]) :
    disk[d][i].kind = "byte" => ~(disk[d][i - 1].nl /\ disk[d][i - 1].kind # "header")

(* Nothing that was accepted is lost but with a daemon that dies.           *)
LinesKept == LineOnDisk /\ NoHole

(* What a reader of the files relies on.                                    *)
FilesReadable == OneHeader /\ FreshLines

============================================================================
