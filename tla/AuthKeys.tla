------------------------------ MODULE AuthKeys ------------------------------
(***************************************************************************)
(* Package sshauth without Windows: which lines of an authorized_keys file *)
(* are keys, and what adding and removing do to the file.                  *)
(*                                                                         *)
(* A line is its first word, the shape of its second and the fingerprint   *)
(* that gives, and the words after it; line ends are those of the whole    *)
(* file ("\r" alone, which parseKeys and splitLines read differently, is   *)
(* left out).                                                              *)
(***************************************************************************)
EXTENDS Integers, Sequences, FiniteSets, SequencesExt, Select

Line(first, shape, print, note) ==
  [first |-> first, shape |-> shape, print |-> print, note |-> note]

Blank == Line("", "none", 0, "")

(* Two algorithms, and the one the blob with a fingerprint begins with.     *)
keyTypePrefixes == {"ed25519", "rsa"}
HeaderOf(print) == IF print = 2 THEN "rsa" ELSE "ed25519"

(* "whole" decodes to a key, "cut" to one cut off somewhere after its      *)
(* header; neither base64 that does not decode nor a shorter blob is one.   *)
checkBlobHeader(l) == l.shape \in {"whole", "cut"} /\ HeaderOf(l.print) = l.first

IsKey(l) == l.first \in keyTypePrefixes /\ checkBlobHeader(l)

(* A key is known by the fingerprint of its blob, the comment left aside.   *)
ParseKey(l) == [print |-> l.print, algorithm |-> l.first,
                shape |-> l.shape, comment |-> l.note]

Fingerprint(k) == <<k.print, k.shape>>

KeyText(k) == Line(k.algorithm, k.shape, k.print, k.comment)

(***************************************************************************)
(* A content is what splitLines makes of it, at least one line: after a    *)
(* final line end the last one is blank. No file has no line and no        *)
(* content.                                                                *)
(***************************************************************************)
Content(split, crlf) == [split |-> split, crlf |-> crlf]
Empty  == Content(<<Blank>>, FALSE)
NoFile == [split |-> <<>>, missing |-> TRUE]

parseKeys(content) ==
  LET keys == Only(content.split, {l \in ToSet(content.split) : IsKey(l)})
  IN [i \in DOMAIN keys |-> ParseKey(keys[i])]

(* parseKeyLines: the keys among the lines of a paste.                      *)
parseKeyLines(lines) == parseKeys(Content(lines, FALSE))

Prints(keys) == {Fingerprint(keys[i]) : i \in DOMAIN keys}
PrintsIn(content) == Prints(parseKeys(content))

render(lines) == IF lines = <<>> THEN Empty ELSE Content(Append(lines, Blank), FALSE)

keptLines(content) == Only(content.split, {l \in ToSet(content.split) : l.first # ""})

(* [fault] A key added is not noted as present for the rest of the paste.   *)
NotesNone(have, k) == have

Notes(have, k) == have \cup {Fingerprint(k)}

(* One more key of the paste; r is what the loop has so far. *)
AddOne(r, k) ==
  IF Fingerprint(k) \in r.have THEN r
  ELSE [have |-> Notes(r.have, k), lines |-> Append(r.lines, KeyText(k)),
        added |-> Append(r.added, k)]

Added(start, add) ==
  LET r[i \in 0..Len(add)] == IF i = 0 THEN start ELSE AddOne(r[i - 1], add[i]) IN r[Len(add)]

AddAll(existing, content, add) ==
  LET all == Added([have |-> Prints(existing), lines |-> keptLines(content), added |-> <<>>], add)
  IN IF all.added = <<>> THEN [content |-> content, added |-> <<>>]
     ELSE [content |-> render(all.lines), added |-> all.added]

RemoveKeys(content, victims) ==
  LET kept == Only(content.split, {l \in ToSet(content.split) :
                     ~(IsKey(l) /\ Fingerprint(ParseKey(l)) \in victims)})
  IN IF kept = content.split THEN content ELSE render(kept)

----------------------------------------------------------------------------
(* Bounded inputs: every kind of line, and pastes of up to two of them.     *)
K1 == Line("ed25519", "whole", 1, "anna")
K2 == Line("rsa", "whole", 2, "")
K1Renamed == [K1 EXCEPT !.note = "berta"]
Remark    == Line("#", "none", 0, "")
WithOption == Line("option", "whole", 2, "")
Truncated == Line("ed25519", "cut", 1, "")
Short     == Line("ed25519", "short", 1, "")
Mismatch  == Line("rsa", "whole", 1, "")

Lines == {Blank, K1, K2, K1Renamed, Remark, WithOption, Truncated, Short, Mismatch}
Contents == {Content(s, crlf) : s \in UNION {[1..n -> Lines] : n \in 1..3}, crlf \in BOOLEAN}
SmallPastes == UNION {[1..n -> Lines] : n \in 1..2}

Often(content, print) ==
  Cardinality({i \in DOMAIN content.split :
    IsKey(content.split[i]) /\ Fingerprint(ParseKey(content.split[i])) = print})

(* Adding brings the file to the union of both, each new key once however   *)
(* often it was pasted, keeps the lines that are no keys and the order, and *)
(* a second time changes nothing. "no-pty"-like lines are not touched.      *)
AddsExactly(c, lines) ==
  LET keys == parseKeyLines(lines)
      r    == AddAll(parseKeys(c), c, keys)
      new  == Prints(keys) \ PrintsIn(c)
  IN /\ new = {} => r.content = c
     /\ new # {} => ~r.content.crlf /\ IsPrefix(keptLines(c), r.content.split)
                    /\ Last(r.content.split) = Blank
     /\ PrintsIn(r.content) = PrintsIn(c) \cup new
     /\ \A p \in new : Often(r.content, p) = 1
     /\ AddAll(parseKeys(r.content), r.content, keys).added = <<>>

AddIsExact == \A c \in Contents, lines \in SmallPastes : AddsExactly(c, lines)

(* Removing takes every line of that key and no other line, and leaves      *)
(* a file without it as it is.                                             *)
RemovesExactly(c, p) ==
  LET r == RemoveKeys(c, {p})
      others == Only(c.split, {l \in ToSet(c.split) : ~(IsKey(l) /\ Fingerprint(ParseKey(l)) = p)})
  IN /\ p \notin PrintsIn(c) => r = c
     /\ p \in PrintsIn(c) => keptLines(r) = keptLines(Content(others, FALSE)) /\ ~r.crlf
     /\ Often(r, p) = 0

RemoveIsExact ==
  \A c \in Contents : \A p \in {<<1, "whole">>, <<2, "whole">>} : RemovesExactly(c, p)
=============================================================================
