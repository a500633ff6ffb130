-------------------------------- MODULE Text --------------------------------
(***************************************************************************)
(* The conversions of the command sercon and of the frame protocol: the     *)
(* order of arguments, the quoting of the remote command, the escapes of a  *)
(* script, frames on a stream.  Text is a sequence of characters; each is   *)
(* checked against a definition of what it must mean, over bounded inputs.  *)
(* What reads the result, Go's flag package and a POSIX shell, is external. *)
(***************************************************************************)
EXTENDS Integers, Sequences, FiniteSets, SequencesExt

Texts(chars, len) == UNION {[1..k -> chars] : k \in 0..len}

(* Operators whose comment begins with [fault] are what a plausible mistake *)
(* would make of the operator after them.                                   *)

----------------------------------------------------------------------------
(* parseArgs, reorderArgs.  Arguments: a Boolean flag, a flag that takes a  *)
(* value, that flag with its value attached, a lone dash, the end of the    *)
(* options, and what is no flag.                                            *)

Args == {"-bool", "-text", "-text=v", "-", "--", "port"}
IsFlag(a) == a \in {"-bool", "-text", "-text=v"}

(* A flag without an attached value takes the argument after it along,      *)
(* whatever it is, unless it is Boolean.                                    *)
TakesNext(args, i) == args[i] = "-text" /\ i < Len(args)

(* The result up to argument i: flags, positional arguments, and whether    *)
(* the next argument was taken along; "--" makes all the rest positional.   *)
Reorder(args) ==
  LET r[i \in 0..Len(args)] ==
        IF i = 0 THEN [flags |-> <<>>, rest |-> <<>>, taken |-> FALSE, over |-> FALSE]
        ELSE LET q == r[i - 1] a == args[i] IN
          IF q.over THEN [q EXCEPT !.rest = Append(@, a)]
          ELSE IF q.taken THEN [q EXCEPT !.flags = Append(@, a), !.taken = FALSE]
          ELSE IF a = "--" THEN [q EXCEPT !.over = TRUE]
          ELSE IF ~IsFlag(a) THEN [q EXCEPT !.rest = Append(@, a)]
          ELSE [q EXCEPT !.flags = Append(@, a), !.taken = TakesNext(args, i)]
  IN r[Len(args)].flags \o r[Len(args)].rest

(* The flag package: flags up to the first argument that is none; a value   *)
(* is whatever follows.                                                    *)
FlagParse(args) ==
  LET p[i \in 1..(Len(args) + 1)] ==
        IF i > Len(args) THEN [set |-> {}, rest |-> <<>>]
        ELSE IF ~IsFlag(args[i])
          THEN [set |-> {}, rest |-> SubSeq(args, IF args[i] = "--" THEN i + 1 ELSE i, Len(args))]
        ELSE IF args[i] # "-text"
          THEN [p[i + 1] EXCEPT !.set = @ \cup {<<args[i]>>}]
        ELSE IF i = Len(args) THEN [set |-> {<<"no value">>}, rest |-> <<>>]
        ELSE [p[i + 2] EXCEPT !.set = @ \cup {<<"-text", args[i + 1]>>}]
  IN p[1]

(* What the operator meant: every flag before "--", wherever it stands.     *)
Meant(args) ==
  LET p[i \in 1..(Len(args) + 1)] ==
        IF i > Len(args) THEN [set |-> {}, rest |-> <<>>]
        ELSE IF args[i] = "--" THEN [set |-> {}, rest |-> SubSeq(args, i + 1, Len(args))]
        ELSE IF ~IsFlag(args[i]) THEN [p[i + 1] EXCEPT !.rest = <<args[i]>> \o @]
        ELSE IF args[i] # "-text"
          THEN [p[i + 1] EXCEPT !.set = @ \cup {<<args[i]>>}]
        ELSE IF i = Len(args) THEN [set |-> {<<"no value">>}, rest |-> <<>>]
        ELSE [p[i + 2] EXCEPT !.set = @ \cup {<<"-text", args[i + 1]>>}]
  IN p[1]

(* "--" itself is dropped, so what follows it must not look like a flag.    *)
Plainly(args) ==
  \A i, j \in DOMAIN args : i < j /\ args[i] = "--" => args[j] \in {"port", "-"}
NoDangling(args) == <<"no value">> \notin Meant(args).set

(* Flags count wherever they stand on the line, and the port stays the      *)
(* port: a flag after it is not silently ignored.                           *)
ArgumentsKeepMeaning ==
  \A args \in Texts(Args, 4) :
    Plainly(args) /\ NoDangling(args) => FlagParse(Reorder(args)) = Meant(args)

----------------------------------------------------------------------------
(* shellQuote, quoteToken; remoteCommand quotes every part.                 *)

Chars == {"a", "/", " ", "'", "~", "*"}
Safe == {"a", "/"}

(* [fault] A quote inside the quotes is left as it is. *)
QuoteBare(s) == IF \A i \in DOMAIN s : s[i] \in Safe THEN s ELSE <<"'">> \o s \o <<"'">>

QuoteToken(s) ==
  IF s = <<>> THEN <<"'", "'">>
  ELSE IF \A i \in DOMAIN s : s[i] \in Safe THEN s
  ELSE <<"'">> \o FlattenSeq([i \in DOMAIN s |->
                    IF s[i] = "'" THEN <<"'", "\\", "'", "'">> ELSE <<s[i]>>]) \o <<"'">>

ShellQuote(s) ==
  IF s = <<"~">> THEN s
  ELSE IF IsPrefix(<<"~", "/">>, s) THEN <<"~", "/">> \o QuoteToken(SubSeq(s, 3, Len(s)))
  ELSE QuoteToken(s)

RemoteCommand(parts) == FlattenSeq([i \in DOMAIN parts |->
  IF i = 1 THEN ShellQuote(parts[i]) ELSE <<" ">> \o ShellQuote(parts[i])])

(* A POSIX shell reading a line: quotes, backslash, blanks, a tilde at the  *)
(* start of a word, an unquoted glob.                                       *)
ShellStep(q, c) ==
  CASE q.in = "quote" -> IF c = "'" THEN [q EXCEPT !.in = "word"]
                         ELSE [q EXCEPT !.word = Append(@, c)]
    [] q.in = "slash" -> [q EXCEPT !.in = "word", !.word = Append(@, c)]
    [] OTHER ->
       IF c = "'" THEN [q EXCEPT !.in = "quote"]
       ELSE IF c = "\\" THEN [q EXCEPT !.in = "slash"]
       ELSE IF c = " " THEN IF q.in = "blank" THEN q
                            ELSE [q EXCEPT !.in = "blank", !.words = Append(@, q.word), !.word = <<>>]
       ELSE IF c = "~" /\ q.in = "blank" THEN [q EXCEPT !.in = "word", !.word = <<"HOME">>]
       ELSE [q EXCEPT !.in = "word", !.word = Append(@, IF c = "*" THEN "GLOB" ELSE c)]

Shell(line) ==
  LET q == FoldLeft(ShellStep, [in |-> "blank", word |-> <<>>, words |-> <<>>], line)
  IN IF q.in = "blank" THEN q.words
     ELSE IF q.in = "word" THEN Append(q.words, q.word) ELSE <<"unbalanced">>

Home(s) == IF s = <<"~">> \/ IsPrefix(<<"~", "/">>, s) THEN <<"HOME">> \o Tail(s) ELSE s

(* The shell of the jump host reads every argument back as it was given,    *)
(* one word each, with a leading ~ or ~/ expanded and nothing else.         *)
CommandReadsBack ==
  \A s \in Texts(Chars, 4) : \A t \in Texts({"a", "'", "~"}, 1) :
    Shell(RemoteCommand(<<s, t>>)) = <<Home(s), Home(t)>>

----------------------------------------------------------------------------
(* unescape: from position i on.  The result is the set of its one text, or *)
(* empty.                                                                  *)

Escapes == [r |-> "CR", n |-> "LF", t |-> "TAB"]
Hex == {"0", "4", "f"}
Byte(h, l) == <<"0x", h, l>>
Then(c, texts) == {<<c>> \o w : w \in texts}

AfterHex(i) == i + 4

UnescapeFrom(s) ==
  LET u[i \in 1..(Len(s) + 1)] ==
        IF i > Len(s) THEN {<<>>}
        ELSE IF s[i] # "\\" THEN Then(s[i], u[i + 1])
        ELSE IF i = Len(s) THEN {}
        ELSE CASE s[i + 1] \in DOMAIN Escapes -> Then(Escapes[s[i + 1]], u[i + 2])
               [] s[i + 1] = "0"  -> Then("NUL", u[i + 2])
               [] s[i + 1] = "\\" -> Then("\\", u[i + 2])
               [] s[i + 1] = "x"  -> IF i + 3 > Len(s) THEN {}
                                     ELSE IF {s[i + 2], s[i + 3]} \subseteq Hex
                                       THEN Then(Byte(s[i + 2], s[i + 3]), u[AfterHex(i)])
                                     ELSE {}
               [] OTHER -> {}
  IN u

Unescape(s) == UnescapeFrom(s)[1]

(* The language, as pairs of what is written and what is sent. *)
Written == {"r", "0", "x", "4", "\\"}
Tokens ==
  {<<<<c>>, c>> : c \in Written \ {"\\"}}
    \cup {<<<<"\\", "r">>, "CR">>, <<<<"\\", "0">>, "NUL">>, <<<<"\\", "\\">>, "\\">>}
    \cup {<<<<"\\", "x", h, l>>, Byte(h, l)>> : h, l \in {"0", "4"}}
Sentences == UNION {[1..k -> Tokens] : k \in 0..4}
Source(w) == FlattenSeq([i \in DOMAIN w |-> w[i][1]])
Target(w) == [i \in DOMAIN w |-> w[i][2]]

(* What is written in the language of escapes is sent as it means, and all  *)
(* other text is refused.                                                   *)
EscapesDecode ==
  /\ \A w \in Sentences : Unescape(Source(w)) = {Target(w)}
  /\ LET valid == {Source(w) : w \in Sentences} IN
     \A s \in Texts(Written, 4) : s \notin valid => Unescape(s) = {}

(* parseScript: blank lines and comments are skipped, the first line that   *)
(* is wrong refuses the whole script, sendln appends CR LF.                 *)
Lines == [verb : {"", "#", "send", "sendln", "wait", "sleep", "jump"},
          arg : {<<>>, <<"r">>, <<"\\", "r">>, <<"\\">>}]

Steps(l) ==
  CASE l.verb \in {"", "#"} -> {<<>>}
    [] l.verb = "send" -> {<<<<"send", t>>>> : t \in Unescape(l.arg)}
    [] l.verb = "sendln" -> {<<<<"send", t \o <<"CR", "LF">>>>>> : t \in Unescape(l.arg)}
    [] l.verb \in {"wait", "sleep"} -> {<<<<l.verb, l.arg>>>>}
    [] OTHER -> {}

ParseLine(scripts, l) == {q \o t : q \in scripts, t \in Steps(l)}

ParseScript(lines) == FoldLeft(ParseLine, {<<>>}, lines)

(* A script is either refused as a whole or has one step for every line     *)
(* that says something, in their order.                                     *)
ScriptIsItsLines ==
  \A lines \in Texts(Lines, 2) :
    LET said == SelectSeq(lines, LAMBDA l : l.verb \notin {"", "#"}) IN
    IF \E i \in DOMAIN said : \/ said[i].verb = "jump"
                              \/ said[i].verb \in {"send", "sendln"} /\ said[i].arg = <<"\\">>
      THEN ParseScript(lines) = {}
      ELSE \E q \in ParseScript(lines) :
             /\ Len(q) = Len(said)
             /\ \A i \in DOMAIN said :
                  q[i][1] = IF said[i].verb = "sendln" THEN "send" ELSE said[i].verb

----------------------------------------------------------------------------
(* proto: a frame is its type, its length and its payload.  A stream may    *)
(* end anywhere.                                                           *)

MaxPayload == 2
Types == {1, 2}
Frames == [type : Types, payload : Texts({"u"}, MaxPayload)]

(* Writer.Write refuses what is too large. *)
WriteFrame(f) ==
  IF Len(f.payload) > MaxPayload THEN <<>> ELSE <<f.type, Len(f.payload)>> \o f.payload

(* Reader.Next: a whole frame, or none. *)
NextFrame(s) ==
  IF Len(s) < 2 \/ s[1] \notin Types \/ s[2] > MaxPayload \/ Len(s) < 2 + s[2] THEN {}
  ELSE {[type |-> s[1], payload |-> SubSeq(s, 3, 2 + s[2])]}

ReadFrames(stream) ==
  LET r[i \in 1..(Len(stream) + 3)] ==
        IF i > Len(stream) THEN <<>>
        ELSE LET f == NextFrame(SubSeq(stream, i, Len(stream))) IN
             IF f = {} THEN <<>>
             ELSE LET g == CHOOSE x \in f : TRUE IN <<g>> \o r[i + 2 + Len(g.payload)]
  IN r[1]

Wire(fs) == FlattenSeq([i \in DOMAIN fs |-> WriteFrame(fs[i])])

(* Frames are read as they were written; a stream that ends within one      *)
(* yields those before it and never a part.                                 *)
FramesReadBack ==
  \A fs \in Texts(Frames, 2) : \A k \in 0..Len(Wire(fs)) :
    ReadFrames(SubSeq(Wire(fs), 1, k)) =
      SubSeq(fs, 1, Cardinality({i \in DOMAIN fs : Len(Wire(SubSeq(fs, 1, i))) <= k}))

=============================================================================
