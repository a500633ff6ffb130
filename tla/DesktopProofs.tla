--------------------------- MODULE DesktopProofs ---------------------------
(***************************************************************************)
(* Machine-checked proofs about module Desktop, for every account, first   *)
(* file, paste and machine, any number of goroutine slots, jobs, starts,   *)
(* clicks, boxes and changes: the types with the one awaited answer, that  *)
(* what the key panel says of a job that worked is so, but for the slips of *)
(* an elevated helper, and what an edit does to a key file.                *)
(***************************************************************************)
EXTENDS Desktop, FlattenProofs, FiniteSetTheorems, TLAPS

-----------------------------------------------------------------------------
(* The invariant of the panel. *)

(* q is a sequence; j and p have the fields of a job and of the panel. *)
IsSeq(q) == q \in Seq({q[i] : i \in DOMAIN q})
IsJob(j) ==
  j = [kind |-> j.kind, generation |-> j.generation, pc |-> j.pc, elevate |-> j.elevate,
       raw |-> j.raw, result |-> j.result, had |-> j.had, helper |-> j.helper,
       tmp |-> j.tmp, text |-> j.text, exit |-> j.exit, slip |-> j.slip]
IsPanel(p) ==
  p = [open |-> p.open, raw |-> p.raw, input |-> p.input, generation |-> p.generation,
       busy |-> p.busy, hint |-> p.hint, asking |-> p.asking, slip |-> p.slip]
IsAccount(a) ==
  a = [member |-> a.member, group |-> a.group, local |-> a.local, named |-> a.named,
       elevated |-> a.elevated]

(* Without its temporary directory. *)
Gone == FALSE

(* What only a helper's work changes. *)
Aside(j) == <<j.text, j.tmp, j.slip>>

Own   == WhichFile(account) = "own"
Sound == file # NoFile /\ acl = "tight"

Works    == {"loaded", "installed", "removed"}
Edits == {"installed", "removed"}
Writes   == {"temp", "unlink", "rename", "tighten"}
Elevates == {"prompt", "wait", "report"}

Live(s)    == jobs[s].pc # "done"
Current(s) == Live(s) /\ jobs[s].generation = panel.generation
Final(i)   == completions[i].generation = panel.generation

Typed ==
  /\ IsPanel(panel) /\ panel.generation \in Nat /\ panel.busy \in BOOLEAN
  /\ panel.hint \in Results \cup {"waiting"} /\ acl \in {"open", "tight"}
  /\ IsAccount(account) /\ alive \in BOOLEAN /\ orphaned \in BOOLEAN /\ panel.slip \in BOOLEAN
  /\ jobs = [s \in Slots |-> jobs[s]] /\ IsSeq(completions)
  /\ \A i \in DOMAIN completions : completions[i].generation \in Nat
                                   /\ completions[i].result \in Results
                                   /\ completions[i].slip \in BOOLEAN
  /\ ~alive => panel = NoPanel /\ completions = <<>> /\ \A s \in Slots : ~Live(s)

(* What a job is at each place: only a change writes, and its new content is one. *)
JobOK(j) ==
  /\ IsJob(j) /\ j.generation \in Nat /\ j.result \in Results
  /\ j.kind \in {"none", "load", "add", "remove"}
  /\ j.pc \in {"done", "read", "send"} \cup Writes \cup Elevates
  /\ j.helper \in {"none", "start", "command", "icacls", "mark"}
  /\ j.pc = "read" => j.kind = "load"
  /\ j.pc \in Writes \/ (j.pc = "send" /\ j.result \in Edits) => j.kind \in {"add", "remove"}
  /\ j.pc # "done" \/ j.helper # "none" => j.kind # "none"
  /\ j.helper # "none" \/ j.pc \in Writes \cup Elevates => j.kind = "load" \/ j.raw # NoFile
  /\ j.helper = "icacls" => j.kind \in {"add", "remove"}
  /\ j.helper # "none" \/ j.exit # "none" => j.pc \in {"wait", "report", "send", "done"}
  /\ j.helper \in {"start", "command"} => j.exit = "none"
  /\ j.tmp \in BOOLEAN /\ j.slip \in BOOLEAN
  /\ j.tmp = TRUE => j.pc \in {"wait", "report", "done"}
  /\ j.kind = "load" /\ j.pc \in {"read"} \cup Elevates => j.slip = FALSE

JobTyped == \A s \in Slots : JobOK(jobs[s])

(* Every answer on its way is of the panel's generation or of one before, no
   change is overtaken, and the panel waits for exactly one of its own. *)
Answers ==
  /\ \A s \in Slots : Live(s) => /\ jobs[s].generation <= panel.generation
                                 /\ jobs[s].kind # "load" => Current(s)
  /\ \A i \in DOMAIN completions : completions[i].generation <= panel.generation
  /\ \A s, t \in Slots : Current(s) /\ Current(t) => s = t
  /\ \A i, k \in DOMAIN completions : Final(i) /\ Final(k) => i = k
  /\ \A s \in Slots, i \in DOMAIN completions : ~(Current(s) /\ Final(i))
  /\ panel.asking # {} => \A s \in Slots : Live(s) => jobs[s].kind = "load"
  /\ panel.busy <=> (\E s \in Slots : Current(s)) \/ (\E i \in DOMAIN completions : Final(i))

(* What a job at its place says of the file, if anything: that a change has
   written it, or what a load has read. *)
Says(j) ==
  \/ j.pc = "tighten"
  \/ j.pc = "send" /\ j.result \in Works
  \/ j.pc \in {"wait", "report"} /\ j.kind = "load" /\ j.exit \in {"is 0", "0"}
  \/ /\ j.pc \in {"wait", "report"} /\ j.kind # "load"
     /\ j.helper \in {"icacls", "mark"} \/ j.exit # "none"

Claim(j) == IF j.kind = "load" /\ j.pc # "send" THEN j.text ELSE j.raw

(* The account's own file is written by the panel's process alone: there is no
   helper to slip. *)
Alone ==
  Own => /\ \A s \in Slots : jobs[s].helper = "none" /\ jobs[s].pc \notin Elevates
                            /\ jobs[s].slip = FALSE
         /\ \A i \in DOMAIN completions : completions[i].slip = FALSE
         /\ panel.slip = FALSE /\ orphaned = FALSE

(* What an answer of the panel's generation says of the file is so, unless its
   helper slipped or one of an earlier run has copied. *)
Follows ==
  orphaned = FALSE =>
    /\ \A s \in Slots : Current(s) /\ jobs[s].slip = FALSE /\ Says(jobs[s])
                          => Claim(jobs[s]) = file
    /\ \A i \in DOMAIN completions :
         Final(i) /\ completions[i].slip = FALSE /\ completions[i].result \in Works
           => completions[i].raw = file
    /\ ~panel.busy /\ panel.slip = FALSE /\ panel.hint \in Works => panel.raw = file

(* A change that worked left the file tight, and nobody loosens it before the
   next change. *)
Tightened ==
  /\ \A s \in Slots : Live(s) /\ jobs[s].exit \in {"is 0", "0"} /\ jobs[s].kind # "load" => Sound
  /\ \A s \in Slots : jobs[s].pc = "send" /\ jobs[s].result \in Edits => Sound
  /\ \A i \in DOMAIN completions : Final(i) /\ completions[i].result \in Edits => Sound
  /\ ~panel.busy /\ panel.hint \in Edits => Sound

PanelInv == Typed /\ JobTyped /\ Answers /\ Alone /\ Follows /\ Tightened
-----------------------------------------------------------------------------
(* Sequences of answers. *)

LEMMA SeqIsSeq == ASSUME NEW S, NEW q \in Seq(S) PROVE IsSeq(q)
<1> DEFINE T == {q[i] : i \in DOMAIN q}
<1>1. Len(q) \in Nat /\ q \in [1 .. Len(q) -> S] /\ DOMAIN q = 1 .. Len(q)
  BY LenProperties
<1>2. q \in [1 .. Len(q) -> T]
  BY <1>1
<1>3. q \in Seq(T)
  <2> HIDE DEF T
  <2> QED BY <1>1, <1>2, SeqDef
<1> QED BY <1>3 DEF IsSeq

LEMMA AppendIsSeq ==
  ASSUME NEW q, IsSeq(q), NEW c
  PROVE  /\ IsSeq(Append(q, c)) /\ DOMAIN Append(q, c) = DOMAIN q \cup {Len(q) + 1}
         /\ Len(q) + 1 \notin DOMAIN q
         /\ \A i \in DOMAIN q : Append(q, c)[i] = q[i]
         /\ Append(q, c)[Len(q) + 1] = c
<1> DEFINE R == {q[i] : i \in DOMAIN q}  S == R \cup {c}
<1>1. q \in Seq(R) /\ Len(q) \in Nat /\ DOMAIN q = 1 .. Len(q)
  BY DEF IsSeq
<1>2. q \in Seq(S)
  BY <1>1
<1>3. /\ Append(q, c) \in Seq(S) /\ Len(Append(q, c)) = Len(q) + 1
      /\ \A i \in 1 .. Len(q) : Append(q, c)[i] = q[i]
      /\ Append(q, c)[Len(q) + 1] = c
  BY <1>2
<1>4. DOMAIN Append(q, c) = 1 .. (Len(q) + 1)
  BY <1>3
<1>5. DOMAIN Append(q, c) = DOMAIN q \cup {Len(q) + 1} /\ Len(q) + 1 \notin DOMAIN q
  BY <1>1, <1>4
<1>6. IsSeq(Append(q, c))
  BY <1>3, SeqIsSeq
<1> QED BY <1>1, <1>3, <1>5, <1>6

LEMMA TailIsSeq ==
  ASSUME NEW q, IsSeq(q), q # <<>>
  PROVE  /\ IsSeq(Tail(q)) /\ 1 \in DOMAIN q /\ Head(q) = q[1]
         /\ \A i \in DOMAIN Tail(q) : i \in Nat /\ i + 1 \in DOMAIN q /\ Tail(q)[i] = q[i + 1]
         /\ \A i \in DOMAIN q : i = 1 \/ i - 1 \in DOMAIN Tail(q)
         /\ DOMAIN q \subseteq Nat
<1> DEFINE R == {q[i] : i \in DOMAIN q}
<1>1. q \in Seq(R) /\ Len(q) \in Nat /\ DOMAIN q = 1 .. Len(q) /\ Len(q) # 0
  BY DEF IsSeq
<1>2. /\ Tail(q) \in Seq(R) /\ Len(Tail(q)) = Len(q) - 1
      /\ \A i \in 1 .. (Len(q) - 1) : Tail(q)[i] = q[i + 1]
  <2> HIDE DEF R
  <2> QED BY <1>1
<1>3. DOMAIN Tail(q) = 1 .. (Len(q) - 1)
  BY <1>1, <1>2
<1>4. IsSeq(Tail(q))
  BY <1>2, SeqIsSeq
<1> QED BY <1>1, <1>2, <1>3, <1>4

(* The identifier as the code writes it down is not that of the group: not to
   the system, nor by the bytes the code compares. *)
LEMMA AdministratorsSidDiffers ==
  /\ SidPart(administratorsSID) # BuiltinAdministrators
  /\ ~sidEqual(BuiltinAdministrators, administratorsSID)
<1>1. /\ administratorsSID \in Seq(Nat) /\ Len(administratorsSID) = 18 /\ administratorsSID[2] = 2
      /\ administratorsSID[8] = 0
  BY DEF administratorsSID
<1>2. SubSeq(administratorsSID, 1, 16)[8] = 0
  BY <1>1
<1>3. BuiltinAdministrators[8] = 5 /\ BuiltinAdministrators \in Seq(Nat)
      /\ Len(BuiltinAdministrators) = 16 /\ BuiltinAdministrators[2] = 2
  BY DEF BuiltinAdministrators
<1>4. SidPart(administratorsSID) # BuiltinAdministrators
  BY <1>1, <1>2, <1>3 DEF SidPart
<1>5. SidPart(BuiltinAdministrators)[8] = 5
  BY <1>3 DEF SidPart
<1>6. SubSeq(administratorsSID, 1, BuiltinAdministrators[2] * 4 + 8)[8] = 0
  BY <1>2, <1>3
<1>7. SidPart(BuiltinAdministrators) # SubSeq(administratorsSID, 1, BuiltinAdministrators[2] * 4 + 8)
  <2>1. SUFFICES ASSUME SidPart(BuiltinAdministrators)
                          = SubSeq(administratorsSID, 1, BuiltinAdministrators[2] * 4 + 8)
                 PROVE  FALSE
    OBVIOUS
  <2>2. SidPart(BuiltinAdministrators)[8] = 0
    BY <1>6, <2>1
  <2> QED BY <1>5, <2>2
<1> QED BY <1>4, <1>7 DEF sidEqual

(* So neither way the code looks at the token finds the group. *)
LEMMA TokenFindsNothing == \A a : ~tokenInAdministrators(a) /\ ~tokenIsElevatable(a)
<1>1. \A a : ~tokenInAdministrators(a)
  BY AdministratorsSidDiffers
     DEF tokenInAdministrators, CheckTokenMembership, EnabledGroups, TokenGroups
<1>2. \A a : ~tokenIsElevatable(a)
  BY AdministratorsSidDiffers DEF tokenIsElevatable, tokenHasGroup, TokenGroups
<1> QED BY <1>1, <1>2

(* Which file it is does not depend on how the program was started. *)
LEMMA WhichFileFixed ==
  ASSUME NEW a, IsAccount(a), NEW e \in BOOLEAN
  PROVE  WhichFile([a EXCEPT !.elevated = e]) = WhichFile(a)
<1> DEFINE b == [a EXCEPT !.elevated = e]
<1>1. b.member = a.member /\ b.group = a.group /\ b.local = a.local /\ b.named = a.named
  BY DEF IsAccount
<1>2. inAdminsByGroupLookup(b) = inAdminsByGroupLookup(a)
  BY <1>1 DEF inAdminsByGroupLookup, LocalGroups, isAdministratorsName, LookupAccountSid
<1> QED BY <1>1, <1>2, TokenFindsNothing DEF WhichFile, IsAdmin
-----------------------------------------------------------------------------
(* What becomes of one job. *)

LEMMA Rendered == \A lines : render(lines) # NoFile
BY DEF render, Empty, Content, NoFile

(* A change has a new content or nothing to do. *)
LEMMA EditIsContent ==
  ASSUME NEW content, NEW existing, NEW add, NEW victims
  PROVE  /\ AddAll(existing, content, add).content # content
              => AddAll(existing, content, add).content # NoFile
         /\ RemoveKeys(content, victims) # content => RemoveKeys(content, victims) # NoFile
BY Rendered DEF AddAll, RemoveKeys

LEMMA NoJobOK == JobOK(NoJob)
BY DEF JobOK, IsJob, NoJob, Results, Writes, Elevates, Edits

LEMMA NoJobIs == /\ NoJob.pc = "done" /\ NoJob.helper = "none" /\ NoJob.exit = "none"
                 /\ NoJob.slip = FALSE /\ NoJob.tmp = FALSE
BY DEF NoJob

(* j after a step of the goroutine or the helper in slot s. *)
After(s, j) ==
  /\ JobOK(j) /\ j.kind = jobs[s].kind /\ j.generation = jobs[s].generation
  /\ (j.pc = "done" <=> jobs[s].pc = "done")
  /\ Set(s, j) /\ UNCHANGED <<account, alive, panel, completions>>

(* The other slots are as they were. *)
LEMMA AfterIs ==
  ASSUME PanelInv, NEW s \in Slots, NEW j, Set(s, j)
  PROVE  /\ jobs' = [t \in Slots |-> jobs'[t]]
         /\ jobs'[s] = IF j.pc = "done" /\ j.helper = "none" THEN NoJob ELSE j
         /\ \A t \in Slots \ {s} : jobs'[t] = jobs[t]
BY DEF PanelInv, Typed, Set

(* Such a step ends no job and begins none: the awaited answer stays the one. *)
LEMMA AfterAnswers ==
  ASSUME PanelInv, NEW s \in Slots, NEW j, After(s, j), acl' \in {"open", "tight"},
         orphaned' \in BOOLEAN
  PROVE  Typed' /\ JobTyped' /\ Answers'
<1>1. /\ jobs' = [t \in Slots |-> jobs'[t]]
      /\ jobs'[s] = IF j.pc = "done" /\ j.helper = "none" THEN NoJob ELSE j
      /\ \A t \in Slots \ {s} : jobs'[t] = jobs[t]
  BY AfterIs DEF After
<1>2. \A t \in Slots : /\ Live(t)' <=> Live(t)
                       /\ Live(t) => /\ jobs'[t].generation = jobs[t].generation
                                     /\ jobs'[t].kind = jobs[t].kind
  BY <1>1 DEF After, Live, NoJob
<1>3. panel' = panel /\ completions' = completions
  BY DEF After
<1>4. \A t \in Slots : Current(t)' <=> Current(t)
  BY <1>2, <1>3 DEF Current
<1>5. \A i \in DOMAIN completions : Final(i)' <=> Final(i)
  BY <1>3 DEF Final
<1>6. Typed'
  BY <1>1, <1>2, <1>3 DEF PanelInv, Typed, After, IsAccount, IsPanel, IsSeq
<1>7. JobTyped'
  BY <1>1, NoJobOK DEF PanelInv, JobTyped, After
<1>8. Answers'
  BY <1>2, <1>3, <1>4, <1>5 DEF PanelInv, Answers
<1> QED BY <1>6, <1>7, <1>8

(* The awaited answer stays the one it was. *)
LEMMA SameCurrent ==
  ASSUME PanelInv, NEW s \in Slots, NEW j, After(s, j)
  PROVE  /\ \A t \in Slots : Current(t)' <=> Current(t)
         /\ \A i \in DOMAIN completions : Final(i)' <=> Final(i)
<1>1. /\ jobs'[s] = IF j.pc = "done" /\ j.helper = "none" THEN NoJob ELSE j
      /\ \A t \in Slots \ {s} : jobs'[t] = jobs[t]
  BY AfterIs DEF After
<1>2. /\ panel' = panel /\ completions' = completions
      /\ j.generation = jobs[s].generation /\ (j.pc = "done" <=> jobs[s].pc = "done")
  BY DEF After
<1>3. Current(s)' <=> Current(s)
  <2>1. Live(s)' <=> Live(s)
    BY <1>1, <1>2, NoJobIs DEF Live
  <2>2. Live(s) => jobs'[s].generation = jobs[s].generation
    BY <1>1, <1>2 DEF Live
  <2> QED BY <1>2, <2>1, <2>2 DEF Current
<1>4. \A t \in Slots \ {s} : Current(t)' <=> Current(t)
  BY <1>1, <1>2 DEF Current, Live
<1>5. \A i \in DOMAIN completions : Final(i)' <=> Final(i)
  BY <1>2 DEF Final
<1> QED BY <1>3, <1>4, <1>5

(* An own file stays without a helper, and a tight file tight. *)
LEMMA OthersKeep ==
  ASSUME PanelInv, NEW s \in Slots, NEW j, After(s, j), orphaned' \in {orphaned, ~Own},
         Own => j.helper = "none" /\ j.pc \notin Elevates /\ j.slip = FALSE,
         Sound => Sound',
         Live(s) /\ j.exit \in {"is 0", "0"} /\ j.kind # "load" => Sound',
         j.pc = "send" /\ j.result \in Edits => Sound'
  PROVE  Alone' /\ Tightened'
<1>1. /\ jobs'[s] = IF j.pc = "done" /\ j.helper = "none" THEN NoJob ELSE j
      /\ \A t \in Slots \ {s} : jobs'[t] = jobs[t]
  BY AfterIs DEF After
<1>2. /\ panel' = panel /\ completions' = completions /\ (Own' <=> Own)
      /\ j.kind = jobs[s].kind /\ (j.pc = "done" <=> jobs[s].pc = "done")
  BY DEF After, Own
<1>4. \A i \in DOMAIN completions : Final(i)' <=> Final(i)
  BY <1>2 DEF Final
<1>5. Alone'
  <2>1. SUFFICES ASSUME Own PROVE Alone'
    BY <1>2 DEF Alone
  <2>2. \A t \in Slots : jobs'[t].helper = "none" /\ jobs'[t].pc \notin Elevates
                         /\ jobs'[t].slip = FALSE
    <3>1. NoJob.helper = "none" /\ NoJob.pc \notin Elevates /\ NoJob.slip = FALSE
      BY NoJobIs DEF Elevates
    <3> QED BY <1>1, <2>1, <3>1 DEF PanelInv, Alone
  <2>3. orphaned' = FALSE
    BY <2>1 DEF PanelInv, Alone
  <2> QED BY <1>2, <2>1, <2>2, <2>3 DEF PanelInv, Alone
<1>6. Tightened'
  <2>1. ASSUME NEW t \in Slots, Live(t)', jobs'[t].exit \in {"is 0", "0"}, jobs'[t].kind # "load"
        PROVE  Sound'
    <3>1. CASE t = s
      <4>0. jobs'[s] # NoJob
        BY <2>1, <3>1, NoJobIs
      <4>1. jobs'[s] = j /\ Live(s)
        BY <1>1, <1>2, <2>1, <3>1, <4>0 DEF Live
      <4> QED BY <2>1, <3>1, <4>1
    <3>2. CASE t # s
      BY <1>1, <2>1, <3>2 DEF PanelInv, Tightened, Live
    <3> QED BY <3>1, <3>2
  <2>2. ASSUME NEW t \in Slots, jobs'[t].pc = "send", jobs'[t].result \in Edits PROVE Sound'
    <3>1. CASE t = s
      <4>1. jobs'[s] # NoJob
        BY <2>2, <3>1, NoJobIs
      <4> QED BY <1>1, <2>2, <3>1, <4>1
    <3>2. CASE t # s
      BY <1>1, <2>2, <3>2 DEF PanelInv, Tightened
    <3> QED BY <3>1, <3>2
  <2>3. /\ \A i \in DOMAIN completions : Final(i) /\ completions[i].result \in Edits => Sound
        /\ ~panel.busy /\ panel.hint \in Edits => Sound
    BY DEF PanelInv, Tightened
  <2> QED BY <1>2, <1>4, <2>1, <2>2, <2>3 DEF Tightened
<1> QED BY <1>5, <1>6

(* What was said of the file stays so when the file stays as it is. *)
LEMMA AfterTruths ==
  ASSUME PanelInv, NEW s \in Slots, NEW j, After(s, j), UNCHANGED <<file, orphaned>>,
         Own => j.helper = "none" /\ j.pc \notin Elevates /\ j.slip = FALSE,
         Current(s) /\ orphaned = FALSE /\ j.slip = FALSE /\ Says(j) => Claim(j) = file,
         Sound => Sound',
         Live(s) /\ j.exit \in {"is 0", "0"} /\ j.kind # "load" => Sound',
         j.pc = "send" /\ j.result \in Edits => Sound'
  PROVE  Alone' /\ Follows' /\ Tightened'
<1>1. /\ jobs'[s] = IF j.pc = "done" /\ j.helper = "none" THEN NoJob ELSE j
      /\ \A t \in Slots \ {s} : jobs'[t] = jobs[t]
  BY AfterIs DEF After
<1>2. Alone' /\ Tightened'
  BY OthersKeep DEF PanelInv
<1>3. /\ panel' = panel /\ completions' = completions
      /\ j.kind = jobs[s].kind /\ j.generation = jobs[s].generation
      /\ (j.pc = "done" <=> jobs[s].pc = "done")
  BY DEF After
<1>4. /\ \A t \in Slots : Current(t)' <=> Current(t)
      /\ \A i \in DOMAIN completions : Final(i)' <=> Final(i)
  BY SameCurrent DEF PanelInv
<1>5. ASSUME orphaned = FALSE, NEW t \in Slots, Current(t)', jobs'[t].slip = FALSE, Says(jobs'[t])
      PROVE  Claim(jobs'[t]) = file'
  <2>1. CASE t = s
    <3>1. jobs'[s] # NoJob
      BY <1>5, <2>1, NoJobIs DEF Current, Live
    <3> QED BY <1>1, <1>4, <1>5, <2>1, <3>1
  <2>2. CASE t # s
    BY <1>1, <1>4, <1>5, <2>2 DEF PanelInv, Follows
  <2> QED BY <2>1, <2>2
<1>6. Follows'
  BY <1>3, <1>4, <1>5 DEF PanelInv, Follows
<1> QED BY <1>2, <1>6

(* A change under way is the one job the panel waits for. *)
LEMMA ChangeAlone ==
  ASSUME PanelInv, NEW s \in Slots, Live(s), jobs[s].kind # "load"
  PROVE  /\ Current(s) /\ panel.busy
         /\ \A t \in Slots \ {s} : Live(t) => jobs[t].kind = "load" /\ ~Current(t)
         /\ \A i \in DOMAIN completions : ~Final(i)
BY DEF PanelInv, Answers

(* A goroutine that writes the file is a change, and has no helper. *)
LEMMA WriterAlone ==
  ASSUME PanelInv, NEW s \in Slots, jobs[s].pc \in Writes
  PROVE  /\ Current(s) /\ panel.busy /\ jobs[s].kind # "load"
         /\ jobs[s].helper = "none" /\ jobs[s].exit = "none"
         /\ \A t \in Slots \ {s} : Live(t) => jobs[t].kind = "load" /\ ~Current(t)
         /\ \A i \in DOMAIN completions : ~Final(i)
<1>1. JobOK(jobs[s]) /\ Live(s)
  BY DEF PanelInv, JobTyped, Live, Writes
<1>2. jobs[s].kind # "load" /\ jobs[s].helper = "none" /\ jobs[s].exit = "none"
  BY <1>1 DEF JobOK, Writes
<1> QED BY <1>1, <1>2 DEF PanelInv, Answers

(* A change may make all of it untrue but what it says itself: the panel is busy
   with it. *)
LEMMA WriterTruths ==
  ASSUME PanelInv, NEW s \in Slots, NEW j, After(s, j), Live(s), jobs[s].kind # "load",
         orphaned' = orphaned,
         Own => j.helper = "none" /\ j.pc \notin Elevates /\ j.slip = FALSE,
         orphaned = FALSE /\ j.slip = FALSE /\ Says(j) => Claim(j) = file',
         j.exit \in {"is 0", "0"} => Sound',
         j.pc = "send" /\ j.result \in Edits => Sound'
  PROVE  Alone' /\ Follows' /\ Tightened'
<1>1. /\ jobs'[s] = IF j.pc = "done" /\ j.helper = "none" THEN NoJob ELSE j
      /\ \A t \in Slots \ {s} : jobs'[t] = jobs[t]
  BY AfterIs DEF After
<1>2. /\ panel' = panel /\ completions' = completions /\ (Own' <=> Own)
      /\ j.kind = jobs[s].kind /\ j.generation = jobs[s].generation
      /\ (j.pc = "done" <=> jobs[s].pc = "done")
  BY DEF After, Own
<1>3. /\ Current(s) /\ panel.busy /\ jobs[s].kind # "load"
      /\ \A t \in Slots \ {s} : Live(t) => jobs[t].kind = "load" /\ ~Current(t)
      /\ \A i \in DOMAIN completions : ~Final(i)
  BY ChangeAlone
<1>4. /\ \A t \in Slots \ {s} : ~Current(t)'
      /\ \A i \in DOMAIN completions' : ~Final(i)'
  BY <1>1, <1>2, <1>3 DEF Current, Live, Final
<1>5. jobs'[s] = j
  BY <1>1, <1>2 DEF Live
<1>6. Alone'
  BY <1>1, <1>2, <1>5, Zenon DEF PanelInv, Alone
<1>7. Follows'
  BY <1>2, <1>3, <1>4, <1>5 DEF Follows
<1>8. Tightened'
  <2>1. ASSUME NEW t \in Slots, Live(t)', jobs'[t].exit \in {"is 0", "0"}, jobs'[t].kind # "load"
        PROVE  Sound'
    BY <1>1, <1>3, <1>5, <2>1 DEF Live
  <2>2. ASSUME NEW t \in Slots, jobs'[t].pc = "send", jobs'[t].result \in Edits PROVE t = s
    <3>1. SUFFICES ASSUME t # s PROVE FALSE
      OBVIOUS
    <3>2. Live(t) /\ jobs[t].pc = "send" /\ jobs[t].result \in Edits /\ jobs[t].kind = "load"
      BY <1>1, <1>3, <2>2, <3>1 DEF Live
    <3> QED BY <3>2 DEF PanelInv, JobTyped, JobOK
  <2>3. \A t \in Slots : jobs'[t].pc = "send" /\ jobs'[t].result \in Edits => Sound'
    BY <1>5, <2>2
  <2> QED BY <1>2, <1>3, <1>4, <2>1, <2>3 DEF Tightened
<1> QED BY <1>6, <1>7, <1>8

-----------------------------------------------------------------------------
(* The steps of the goroutines and the helpers. *)

(* A step that leaves the file as it is. *)
LEMMA StepKeeps ==
  ASSUME PanelInv, NEW s \in Slots, NEW j, After(s, j), acl' \in {"open", "tight"},
         UNCHANGED <<file, orphaned>>,
         Own => j.helper = "none" /\ j.pc \notin Elevates /\ j.slip = FALSE,
         Current(s) /\ orphaned = FALSE /\ j.slip = FALSE /\ Says(j) => Claim(j) = file,
         Sound => Sound',
         Live(s) /\ j.exit \in {"is 0", "0"} /\ j.kind # "load" => Sound',
         j.pc = "send" /\ j.result \in Edits => Sound'
  PROVE  PanelInv'
<1>1. orphaned' \in BOOLEAN
  BY DEF PanelInv, Typed
<1> QED BY <1>1, AfterAnswers, AfterTruths DEF PanelInv

(* A step of a change, which may write the file. *)
LEMMA WriterKeeps ==
  ASSUME PanelInv, NEW s \in Slots, NEW j, After(s, j), acl' \in {"open", "tight"},
         Live(s), jobs[s].kind # "load", orphaned' = orphaned,
         Own => j.helper = "none" /\ j.pc \notin Elevates /\ j.slip = FALSE,
         orphaned = FALSE /\ j.slip = FALSE /\ Says(j) => Claim(j) = file',
         j.exit \in {"is 0", "0"} => Sound',
         j.pc = "send" /\ j.result \in Edits => Sound'
  PROVE  PanelInv'
<1>1. orphaned' \in BOOLEAN
  BY DEF PanelInv, Typed
<1> QED BY <1>1, AfterAnswers, WriterTruths DEF PanelInv

(* What the invariant says of the one job. *)
LEMMA JobIs ==
  ASSUME PanelInv, NEW s \in Slots
  PROVE  /\ JobOK(jobs[s]) /\ acl \in {"open", "tight"}
         /\ Own => jobs[s].helper = "none" /\ jobs[s].pc \notin Elevates /\ jobs[s].slip = FALSE
         /\ Live(s) /\ jobs[s].exit \in {"is 0", "0"} /\ jobs[s].kind # "load" => Sound
         /\ orphaned = FALSE /\ Current(s) /\ jobs[s].slip = FALSE /\ Says(jobs[s])
              => Claim(jobs[s]) = file
         /\ jobs[s].pc = "send" /\ jobs[s].result \in Edits => Sound
BY DEF PanelInv, Typed, JobTyped, Alone, Follows, Tightened

(* The fields of a job after its steps. *)
LEMMA TmpIs ==
  ASSUME NEW j, IsJob(j), NEW v
  PROVE  LET k == [j EXCEPT !.tmp = v] IN
         /\ IsJob(k) /\ k.kind = j.kind /\ k.generation = j.generation /\ k.pc = j.pc
         /\ k.result = j.result /\ k.helper = j.helper /\ k.exit = j.exit
         /\ Aside(k) = <<j.text, v, j.slip>> /\ k.raw = j.raw
BY DEF IsJob, Aside

LEMMA ResultIs ==
  ASSUME NEW j, IsJob(j), NEW r
  PROVE  LET k == Result(j, r) IN
         /\ IsJob(k) /\ k.kind = j.kind /\ k.generation = j.generation /\ k.pc = "send"
         /\ k.result = r /\ k.helper = j.helper /\ k.exit = j.exit /\ k.text = j.text
         /\ k.tmp = Gone /\ k.slip = j.slip /\ k.raw = j.raw
<1> DEFINE a == [j EXCEPT !.pc = "send"]
           b == [a EXCEPT !.result = r]
           c == [b EXCEPT !.tmp = Gone]
<1>1. /\ IsJob(a) /\ a.kind = j.kind /\ a.generation = j.generation /\ a.pc = "send"
      /\ a.helper = j.helper /\ a.exit = j.exit /\ Aside(a) = Aside(j) /\ a.raw = j.raw
  BY DEF IsJob, Aside
<1>2. Result(j, r) = c
  BY DEF Result, Gone
<1> HIDE DEF a
<1>3. /\ IsJob(b) /\ b.kind = j.kind /\ b.generation = j.generation /\ b.pc = "send"
      /\ b.helper = j.helper /\ b.exit = j.exit /\ Aside(b) = Aside(j) /\ b.raw = j.raw
      /\ b.result = r
  BY <1>1 DEF IsJob, Aside
<1> HIDE DEF b
<1>4. /\ IsJob(c) /\ c.kind = j.kind /\ c.generation = j.generation /\ c.pc = "send"
      /\ c.helper = j.helper /\ c.exit = j.exit /\ c.text = j.text /\ c.tmp = Gone
      /\ c.slip = j.slip /\ c.raw = j.raw /\ c.result = r
  BY <1>3, TmpIs DEF Aside
<1> HIDE DEF c
<1> QED BY <1>2, <1>4

LEMMA ResultOK ==
  ASSUME NEW j, JobOK(j), j.pc # "done", NEW r \in Results,
         r \in Edits => j.kind \in {"add", "remove"}
  PROVE  /\ JobOK(Result(j, r)) /\ Result(j, r).slip = j.slip
         /\ Result(j, r).text = j.text
<1> DEFINE k == Result(j, r)
<1>1. /\ IsJob(k) /\ k.kind = j.kind /\ k.generation = j.generation /\ k.pc = "send"
      /\ k.result = r /\ k.helper = j.helper /\ k.exit = j.exit
      /\ k.text = j.text /\ k.tmp = Gone /\ k.slip = j.slip /\ k.raw = j.raw
  BY ResultIs DEF JobOK
<1> HIDE DEF k
<1>2. k.slip = j.slip /\ k.text = j.text /\ k.tmp = FALSE
  BY <1>1, Zenon DEF Gone
<1>3. k.tmp \in BOOLEAN /\ ~(k.tmp = TRUE)
  BY <1>2
<1>4. k.slip \in BOOLEAN
  BY <1>2 DEF JobOK
<1>5. JobOK(k)
  BY <1>1, <1>3, <1>4 DEF JobOK, Writes, Elevates
<1> QED BY <1>2, <1>5 DEF k

LEMMA RawIs ==
  ASSUME NEW j, IsJob(j), NEW v
  PROVE  LET k == [j EXCEPT !.raw = v] IN
         /\ IsJob(k) /\ k.kind = j.kind /\ k.generation = j.generation /\ k.pc = j.pc
         /\ k.result = j.result /\ k.helper = j.helper /\ k.exit = j.exit
         /\ Aside(k) = Aside(j) /\ k.raw = v
BY DEF IsJob, Aside

LEMMA SlipIs ==
  ASSUME NEW j, IsJob(j), NEW v
  PROVE  LET k == [j EXCEPT !.slip = v] IN
         /\ IsJob(k) /\ k.kind = j.kind /\ k.generation = j.generation /\ k.pc = j.pc
         /\ k.result = j.result /\ k.helper = j.helper /\ k.exit = j.exit
         /\ Aside(k) = <<j.text, j.tmp, v>> /\ k.raw = j.raw
BY DEF IsJob, Aside

LEMMA HelperIs ==
  ASSUME NEW j, IsJob(j), NEW h
  PROVE  LET k == [j EXCEPT !.helper = h] IN
         /\ IsJob(k) /\ k.kind = j.kind /\ k.generation = j.generation /\ k.pc = j.pc
         /\ k.result = j.result /\ k.helper = h /\ k.exit = j.exit /\ Aside(k) = Aside(j)
         /\ k.raw = j.raw
BY DEF IsJob, Aside

LEMMA StartIs ==
  ASSUME NEW j, IsJob(j)
  PROVE  LET k == [j EXCEPT !.pc = "wait", !.tmp = TRUE, !.helper = "start"] IN
         /\ IsJob(k) /\ k.kind = j.kind /\ k.generation = j.generation /\ k.pc = "wait"
         /\ k.result = j.result /\ k.helper = "start" /\ k.exit = j.exit /\ k.text = j.text
         /\ k.tmp = TRUE /\ k.slip = j.slip /\ k.raw = j.raw
<1> DEFINE a == [j EXCEPT !.pc = "wait"]
           b == [a EXCEPT !.tmp = TRUE]
           c == [b EXCEPT !.helper = "start"]
<1>1. /\ IsJob(a) /\ a.kind = j.kind /\ a.generation = j.generation /\ a.pc = "wait"
      /\ a.result = j.result /\ a.exit = j.exit /\ Aside(a) = Aside(j) /\ a.raw = j.raw
  BY DEF IsJob, Aside
<1>2. [j EXCEPT !.pc = "wait", !.tmp = TRUE, !.helper = "start"] = c
  OBVIOUS
<1> HIDE DEF a
<1>3. /\ IsJob(b) /\ b.kind = j.kind /\ b.generation = j.generation /\ b.pc = "wait"
      /\ b.result = j.result /\ b.exit = j.exit /\ b.text = j.text /\ b.tmp = TRUE
      /\ b.slip = j.slip /\ b.raw = j.raw
  BY <1>1, TmpIs DEF Aside
<1> HIDE DEF b
<1>4. /\ IsJob(c) /\ c.kind = j.kind /\ c.generation = j.generation /\ c.pc = "wait"
      /\ c.result = j.result /\ c.helper = "start" /\ c.exit = j.exit /\ c.text = j.text
      /\ c.tmp = TRUE /\ c.slip = j.slip /\ c.raw = j.raw
  BY <1>3, HelperIs
<1> HIDE DEF c
<1> QED BY <1>2, <1>4

LEMMA FailureKeeps ==
  ASSUME PanelInv, NEW s \in Slots, Live(s), Set(s, Error(jobs[s])),
         UNCHANGED <<file, acl, completions>>, Quiet
  PROVE  PanelInv'
<1> DEFINE j == Error(jobs[s])
<1>1. JobOK(jobs[s])
  BY JobIs
<1>2. /\ j.kind = jobs[s].kind /\ j.generation = jobs[s].generation /\ j.pc = "send"
      /\ j.result = "error" /\ j.helper = jobs[s].helper /\ j.exit = jobs[s].exit
      /\ j.text = jobs[s].text /\ j.tmp = Gone /\ j.slip = jobs[s].slip
      /\ j.raw = jobs[s].raw /\ IsJob(j)
  BY <1>1, ResultIs DEF JobOK, Error
<1>3. JobOK(j)
  <2>1. "error" \in Results /\ "error" \notin Edits
    BY DEF Results, Edits
  <2> QED BY <1>1, <2>1, ResultOK DEF Error, Live
<1>4. After(s, j)
  BY <1>2, <1>3 DEF After, Live, Quiet, Still
<1>5. Sound' <=> Sound
  BY DEF Sound
<1> HIDE DEF j
<1>6. ~Says(j) /\ j.slip = jobs[s].slip
  BY <1>2 DEF Says, Works, Aside
<1> QED BY <1>2, <1>4, <1>5, <1>6, JobIs, StepKeeps DEF Quiet, Edits, Elevates

LEMMA LoadKeeps ==
  ASSUME PanelInv, NEW s \in Slots, Load(s)
  PROVE  PanelInv'
<1>1. JobOK(jobs[s]) /\ jobs[s].kind = "load" /\ jobs[s].pc = "read" /\ Live(s)
  BY JobIs DEF Load, JobOK, Live
<1>2. UNCHANGED <<file, acl, completions>> /\ Quiet /\ (Sound' <=> Sound)
  BY DEF Load, Sound
<1>3. ASSUME file # NoFile, Set(s, Result([jobs[s] EXCEPT !.raw = file], "loaded"))
      PROVE  PanelInv'
  <2> DEFINE j == Result([jobs[s] EXCEPT !.raw = file], "loaded")
  <2>1. /\ j.kind = jobs[s].kind /\ j.generation = jobs[s].generation /\ j.pc = "send"
        /\ j.result = "loaded" /\ j.helper = jobs[s].helper /\ j.exit = jobs[s].exit
        /\ j.text = jobs[s].text /\ j.tmp = Gone /\ j.slip = jobs[s].slip
        /\ j.raw = file /\ IsJob(j)
    <3> DEFINE k == [jobs[s] EXCEPT !.raw = file]
    <3>1. /\ IsJob(k) /\ k.kind = jobs[s].kind /\ k.generation = jobs[s].generation
          /\ k.helper = jobs[s].helper /\ k.exit = jobs[s].exit /\ Aside(k) = Aside(jobs[s])
          /\ k.raw = file
      BY <1>1, RawIs DEF JobOK
    <3> HIDE DEF k
    <3>2. /\ IsJob(Result(k, "loaded")) /\ Result(k, "loaded").kind = k.kind
          /\ Result(k, "loaded").generation = k.generation /\ Result(k, "loaded").pc = "send"
          /\ Result(k, "loaded").result = "loaded" /\ Result(k, "loaded").helper = k.helper
          /\ Result(k, "loaded").exit = k.exit
          /\ Result(k, "loaded").text = k.text /\ Result(k, "loaded").tmp = Gone
          /\ Result(k, "loaded").slip = k.slip /\ Result(k, "loaded").raw = k.raw
      BY <3>1, ResultIs
    <3>3. k.text = jobs[s].text /\ k.slip = jobs[s].slip
      BY <3>1, Zenon DEF Aside
    <3>4. j = Result(k, "loaded")
      BY DEF k
    <3> HIDE DEF j
    <3> QED BY <3>1, <3>2, <3>3, <3>4
  <2>2. JobOK(j)
    <3> HIDE DEF j
    <3>1. j.slip = jobs[s].slip /\ j.tmp = FALSE
      BY <2>1, Zenon DEF Gone
    <3>2. j.slip \in BOOLEAN /\ j.tmp \in BOOLEAN /\ ~(j.tmp = TRUE)
      BY <1>1, <3>1 DEF JobOK
    <3> QED BY <1>1, <2>1, <3>2 DEF JobOK, Results, Writes, Elevates, Edits
  <2>3. After(s, j)
    BY <1>1, <1>2, <1>3, <2>1, <2>2 DEF After, Quiet, Still
  <2> HIDE DEF j
  <2>4. Claim(j) = file /\ j.slip = jobs[s].slip
    BY <2>1 DEF Claim, Aside
  <2> QED BY <1>2, <2>1, <2>3, <2>4, JobIs, StepKeeps DEF Quiet, Edits, Elevates
<1>4. ASSUME Set(s, Result(jobs[s], "ask")) PROVE PanelInv'
  <2> DEFINE j == Result(jobs[s], "ask")
  <2>1. /\ j.kind = jobs[s].kind /\ j.generation = jobs[s].generation /\ j.pc = "send"
        /\ j.result = "ask" /\ j.helper = jobs[s].helper /\ j.exit = jobs[s].exit
        /\ j.text = jobs[s].text /\ j.tmp = Gone /\ j.slip = jobs[s].slip
        /\ IsJob(j)
    BY <1>1, ResultIs DEF JobOK
  <2>2. JobOK(j)
    BY <1>1, ResultOK DEF Results, Edits
  <2>3. After(s, j)
    BY <1>1, <1>2, <1>4, <2>1, <2>2 DEF After, Quiet, Still
  <2> HIDE DEF j
  <2>4. ~Says(j) /\ j.slip = jobs[s].slip
    BY <2>1 DEF Says, Works, Aside
  <2> QED BY <1>2, <2>1, <2>3, <2>4, JobIs, StepKeeps DEF Quiet, Edits, Elevates
<1>5. ASSUME NeedsElevation, Set(s, [jobs[s] EXCEPT !.pc = "prompt"]) PROVE PanelInv'
  <2> DEFINE j == [jobs[s] EXCEPT !.pc = "prompt"]
  <2>1. /\ j.kind = jobs[s].kind /\ j.generation = jobs[s].generation /\ j.pc = "prompt"
        /\ j.result = jobs[s].result /\ j.helper = jobs[s].helper /\ j.exit = jobs[s].exit
        /\ Aside(j) = Aside(jobs[s])
        /\ IsJob(j)
    BY <1>1 DEF JobOK, IsJob, Aside
  <2>2. JobOK(j)
    <3> HIDE DEF j
    <3>1. j.slip = jobs[s].slip /\ j.tmp = jobs[s].tmp
      BY <2>1, Zenon DEF Aside
    <3>2. j.slip = FALSE /\ j.slip \in BOOLEAN /\ j.tmp \in BOOLEAN /\ ~(j.tmp = TRUE)
      BY <1>1, <3>1 DEF JobOK
    <3> QED BY <1>1, <2>1, <3>2 DEF JobOK, Results, Writes, Elevates, Edits
  <2>3. After(s, j)
    BY <1>1, <1>2, <1>5, <2>1, <2>2 DEF After, Quiet, Still
  <2>4. ~Own
    BY <1>5 DEF NeedsElevation, Own
  <2> HIDE DEF j
  <2>5. ~Says(j)
    BY <2>1 DEF Says
  <2> QED BY <1>2, <2>1, <2>3, <2>4, <2>5, JobIs, StepKeeps DEF Quiet
<1>6. Set(s, Error(jobs[s])) => PanelInv'
  BY <1>1, <1>2, FailureKeeps
<1> QED BY <1>3, <1>4, <1>5, <1>6 DEF Load

LEMMA TempKeeps ==
  ASSUME PanelInv, NEW s \in Slots, Temp(s)
  PROVE  PanelInv'
<1> DEFINE j == [jobs[s] EXCEPT !.pc = "unlink"]
<1>1. JobOK(jobs[s]) /\ jobs[s].pc = "temp" /\ Live(s)
  BY JobIs DEF Temp, Live
<1>2. UNCHANGED <<file, acl, completions>> /\ Quiet /\ (Sound' <=> Sound)
  BY DEF Temp, Sound
<1>3. ASSUME Set(s, j) PROVE PanelInv'
  <2>1. /\ j.kind = jobs[s].kind /\ j.generation = jobs[s].generation /\ j.pc = "unlink"
        /\ j.result = jobs[s].result /\ j.helper = jobs[s].helper /\ j.exit = jobs[s].exit
        /\ Aside(j) = Aside(jobs[s])
        /\ j.raw = jobs[s].raw /\ IsJob(j)
    BY <1>1 DEF JobOK, IsJob, Aside
  <2>2. JobOK(j)
    BY <1>1, <2>1 DEF JobOK, Aside, Results, Writes, Elevates, Edits
  <2>3. After(s, j)
    BY <1>1, <1>2, <1>3, <2>1, <2>2 DEF After, Quiet, Still
  <2> HIDE DEF j
  <2>4. ~Says(j) /\ j.slip = jobs[s].slip
    BY <2>1 DEF Says, Aside
  <2> QED BY <1>2, <2>1, <2>3, <2>4, JobIs, StepKeeps DEF Quiet, Elevates
<1>4. Set(s, Error(jobs[s])) => PanelInv'
  BY <1>1, <1>2, FailureKeeps
<1> QED BY <1>3, <1>4 DEF Temp

LEMMA UnlinkKeeps ==
  ASSUME PanelInv, NEW s \in Slots, Unlink(s)
  PROVE  PanelInv'
<1> DEFINE j == [jobs[s] EXCEPT !.pc = "rename"]
<1>1. JobOK(jobs[s]) /\ jobs[s].pc = "unlink" /\ Live(s)
  BY JobIs DEF Unlink, Live
<1>2. UNCHANGED <<acl, completions>> /\ Quiet /\ acl' \in {"open", "tight"}
  BY JobIs DEF Unlink
<1>3. ASSUME Set(s, j) PROVE PanelInv'
  <2>1. /\ j.kind = jobs[s].kind /\ j.generation = jobs[s].generation /\ j.pc = "rename"
        /\ j.result = jobs[s].result /\ j.helper = jobs[s].helper /\ j.exit = jobs[s].exit
        /\ Aside(j) = Aside(jobs[s])
        /\ j.raw = jobs[s].raw /\ IsJob(j)
    BY <1>1 DEF JobOK, IsJob, Aside
  <2>2. JobOK(j)
    BY <1>1, <2>1 DEF JobOK, Aside, Results, Writes, Elevates, Edits
  <2>3. After(s, j)
    BY <1>1, <1>2, <1>3, <2>1, <2>2 DEF After, Quiet, Still
  <2>4. j.helper = "none" /\ j.exit = "none"
    BY <1>1, <2>1, WriterAlone DEF Writes
  <2> HIDE DEF j
  <2>5. ~Says(j) /\ j.slip = jobs[s].slip
    BY <2>1 DEF Says, Aside
  <2> QED BY <1>1, <1>2, <2>1, <2>3, <2>4, <2>5, JobIs, WriterAlone, WriterKeeps DEF Quiet, Elevates, Writes
<1>4. ASSUME UNCHANGED file, Set(s, Error(jobs[s])) PROVE PanelInv'
  BY <1>1, <1>2, <1>4, FailureKeeps
<1> QED BY <1>3, <1>4 DEF Unlink

LEMMA RenameKeeps ==
  ASSUME PanelInv, NEW s \in Slots, Rename(s)
  PROVE  PanelInv'
<1> DEFINE j == [jobs[s] EXCEPT !.pc = "tighten"]
<1>1. JobOK(jobs[s]) /\ jobs[s].pc = "rename" /\ Live(s)
  BY JobIs DEF Rename, Live
<1>2. UNCHANGED completions /\ Quiet
  BY DEF Rename
<1>3. ASSUME file' = jobs[s].raw, acl' = "open", Set(s, j) PROVE PanelInv'
  <2>1. /\ j.kind = jobs[s].kind /\ j.generation = jobs[s].generation /\ j.pc = "tighten"
        /\ j.result = jobs[s].result /\ j.helper = jobs[s].helper /\ j.exit = jobs[s].exit
        /\ Aside(j) = Aside(jobs[s])
        /\ j.raw = jobs[s].raw /\ IsJob(j)
    BY <1>1 DEF JobOK, IsJob, Aside
  <2>2. JobOK(j)
    BY <1>1, <2>1 DEF JobOK, Aside, Results, Writes, Elevates, Edits
  <2>3. After(s, j)
    BY <1>1, <1>2, <1>3, <2>1, <2>2 DEF After, Quiet, Still
  <2>4. j.helper = "none" /\ j.exit = "none"
    BY <1>1, <2>1, WriterAlone DEF Writes
  <2> HIDE DEF j
  <2>5. Claim(j) = file' /\ j.slip = jobs[s].slip
    BY <1>1, <1>3, <2>1, WriterAlone DEF Claim, Aside, Writes
  <2> QED BY <1>1, <1>2, <1>3, <2>1, <2>3, <2>4, <2>5, JobIs, WriterAlone, WriterKeeps DEF Quiet, Elevates, Writes
<1>4. ASSUME UNCHANGED <<file, acl>>, Set(s, Error(jobs[s])) PROVE PanelInv'
  BY <1>1, <1>2, <1>4, FailureKeeps
<1> QED BY <1>3, <1>4 DEF Rename

LEMMA TightenKeeps ==
  ASSUME PanelInv, NEW s \in Slots, Tighten(s)
  PROVE  PanelInv'
<1> DEFINE j == Written(jobs[s])
<1>1. JobOK(jobs[s]) /\ jobs[s].pc = "tighten" /\ Live(s) /\ acl \in {"open", "tight"}
  BY JobIs DEF Tighten, Live
<1>2. UNCHANGED <<file, completions>> /\ Quiet
  BY DEF Tighten
<1>3. ASSUME file # NoFile, acl' = "tight", Set(s, j) PROVE PanelInv'
  <2>1. /\ j.kind = jobs[s].kind /\ j.generation = jobs[s].generation /\ j.pc = "send"
        /\ j.result \in Edits /\ j.helper = jobs[s].helper /\ j.exit = jobs[s].exit
        /\ j.text = jobs[s].text /\ j.tmp = Gone /\ j.slip = jobs[s].slip
        /\ j.raw = jobs[s].raw /\ IsJob(j)
    BY <1>1, ResultIs DEF JobOK, Written, Edits
  <2>2. JobOK(j)
    <3>1. jobs[s].kind \in {"add", "remove"} /\ jobs[s].pc # "done"
      BY <1>1 DEF JobOK, Writes
    <3>2. Edits \subseteq Results
      BY DEF Edits, Results
    <3>3. PICK r \in Edits : j = Result(jobs[s], r)
      BY DEF Written, Edits
    <3> QED BY <1>1, <3>1, <3>2, <3>3, ResultOK
  <2>3. After(s, j)
    BY <1>1, <1>2, <1>3, <2>1, <2>2 DEF After, Quiet, Still
  <2>4. j.helper = "none" /\ j.exit = "none" /\ Current(s)
    BY <1>1, <2>1, WriterAlone DEF Writes
  <2>5. orphaned = FALSE /\ jobs[s].slip = FALSE => Claim(j) = file
    <3>1. Says(jobs[s]) /\ Claim(jobs[s]) = jobs[s].raw
      BY <1>1, WriterAlone DEF Says, Claim, Writes
    <3>2. Claim(j) = jobs[s].raw
      BY <2>1 DEF Claim
    <3> QED BY <2>4, <3>1, <3>2, JobIs
  <2>6. Sound'
    BY <1>2, <1>3 DEF Sound
  <2> HIDE DEF j
  <2>7. j.slip = jobs[s].slip
    BY <2>1 DEF Aside
  <2> QED BY <1>1, <1>2, <1>3, <2>1, <2>3, <2>4, <2>5, <2>6, <2>7, JobIs, WriterAlone, WriterKeeps
          DEF Quiet, Elevates, Writes
<1>4. ASSUME UNCHANGED acl, Set(s, Error(jobs[s])) PROVE PanelInv'
  BY <1>1, <1>2, <1>4, FailureKeeps
<1> QED BY <1>3, <1>4 DEF Tighten

LEMMA PromptKeeps ==
  ASSUME PanelInv, NEW s \in Slots, Prompt(s)
  PROVE  PanelInv'
<1> DEFINE j == [jobs[s] EXCEPT !.pc = "wait", !.tmp = TRUE, !.helper = "start"]
<1>1. JobOK(jobs[s]) /\ jobs[s].pc = "prompt" /\ Live(s) /\ ~Own
  BY JobIs DEF Prompt, Live, Elevates
<1>2. UNCHANGED <<file, acl, completions>> /\ Quiet /\ (Sound' <=> Sound)
  BY DEF Prompt, Sound
<1>3. ASSUME Set(s, j) PROVE PanelInv'
  <2>1. /\ j.kind = jobs[s].kind /\ j.generation = jobs[s].generation /\ j.pc = "wait"
        /\ j.result = jobs[s].result /\ j.helper = "start" /\ j.exit = jobs[s].exit
        /\ j.text = jobs[s].text /\ j.tmp = TRUE /\ j.slip = jobs[s].slip
        /\ j.raw = jobs[s].raw /\ IsJob(j)
    BY <1>1, StartIs DEF JobOK
  <2>2. JobOK(j)
    BY <1>1, <2>1 DEF JobOK, Aside, Results, Writes, Elevates, Edits
  <2>3. After(s, j)
    BY <1>1, <1>2, <1>3, <2>1, <2>2 DEF After, Quiet, Still
  <2> HIDE DEF j
  <2>4. ~Says(j)
    BY <1>1, <2>1 DEF Says, JobOK
  <2> QED BY <1>1, <1>2, <2>1, <2>3, <2>4, JobIs, StepKeeps DEF Quiet
<1>4. Set(s, Error(jobs[s])) => PanelInv'
  BY <1>1, <1>2, FailureKeeps
<1> QED BY <1>3, <1>4 DEF Prompt

LEMMA WaitKeeps ==
  ASSUME PanelInv, NEW s \in Slots, Wait(s)
  PROVE  PanelInv'
<1> DEFINE j == [jobs[s] EXCEPT !.pc = "report"]
<1>1. JobOK(jobs[s]) /\ jobs[s].pc = "wait" /\ Live(s) /\ ~Own
  BY JobIs DEF Wait, Live, Elevates
<1>2. UNCHANGED <<file, acl, completions>> /\ Quiet /\ (Sound' <=> Sound)
  BY DEF Wait, Sound
<1>3. ASSUME Set(s, j) PROVE PanelInv'
  <2>1. /\ j.kind = jobs[s].kind /\ j.generation = jobs[s].generation /\ j.pc = "report"
        /\ j.result = jobs[s].result /\ j.helper = jobs[s].helper /\ j.exit = jobs[s].exit
        /\ Aside(j) = Aside(jobs[s])
        /\ j.raw = jobs[s].raw /\ IsJob(j)
    BY <1>1 DEF JobOK, IsJob, Aside
  <2>2. JobOK(j)
    BY <1>1, <2>1 DEF JobOK, Aside, Results, Writes, Elevates, Edits
  <2>3. After(s, j)
    BY <1>1, <1>2, <1>3, <2>1, <2>2 DEF After, Quiet, Still
  <2> HIDE DEF j
  <2>4. Says(j) = Says(jobs[s]) /\ Claim(j) = Claim(jobs[s]) /\ j.slip = jobs[s].slip
    BY <1>1, <2>1 DEF Says, Claim, Aside
  <2> QED BY <1>1, <1>2, <2>1, <2>3, <2>4, JobIs, StepKeeps DEF Quiet
<1>4. Set(s, Error(jobs[s])) => PanelInv'
  BY <1>1, <1>2, FailureKeeps
<1> QED BY <1>3, <1>4 DEF Wait

LEMMA ReportKeeps ==
  ASSUME PanelInv, NEW s \in Slots, Report(s)
  PROVE  PanelInv'
<1>1. JobOK(jobs[s]) /\ jobs[s].pc = "report" /\ Live(s) /\ ~Own
  BY JobIs DEF Report, Live, Elevates
<1>2. UNCHANGED <<file, acl, completions>> /\ Quiet /\ (Sound' <=> Sound)
  BY DEF Report, Sound
<1>3. ASSUME jobs[s].kind = "load",
             Set(s, Result([jobs[s] EXCEPT !.raw = jobs[s].text, !.slip = ~TypedAll(jobs[s])], "loaded"))
      PROVE  PanelInv'
  <2> DEFINE k == [jobs[s] EXCEPT !.raw = jobs[s].text]
             v == ~TypedAll(jobs[s])
             l == [k EXCEPT !.slip = v]
             j == Result(l, "loaded")
  <2>1. /\ IsJob(k) /\ k.kind = jobs[s].kind /\ k.generation = jobs[s].generation
        /\ k.helper = jobs[s].helper /\ k.exit = jobs[s].exit /\ Aside(k) = Aside(jobs[s])
        /\ k.raw = jobs[s].text
    BY <1>1, RawIs DEF JobOK
  <2>2. Set(s, j)
    BY <1>3
  <2> HIDE DEF k
  <2>3. v \in BOOLEAN /\ (v = FALSE => jobs[s].exit \in {"is 0", "0"})
    BY DEF TypedAll
  <2> HIDE DEF v
  <2>4. /\ IsJob(l) /\ l.kind = k.kind /\ l.generation = k.generation
        /\ l.helper = k.helper /\ l.exit = k.exit /\ Aside(l) = <<k.text, k.tmp, v>>
        /\ l.raw = k.raw
    BY <2>1, SlipIs
  <2> HIDE DEF l
  <2>5. /\ IsJob(j) /\ j.kind = l.kind /\ j.generation = l.generation /\ j.pc = "send"
        /\ j.result = "loaded" /\ j.helper = l.helper /\ j.exit = l.exit
        /\ j.text = l.text /\ j.tmp = Gone /\ j.slip = l.slip /\ j.raw = l.raw
    BY <2>4, ResultIs
  <2> HIDE DEF j
  <2>6. j.slip = v /\ j.tmp = FALSE
    BY <2>4, <2>5, Zenon DEF Aside, Gone
  <2>7. JobOK(j)
    <3>1. j.slip \in BOOLEAN /\ j.tmp \in BOOLEAN /\ ~(j.tmp = TRUE)
      BY <2>3, <2>6
    <3>2. /\ IsJob(j) /\ j.kind = "load" /\ j.generation = jobs[s].generation /\ j.pc = "send"
          /\ j.result = "loaded" /\ j.helper = jobs[s].helper /\ j.exit = jobs[s].exit
      BY <1>3, <2>1, <2>4, <2>5
    <3> QED BY <1>1, <1>3, <3>1, <3>2 DEF JobOK, Results, Writes, Elevates, Edits
  <2>8. After(s, j)
    BY <1>1, <1>2, <2>1, <2>2, <2>4, <2>5, <2>7 DEF After, Quiet, Still
  <2>9. ASSUME Current(s), orphaned = FALSE, v = FALSE PROVE Claim(j) = file
    <3>1. Says(jobs[s]) /\ jobs[s].slip = FALSE /\ Claim(jobs[s]) = jobs[s].text
      BY <1>1, <1>3, <2>3, <2>9 DEF Says, Claim, JobOK, Elevates
    <3>2. Claim(j) = jobs[s].text
      BY <2>1, <2>4, <2>5 DEF Claim
    <3> QED BY <2>9, <3>1, <3>2, JobIs
  <2> QED BY <1>1, <1>2, <1>3, <2>1, <2>4, <2>5, <2>6, <2>8, <2>9, JobIs, StepKeeps DEF Quiet, Edits
<1>4. ASSUME jobs[s].kind # "load", SaysDone(jobs[s]), Set(s, Written(jobs[s])) PROVE PanelInv'
  <2> DEFINE j == Written(jobs[s])
  <2>1. /\ j.kind = jobs[s].kind /\ j.generation = jobs[s].generation /\ j.pc = "send"
        /\ j.result \in Edits /\ j.helper = jobs[s].helper /\ j.exit = jobs[s].exit
        /\ j.text = jobs[s].text /\ j.tmp = Gone /\ j.slip = jobs[s].slip
        /\ j.raw = jobs[s].raw /\ IsJob(j)
    BY <1>1, ResultIs DEF JobOK, Written, Edits
  <2>2. JobOK(j)
    <3>1. jobs[s].kind \in {"add", "remove"} /\ jobs[s].pc # "done"
      BY <1>1, <1>4 DEF JobOK, Writes
    <3>2. Edits \subseteq Results
      BY DEF Edits, Results
    <3>3. PICK r \in Edits : j = Result(jobs[s], r)
      BY DEF Written, Edits
    <3> QED BY <1>1, <3>1, <3>2, <3>3, ResultOK
  <2>3. After(s, j)
    BY <1>1, <1>2, <1>4, <2>1, <2>2 DEF After, Quiet, Still
  <2>4. Sound
    BY <1>1, <1>4, JobIs DEF SaysDone
  <2> HIDE DEF j
  <2>5. j.slip = jobs[s].slip /\ Claim(j) = Claim(jobs[s]) /\ Says(jobs[s])
    BY <1>1, <1>4, <2>1 DEF Claim, Says, Aside, SaysDone
  <2> QED BY <1>1, <1>2, <1>4, <2>1, <2>3, <2>4, <2>5, JobIs, StepKeeps DEF Quiet
<1>5. Set(s, Error(jobs[s])) => PanelInv'
  BY <1>1, <1>2, FailureKeeps
<1> QED BY <1>3, <1>4, <1>5 DEF Report

LEMMA TextIs ==
  ASSUME NEW j, IsJob(j), NEW v
  PROVE  LET k == [j EXCEPT !.text = v] IN
         /\ IsJob(k) /\ k.kind = j.kind /\ k.generation = j.generation /\ k.pc = j.pc
         /\ k.result = j.result /\ k.helper = j.helper /\ k.exit = j.exit
         /\ Aside(k) = <<v, j.tmp, j.slip>> /\ k.raw = j.raw
BY DEF IsJob, Aside

LEMMA ExitIs ==
  ASSUME NEW j, IsJob(j), NEW v
  PROVE  LET k == [j EXCEPT !.exit = v] IN
         /\ IsJob(k) /\ k.kind = j.kind /\ k.generation = j.generation /\ k.pc = j.pc
         /\ k.result = j.result /\ k.helper = j.helper /\ k.exit = v /\ Aside(k) = Aside(j)
         /\ k.raw = j.raw
BY DEF IsJob, Aside, Aside

LEMMA NextLineIs ==
  ASSUME NEW j, IsJob(j), NEW line
  PROVE  LET k == NextLine(j, line) IN
         /\ IsJob(k) /\ k.kind = j.kind /\ k.generation = j.generation /\ k.pc = j.pc
         /\ k.result = j.result /\ k.helper \in {line, "none"} /\ k.exit = j.exit
         /\ Aside(k) = Aside(j)
         /\ k.raw = j.raw
<1> DEFINE h == IF j.tmp THEN line ELSE "none"
<1>1. NextLine(j, line) = [j EXCEPT !.helper = h] /\ h \in {line, "none"}
  BY DEF NextLine
<1> HIDE DEF h
<1> QED BY <1>1, HelperIs

(* A line of the script leaves the job where it is. *)
LEMMA HelperAfter ==
  ASSUME PanelInv, NEW s \in Slots, NEW j, IsJob(j), jobs[s].helper # "none",
         j.kind = jobs[s].kind, j.generation = jobs[s].generation, j.pc = jobs[s].pc,
         j.result = jobs[s].result, j.raw = jobs[s].raw, j.tmp = jobs[s].tmp,
         j.slip = jobs[s].slip \/ (j.slip = TRUE /\ j.kind # "load"),
         j.helper \in {"none", "command", "icacls", "mark"},
         j.helper = "icacls" => j.kind # "load", j.helper = "command" => j.exit = "none",
         Set(s, j), UNCHANGED completions, Still
  PROVE  After(s, j) /\ ~Own
<1>1. JobOK(jobs[s]) /\ ~Own
  BY JobIs
<1>2. jobs[s].pc \in {"wait", "report", "send", "done"}
  BY <1>1 DEF JobOK
<1>3. JobOK(j)
  <2>1. jobs[s].kind \in {"load", "add", "remove"}
    BY <1>1 DEF JobOK
  <2>2. /\ j.generation \in Nat /\ j.result \in Results /\ j.pc \in {"wait", "report", "send", "done"}
        /\ j.kind = "load" \/ j.raw # NoFile
        /\ j.pc = "send" /\ j.result \in Edits => j.kind \in {"add", "remove"}
    BY <1>1, <1>2 DEF JobOK
  <2>3. /\ j.tmp \in BOOLEAN /\ j.slip \in BOOLEAN
        /\ j.tmp = TRUE => j.pc \in {"wait", "report", "done"}
        /\ j.kind = "load" /\ j.pc \in {"read"} \cup Elevates => j.slip = FALSE
    BY <1>1 DEF JobOK
  <2> QED BY <1>2, <2>1, <2>2, <2>3 DEF JobOK, Writes, Elevates
<1> QED BY <1>1, <1>3 DEF After, Still

(* A line that leaves the file's content, and a tight file tight. *)
LEMMA HelperKeeps ==
  ASSUME PanelInv, NEW s \in Slots, NEW j, IsJob(j), jobs[s].helper # "none",
         j.kind = jobs[s].kind, j.generation = jobs[s].generation, j.pc = jobs[s].pc,
         j.result = jobs[s].result, j.raw = jobs[s].raw, j.tmp = jobs[s].tmp,
         j.slip = jobs[s].slip \/ (j.slip = TRUE /\ j.kind # "load"),
         j.helper \in {"none", "command", "icacls", "mark"},
         j.helper = "icacls" => j.kind # "load", j.helper = "command" => j.exit = "none",
         Set(s, j), UNCHANGED <<completions, file>>, Quiet, acl' \in {"open", "tight"},
         Sound => Sound',
         \/ j.exit \in {"is 0", "0"} => jobs[s].exit \in {"is 0", "0"}
         \/ j.kind = "load"
         \/ Sound',
         j.slip = FALSE /\ Says(j) => \/ Claim(j) = file
                                      \/ /\ jobs[s].slip = FALSE /\ Says(jobs[s])
                                         /\ Claim(j) = Claim(jobs[s])
  PROVE  PanelInv'
<1>1. After(s, j) /\ ~Own
  BY HelperAfter DEF Quiet
<1>2. /\ Live(s) /\ jobs[s].exit \in {"is 0", "0"} /\ jobs[s].kind # "load" => Sound
      /\ jobs[s].pc = "send" /\ jobs[s].result \in Edits => Sound
      /\ orphaned = FALSE /\ Current(s) /\ jobs[s].slip = FALSE /\ Says(jobs[s])
           => Claim(jobs[s]) = file
  BY JobIs
<1>3. Current(s) /\ orphaned = FALSE /\ j.slip = FALSE /\ Says(j) => Claim(j) = file
  BY <1>2
<1>4. /\ Live(s) /\ j.exit \in {"is 0", "0"} /\ j.kind # "load" => Sound'
      /\ j.pc = "send" /\ j.result \in Edits => Sound'
  BY <1>2
<1> QED BY <1>1, <1>3, <1>4, StepKeeps DEF Quiet

(* A helper that has copied does what its goroutine then reports; one of an
   earlier run is noted. *)
LEMMA CopyKeeps ==
  ASSUME PanelInv, NEW s \in Slots, jobs[s].helper = "command", jobs[s].kind # "load",
         jobs[s].tmp = TRUE, file' = jobs[s].raw, acl' = IF file = NoFile THEN "open" ELSE acl,
         orphaned' = (orphaned \/ (alive /\ jobs[s].pc = "done")),
         Set(s, NextLine(jobs[s], "icacls")), UNCHANGED completions, Still
  PROVE  PanelInv'
<1> DEFINE j == jobs[s]
           k == NextLine(j, "icacls")
<1>1. JobOK(j) /\ IsJob(j) /\ acl \in {"open", "tight"} /\ orphaned \in BOOLEAN /\ alive \in BOOLEAN
  BY JobIs DEF JobOK, PanelInv, Typed
<1>2. j.raw # NoFile /\ j.exit = "none" /\ j.pc \in {"wait", "report", "done"} /\ j.slip \in BOOLEAN
  BY <1>1 DEF JobOK
<1>3. (Sound => Sound') /\ acl' \in {"open", "tight"}
  BY <1>1, <1>2 DEF Sound
<1>4. /\ IsJob(k) /\ k.kind = j.kind /\ k.generation = j.generation /\ k.pc = j.pc
      /\ k.result = j.result /\ k.helper \in {"icacls", "none"} /\ k.exit = j.exit
      /\ Aside(k) = Aside(j) /\ k.raw = j.raw
  BY <1>1, NextLineIs
<1>5. k.tmp = j.tmp /\ k.slip = j.slip
  BY <1>4 DEF Aside
<1>6. Set(s, k)
  OBVIOUS
<1> HIDE DEF k
<1>7. After(s, k) /\ ~Own
  BY <1>2, <1>4, <1>5, <1>6, HelperAfter
<1>8. CASE Live(s)
  <2>1. orphaned' = orphaned
    BY <1>1, <1>8 DEF Live
  <2>2. Claim(k) = file'
    BY <1>4 DEF Claim
  <2>3. ~(k.exit \in {"is 0", "0"}) /\ ~(k.pc = "send")
    BY <1>2, <1>4
  <2> QED BY <1>3, <1>7, <1>8, <2>1, <2>2, <2>3, WriterKeeps
<1>9. CASE ~Live(s)
  <2>1. j.pc = "done" /\ orphaned' \in BOOLEAN
    BY <1>1, <1>9 DEF Live
  <2>2. Typed' /\ JobTyped' /\ Answers'
    BY <1>3, <1>7, <2>1, AfterAnswers
  <2>3. orphaned' \in {orphaned, TRUE}
    BY <1>1
  <2>4. ~(Live(s) /\ k.exit \in {"is 0", "0"}) /\ ~(k.pc = "send")
    BY <1>2, <1>4, <1>9
  <2>5. Alone' /\ Tightened'
    BY <1>3, <1>7, <2>3, <2>4, OthersKeep
  <2>6. Follows'
    <3>1. CASE alive
      <4>1. orphaned' = TRUE
        BY <2>1, <3>1
      <4> QED BY <4>1 DEF Follows
    <3>2. CASE ~alive
      <4>1. panel = NoPanel /\ completions = <<>> /\ \A t \in Slots : ~Live(t)
        BY <3>2 DEF PanelInv, Typed
      <4>2. \A t \in Slots : ~Current(t)'
        BY <1>7, <4>1, SameCurrent DEF Current
      <4>3. panel'.hint \notin Works /\ DOMAIN completions' = {}
        BY <4>1 DEF Still, NoPanel, Works
      <4> QED BY <4>2, <4>3 DEF Follows
    <3> QED BY <1>1, <3>1, <3>2
  <2> QED BY <2>2, <2>5, <2>6 DEF PanelInv
<1> QED BY <1>8, <1>9

LEMMA HelperStepKeeps ==
  ASSUME PanelInv, NEW s \in Slots, HelperStep(s)
  PROVE  PanelInv'
<1> DEFINE j == jobs[s]
<1>1. JobOK(j) /\ IsJob(j) /\ acl \in {"open", "tight"} /\ j.slip \in BOOLEAN
  BY JobIs DEF JobOK
<1>2. ASSUME HelperOpens(s) PROVE PanelInv'
  <2>1. /\ j.helper = "start" /\ UNCHANGED <<file, acl, completions>> /\ Quiet /\ (Sound' <=> Sound)
        /\ j.exit = "none"
    BY <1>1, <1>2 DEF HelperOpens, Sound, JobOK
  <2>2. ASSUME NEW k, IsJob(k), Set(s, k), k.kind = j.kind, k.generation = j.generation,
               k.pc = j.pc, k.result = j.result, k.helper \in {"none", "command"},
               k.exit = j.exit, k.raw = j.raw, k.tmp = j.tmp, k.slip = j.slip
        PROVE  PanelInv'
    <3>1. Says(k) => Says(j) /\ Claim(k) = Claim(j)
      BY <2>1, <2>2, <1>1 DEF Says, Claim, JobOK
    <3> QED BY <1>1, <2>1, <2>2, <3>1, HelperKeeps
  <2>3. ASSUME Set(s, [j EXCEPT !.helper = "none"]) PROVE PanelInv'
    <3> DEFINE k == [j EXCEPT !.helper = "none"]
    <3>1. /\ IsJob(k) /\ k.kind = j.kind /\ k.generation = j.generation /\ k.pc = j.pc
          /\ k.result = j.result /\ k.helper = "none" /\ k.exit = j.exit
          /\ Aside(k) = Aside(j) /\ k.raw = j.raw
      BY <1>1, HelperIs
    <3>2. Set(s, k)
      BY <2>3
    <3> HIDE DEF k
    <3> QED BY <2>2, <3>1, <3>2 DEF Aside
  <2>4. ASSUME Set(s, [j EXCEPT !.helper = "command", !.text = Empty]) PROVE PanelInv'
    <3> DEFINE h == [j EXCEPT !.helper = "command"]
               k == [h EXCEPT !.text = Empty]
    <3>1. /\ IsJob(h) /\ h.kind = j.kind /\ h.generation = j.generation /\ h.pc = j.pc
          /\ h.result = j.result /\ h.helper = "command" /\ h.exit = j.exit
          /\ Aside(h) = Aside(j) /\ h.raw = j.raw
      BY <1>1, HelperIs
    <3>2. Set(s, k)
      BY <2>4
    <3> HIDE DEF h
    <3>3. /\ IsJob(k) /\ k.kind = h.kind /\ k.generation = h.generation /\ k.pc = h.pc
          /\ k.result = h.result /\ k.helper = h.helper /\ k.exit = h.exit
          /\ Aside(k) = <<Empty, h.tmp, h.slip>> /\ k.raw = h.raw
      BY <3>1, TextIs
    <3> HIDE DEF k
    <3>4. k.tmp = j.tmp /\ k.slip = j.slip
      BY <3>1, <3>3 DEF Aside
    <3> QED BY <2>2, <3>1, <3>2, <3>3, <3>4
  <2> QED BY <1>2, <2>3, <2>4 DEF HelperOpens
<1>3. ASSUME HelperTypes(s) PROVE PanelInv'
  <2>1. /\ j.helper = "command" /\ j.kind = "load" /\ UNCHANGED <<file, acl, completions>> /\ Quiet
        /\ (Sound' <=> Sound)
    BY <1>3 DEF HelperTypes, Sound
  <2>2. ASSUME NEW v, NEW e, e = "is 1" \/ (e = "is 0" /\ v = file),
               Set(s, NextLine([j EXCEPT !.text = v, !.exit = e], "mark"))
        PROVE  PanelInv'
    <3> DEFINE t == [j EXCEPT !.text = v]
               x == [t EXCEPT !.exit = e]
               k == NextLine(x, "mark")
    <3>1. Set(s, k)
      BY <2>2
    <3>2. /\ IsJob(t) /\ t.kind = j.kind /\ t.generation = j.generation /\ t.pc = j.pc
          /\ t.result = j.result /\ t.helper = j.helper /\ t.exit = j.exit
          /\ Aside(t) = <<v, j.tmp, j.slip>> /\ t.raw = j.raw
      BY <1>1, TextIs
    <3> HIDE DEF t
    <3>3. /\ IsJob(x) /\ x.kind = t.kind /\ x.generation = t.generation /\ x.pc = t.pc
          /\ x.result = t.result /\ x.helper = t.helper /\ x.exit = e
          /\ Aside(x) = Aside(t) /\ x.raw = t.raw
      BY <3>2, ExitIs
    <3> HIDE DEF x
    <3>4. /\ IsJob(k) /\ k.kind = x.kind /\ k.generation = x.generation /\ k.pc = x.pc
          /\ k.result = x.result /\ k.helper \in {"mark", "none"} /\ k.exit = x.exit
          /\ Aside(k) = Aside(x) /\ k.raw = x.raw
      BY <3>3, NextLineIs
    <3> HIDE DEF k
    <3>5. k.text = v /\ k.tmp = j.tmp /\ k.slip = j.slip
      BY <3>2, <3>3, <3>4 DEF Aside
    <3>6. Says(k) => Claim(k) = file \/ (Says(j) /\ Claim(k) = Claim(j))
      <4>1. k.pc = j.pc /\ k.kind = "load" /\ k.result = j.result /\ k.raw = j.raw /\ k.exit = e
        BY <2>1, <3>2, <3>3, <3>4
      <4>2. j.pc # "tighten"
        BY <1>1, <2>1 DEF JobOK
      <4> QED BY <2>1, <2>2, <3>5, <4>1, <4>2 DEF Says, Claim
    <3>7. /\ IsJob(k) /\ k.kind = "load" /\ k.generation = j.generation /\ k.pc = j.pc
          /\ k.result = j.result /\ k.helper \in {"mark", "none"} /\ k.raw = j.raw
      BY <2>1, <3>2, <3>3, <3>4
    <3> QED BY <1>1, <2>1, <3>1, <3>5, <3>6, <3>7, HelperKeeps
  <2>3. ASSUME file = NoFile,
               Set(s, NextLine([j EXCEPT !.text = Content(<<Remark>>, TRUE), !.exit = "is 1"], "mark"))
        PROVE  PanelInv'
    BY <2>2, <2>3
  <2>4. ASSUME file # NoFile, Set(s, NextLine([j EXCEPT !.text = file, !.exit = "is 0"], "mark"))
        PROVE  PanelInv'
    BY <2>2, <2>4
  <2> QED BY <1>3, <2>3, <2>4 DEF HelperTypes
<1>4. ASSUME HelperCopies(s) PROVE PanelInv'
  <2>1. /\ j.helper = "command" /\ j.kind # "load" /\ UNCHANGED completions /\ Still
        /\ j.tmp \in BOOLEAN /\ j.exit = "none"
    BY <1>1, <1>4 DEF HelperCopies, JobOK
  <2>2. ASSUME j.tmp, file' = j.raw, acl' = IF file = NoFile THEN "open" ELSE acl,
               orphaned' = (orphaned \/ (alive /\ j.pc = "done")),
               Set(s, NextLine(j, "icacls"))
        PROVE  PanelInv'
    BY <2>1, <2>2, CopyKeeps
  <2>3. ASSUME UNCHANGED <<file, acl, orphaned>>,
               Set(s, NextLine([j EXCEPT !.slip = TRUE], "icacls"))
        PROVE  PanelInv'
    <3> DEFINE t == [j EXCEPT !.slip = TRUE]
               k == NextLine(t, "icacls")
    <3>1. Set(s, k)
      BY <2>3
    <3>2. /\ IsJob(t) /\ t.kind = j.kind /\ t.generation = j.generation /\ t.pc = j.pc
          /\ t.result = j.result /\ t.helper = j.helper /\ t.exit = j.exit
          /\ Aside(t) = <<j.text, j.tmp, TRUE>> /\ t.raw = j.raw
      BY <1>1, SlipIs
    <3> HIDE DEF t
    <3>3. /\ IsJob(k) /\ k.kind = t.kind /\ k.generation = t.generation /\ k.pc = t.pc
          /\ k.result = t.result /\ k.helper \in {"icacls", "none"} /\ k.exit = t.exit
          /\ Aside(k) = Aside(t) /\ k.raw = t.raw
      BY <3>2, NextLineIs
    <3> HIDE DEF k
    <3>4. k.tmp = j.tmp /\ k.slip = TRUE
      BY <3>2, <3>3 DEF Aside
    <3>5. (Sound' <=> Sound) /\ Quiet
      BY <2>1, <2>3 DEF Sound, Quiet
    <3> QED BY <1>1, <2>1, <2>3, <3>1, <3>2, <3>3, <3>4, <3>5, HelperKeeps
  <2> QED BY <1>4, <2>2, <2>3 DEF HelperCopies
<1>5. ASSUME HelperTightens(s) PROVE PanelInv'
  <2>1. j.helper = "icacls" /\ UNCHANGED <<file, completions>> /\ Quiet /\ j.kind # "load"
    BY <1>1, <1>5 DEF HelperTightens, JobOK
  <2>2. ASSUME NEW e \in {"is 0", "is 1"}, Set(s, NextLine([j EXCEPT !.exit = e], "mark")),
               e = "is 0" => Sound', Sound => Sound', acl' \in {"open", "tight"}
        PROVE  PanelInv'
    <3> DEFINE t == [j EXCEPT !.exit = e]
               k == NextLine(t, "mark")
    <3>1. Set(s, k)
      BY <2>2
    <3>2. /\ IsJob(t) /\ t.kind = j.kind /\ t.generation = j.generation /\ t.pc = j.pc
          /\ t.result = j.result /\ t.helper = j.helper /\ t.exit = e /\ Aside(t) = Aside(j)
          /\ t.raw = j.raw
      BY <1>1, ExitIs
    <3> HIDE DEF t
    <3>3. /\ IsJob(k) /\ k.kind = t.kind /\ k.generation = t.generation /\ k.pc = t.pc
          /\ k.result = t.result /\ k.helper \in {"mark", "none"} /\ k.exit = t.exit
          /\ Aside(k) = Aside(t) /\ k.raw = t.raw
      BY <3>2, NextLineIs
    <3> HIDE DEF k
    <3>4. k.tmp = j.tmp /\ k.slip = j.slip
      BY <3>2, <3>3 DEF Aside
    <3>5. Says(k) => Says(j) /\ Claim(k) = Claim(j)
      <4>1. k.pc = j.pc /\ k.kind = j.kind /\ k.result = j.result /\ k.raw = j.raw
        BY <3>2, <3>3
      <4> QED BY <2>1, <4>1 DEF Says, Claim
    <3> QED BY <1>1, <2>1, <2>2, <3>1, <3>2, <3>3, <3>4, <3>5, HelperKeeps
  <2>3. ASSUME file # NoFile, acl' = "tight", Set(s, NextLine([j EXCEPT !.exit = "is 0"], "mark"))
        PROVE  PanelInv'
    BY <2>1, <2>2, <2>3 DEF Sound
  <2>4. ASSUME UNCHANGED acl, Set(s, NextLine([j EXCEPT !.exit = "is 1"], "mark"))
        PROVE  PanelInv'
    BY <1>1, <2>1, <2>2, <2>4 DEF Sound
  <2> QED BY <1>5, <2>3, <2>4 DEF HelperTightens
<1>6. ASSUME HelperMarks(s) PROVE PanelInv'
  <2> DEFINE e == IF j.exit = "is 0" THEN "0" ELSE "1"
             h == [j EXCEPT !.helper = "none"]
             k == [h EXCEPT !.exit = e]
  <2>1. j.helper = "mark" /\ UNCHANGED <<file, acl, completions>> /\ Quiet /\ (Sound' <=> Sound)
    BY <1>6 DEF HelperMarks, Sound
  <2>2. /\ IsJob(h) /\ h.kind = j.kind /\ h.generation = j.generation /\ h.pc = j.pc
        /\ h.result = j.result /\ h.helper = "none" /\ h.exit = j.exit /\ Aside(h) = Aside(j)
        /\ h.raw = j.raw
    BY <1>1, HelperIs
  <2>3. Set(s, k)
    BY <1>1, <1>6, <2>2 DEF HelperMarks, IsJob
  <2>4. e \in {"is 0", "0"} => j.exit \in {"is 0", "0"}
    OBVIOUS
  <2> HIDE DEF h, e
  <2>5. /\ IsJob(k) /\ k.kind = h.kind /\ k.generation = h.generation /\ k.pc = h.pc
        /\ k.result = h.result /\ k.helper = h.helper /\ k.exit = e /\ Aside(k) = Aside(h)
        /\ k.raw = h.raw
    BY <2>2, ExitIs
  <2> HIDE DEF k
  <2>6. k.text = j.text /\ k.tmp = j.tmp /\ k.slip = j.slip
    BY <2>2, <2>5 DEF Aside
  <2>7. Says(k) => Says(j) /\ Claim(k) = Claim(j)
    <3>1. k.pc = j.pc /\ k.kind = j.kind /\ k.result = j.result /\ k.raw = j.raw
      BY <2>2, <2>5
    <3> QED BY <2>1, <2>4, <2>5, <2>6, <3>1 DEF Says, Claim
  <2> QED BY <1>1, <2>1, <2>2, <2>3, <2>4, <2>5, <2>6, <2>7, HelperKeeps
<1>7. ASSUME HelperStops(s) PROVE PanelInv'
  <2> DEFINE h == [j EXCEPT !.helper = "none"]
  <2>1. /\ j.helper # "none" /\ UNCHANGED <<file, acl, completions>> /\ Quiet
        /\ (Sound' <=> Sound) /\ Set(s, h)
    BY <1>7 DEF HelperStops, Sound
  <2>2. /\ IsJob(h) /\ h.kind = j.kind /\ h.generation = j.generation /\ h.pc = j.pc
        /\ h.result = j.result /\ h.helper = "none" /\ h.exit = j.exit /\ Aside(h) = Aside(j)
        /\ h.raw = j.raw
    BY <1>1, HelperIs
  <2> HIDE DEF h
  <2>3. h.text = j.text /\ h.tmp = j.tmp /\ h.slip = j.slip
    BY <2>2 DEF Aside
  <2>4. Says(h) => Says(j) /\ Claim(h) = Claim(j)
    BY <2>2, <2>3 DEF Says, Claim
  <2> QED BY <1>1, <2>1, <2>2, <2>3, <2>4, HelperKeeps
<1> QED BY <1>2, <1>3, <1>4, <1>5, <1>6, <1>7 DEF HelperStep

(* The answer takes the place of its goroutine as the awaited one. *)
LEMMA SendKeeps ==
  ASSUME PanelInv, NEW s \in Slots, Send(s)
  PROVE  PanelInv'
<1> DEFINE j == jobs[s]
           k == [j EXCEPT !.pc = "done"]
           c == [generation |-> j.generation, raw |-> j.raw, result |-> j.result, slip |-> j.slip]
<1>1. /\ j.pc = "send" /\ completions' = Append(completions, c) /\ Set(s, k)
      /\ UNCHANGED <<file, acl>> /\ Quiet /\ Live(s) /\ JobOK(j) /\ alive
  BY JobIs DEF Send, Live, PanelInv, Typed
<1>2. /\ IsJob(k) /\ k.kind = j.kind /\ k.generation = j.generation /\ k.pc = "done"
      /\ k.result = j.result /\ k.helper = j.helper /\ k.exit = j.exit /\ k.tmp = j.tmp
      /\ k.slip = j.slip
      /\ k.raw = j.raw
  BY <1>1 DEF JobOK, IsJob
<1>3. c.generation = j.generation /\ c.raw = j.raw /\ c.result = j.result /\ c.slip = j.slip
  OBVIOUS
<1>4. PICK n : /\ IsSeq(completions') /\ DOMAIN completions' = DOMAIN completions \cup {n}
               /\ n \notin DOMAIN completions /\ completions'[n] = c
               /\ \A i \in DOMAIN completions : completions'[i] = completions[i]
  <2>1. IsSeq(completions)
    BY DEF PanelInv, Typed
  <2> HIDE DEF c
  <2>2. LET m == Len(completions) + 1 IN
          /\ IsSeq(completions') /\ DOMAIN completions' = DOMAIN completions \cup {m}
          /\ m \notin DOMAIN completions /\ completions'[m] = c
          /\ \A i \in DOMAIN completions : completions'[i] = completions[i]
    BY <1>1, <2>1, AppendIsSeq
  <2> QED BY <2>2
<1>5. /\ jobs' = [t \in Slots |-> jobs'[t]]
      /\ jobs'[s] = IF k.pc = "done" /\ k.helper = "none" THEN NoJob ELSE k
      /\ \A t \in Slots \ {s} : jobs'[t] = jobs[t]
  BY <1>1, AfterIs
<1>6. JobOK(k)
  BY <1>1, <1>2 DEF JobOK, Writes, Elevates, Edits
<1> HIDE DEF k, c
<1>7. jobs'[s].pc = "done" /\ jobs'[s].helper = j.helper /\ JobOK(jobs'[s])
      /\ jobs'[s].slip \in {j.slip, FALSE}
  BY <1>2, <1>5, <1>6, NoJobIs, NoJobOK
<1>8. panel' = panel /\ (Own' <=> Own) /\ (Sound' <=> Sound) /\ alive' = alive /\ account' = account
      /\ acl' = acl /\ file' = file /\ orphaned' = orphaned
  BY <1>1 DEF Quiet, Still, Own, Sound
<1>9. /\ \A t \in Slots : Live(t)' <=> Live(t) /\ t # s
      /\ \A t \in Slots : Current(t)' <=> Current(t) /\ t # s
      /\ \A i \in DOMAIN completions : Final(i)' <=> Final(i)
      /\ Final(n)' <=> Current(s)
  <2>1. \A t \in Slots : Live(t)' <=> Live(t) /\ t # s
    BY <1>5, <1>7 DEF Live
  <2>2. \A t \in Slots : Current(t)' <=> Current(t) /\ t # s
    BY <1>5, <1>8, <2>1 DEF Current
  <2>3. \A i \in DOMAIN completions : Final(i)' <=> Final(i)
    BY <1>4, <1>8 DEF Final
  <2>4. Final(n)' <=> Current(s)
    BY <1>1, <1>3, <1>4, <1>8 DEF Final, Current
  <2> QED BY <2>1, <2>2, <2>3, <2>4
<1>10. Typed'
  <2>1. c.generation \in Nat /\ c.result \in Results /\ c.slip \in BOOLEAN
    BY <1>1, <1>3 DEF JobOK
  <2>2. \A i \in DOMAIN completions' : completions'[i].generation \in Nat
                                       /\ completions'[i].result \in Results
                                       /\ completions'[i].slip \in BOOLEAN
    BY <1>4, <2>1 DEF PanelInv, Typed
  <2> QED BY <1>1, <1>4, <1>5, <1>8, <2>2 DEF PanelInv, Typed
<1>11. JobTyped'
  BY <1>5, <1>7 DEF PanelInv, JobTyped
<1>12. Answers'
  <2>1. \A t \in Slots : Live(t)' => /\ jobs'[t].generation <= panel'.generation
                                     /\ jobs'[t].kind # "load" => Current(t)'
    BY <1>5, <1>8, <1>9 DEF PanelInv, Answers
  <2>2. \A i \in DOMAIN completions' : completions'[i].generation <= panel'.generation
    <3>1. c.generation <= panel.generation
      BY <1>1, <1>3 DEF PanelInv, Answers
    <3> QED BY <1>4, <1>8, <3>1 DEF PanelInv, Answers
  <2>3. /\ \A t, u \in Slots : Current(t)' /\ Current(u)' => t = u
        /\ panel'.asking # {} => \A t \in Slots : Live(t)' => jobs'[t].kind = "load"
    BY <1>5, <1>8, <1>9 DEF PanelInv, Answers
  <2>4. /\ \A i, m \in DOMAIN completions' : Final(i)' /\ Final(m)' => i = m
        /\ \A t \in Slots, i \in DOMAIN completions' : ~(Current(t)' /\ Final(i)')
    <3>1. /\ \A i, m \in DOMAIN completions : Final(i) /\ Final(m) => i = m
          /\ \A t \in Slots, i \in DOMAIN completions : ~(Current(t) /\ Final(i))
          /\ \A t, u \in Slots : Current(t) /\ Current(u) => t = u
      BY DEF PanelInv, Answers
    <3> QED BY <1>4, <1>9, <3>1
  <2>5. panel'.busy <=> (\E t \in Slots : Current(t)') \/ (\E i \in DOMAIN completions' : Final(i)')
    <3>1. panel.busy <=> (\E t \in Slots : Current(t)) \/ (\E i \in DOMAIN completions : Final(i))
      BY DEF PanelInv, Answers
    <3>2. (\E t \in Slots : Current(t)) <=> (\E t \in Slots : Current(t)') \/ Final(n)'
      BY <1>9
    <3>3. (\E i \in DOMAIN completions' : Final(i)')
            <=> (\E i \in DOMAIN completions : Final(i)) \/ Final(n)'
      BY <1>4, <1>9
    <3> QED BY <1>8, <3>1, <3>2, <3>3
  <2> QED BY <2>1, <2>2, <2>3, <2>4, <2>5 DEF Answers
<1>13. Alone'
  <2>1. SUFFICES ASSUME Own PROVE Alone'
    BY <1>8 DEF Alone
  <2>2. \A t \in Slots : /\ jobs[t].helper = "none" /\ jobs[t].pc \notin Elevates
                         /\ jobs[t].slip = FALSE
    BY <2>1 DEF PanelInv, Alone
  <2>3. \A t \in Slots : /\ jobs'[t].helper = "none" /\ jobs'[t].pc \notin Elevates
                         /\ jobs'[t].slip = FALSE
    BY <1>5, <1>7, <2>2 DEF Elevates
  <2>4. \A i \in DOMAIN completions' : completions'[i].slip = FALSE
    BY <1>3, <1>4, <2>1, <2>2 DEF PanelInv, Alone
  <2>5. panel'.slip = FALSE /\ orphaned' = FALSE
    BY <1>8, <2>1 DEF PanelInv, Alone
  <2> QED BY <2>3, <2>4, <2>5 DEF Alone
<1>14. Follows'
  <2>1. SUFFICES ASSUME orphaned = FALSE PROVE Follows'
    BY <1>8 DEF Follows
  <2>2. ASSUME NEW t \in Slots, Current(t)', jobs'[t].slip = FALSE, Says(jobs'[t])
        PROVE  Claim(jobs'[t]) = file'
    BY <1>5, <1>8, <1>9, <2>1, <2>2 DEF PanelInv, Follows
  <2>3. ASSUME NEW i \in DOMAIN completions', Final(i)', completions'[i].slip = FALSE,
               completions'[i].result \in Works
        PROVE  completions'[i].raw = file'
    <3>1. CASE i = n
      <4>1. Current(s) /\ j.slip = FALSE /\ Says(j)
        BY <1>1, <1>3, <1>4, <1>9, <2>3, <3>1 DEF Says
      <4>2. Claim(j) = j.raw
        BY <1>1 DEF Claim
      <4> QED BY <1>3, <1>4, <1>8, <2>1, <3>1, <4>1, <4>2 DEF PanelInv, Follows
    <3>2. CASE i # n
      BY <1>4, <1>8, <1>9, <2>1, <2>3, <3>2 DEF PanelInv, Follows
    <3> QED BY <3>1, <3>2
  <2>4. ~panel'.busy /\ panel'.slip = FALSE /\ panel'.hint \in Works => panel'.raw = file'
    BY <1>8, <2>1 DEF PanelInv, Follows
  <2> QED BY <2>2, <2>3, <2>4 DEF Follows
<1>15. Tightened'
  <2>1. \A t \in Slots : Live(t)' /\ jobs'[t].exit \in {"is 0", "0"} /\ jobs'[t].kind # "load" => Sound'
    BY <1>5, <1>8, <1>9 DEF PanelInv, Tightened
  <2>2. \A t \in Slots : jobs'[t].pc = "send" /\ jobs'[t].result \in Edits => Sound'
    BY <1>5, <1>7, <1>8 DEF PanelInv, Tightened
  <2>3. ASSUME NEW i \in DOMAIN completions', Final(i)', completions'[i].result \in Edits
        PROVE  Sound'
    <3>1. CASE i = n
      BY <1>1, <1>3, <1>4, <1>8, <2>3, <3>1 DEF PanelInv, Tightened
    <3>2. CASE i # n
      BY <1>4, <1>8, <1>9, <2>3, <3>2 DEF PanelInv, Tightened
    <3> QED BY <3>1, <3>2
  <2>4. ~panel'.busy /\ panel'.hint \in Edits => Sound'
    BY <1>8 DEF PanelInv, Tightened
  <2> QED BY <2>1, <2>2, <2>3, <2>4 DEF Tightened
<1> QED BY <1>10, <1>11, <1>12, <1>13, <1>14, <1>15 DEF PanelInv

LEMMA WorkerKeeps ==
  ASSUME PanelInv, NEW s \in Slots, Worker(s)
  PROVE  PanelInv'
BY LoadKeeps, TempKeeps, UnlinkKeeps, RenameKeeps, TightenKeeps, PromptKeeps, WaitKeeps,
   ReportKeeps, SendKeeps DEF Worker

-----------------------------------------------------------------------------
(* The steps of the window's thread. *)

(* A new generation: nothing on its way is for it but its own job, and what
   was begun before only reads. *)
LEMMA BeginKeeps ==
  ASSUME PanelInv, alive, NEW s \in Slots, NEW k, jobs[s] = NoJob,
         IsPanel(panel'), panel'.generation = panel.generation + 1, panel'.busy = TRUE,
         panel'.hint = "waiting", panel'.slip = FALSE, k.kind # "load" => panel'.asking = {},
         \A t \in Slots : Live(t) => jobs[t].kind = "load",
         jobs' = [jobs EXCEPT ![s] = k], JobOK(k), k.generation = panel'.generation,
         k.pc \in {"read", "temp", "prompt", "send"}, k.pc = "prompt" => ~Own,
         k.result \in {"none", "unchanged"}, k.helper = "none", k.exit = "none", k.slip = FALSE,
         UNCHANGED completions, Elsewhere
  PROVE  PanelInv'
<1>1. /\ jobs' = [t \in Slots |-> jobs'[t]] /\ jobs'[s] = k
      /\ \A t \in Slots \ {s} : jobs'[t] = jobs[t]
  BY DEF PanelInv, Typed
<1>2. /\ completions' = completions /\ file' = file /\ acl' = acl /\ account' = account
      /\ alive' = alive /\ orphaned' = orphaned /\ (Own' <=> Own) /\ (Sound' <=> Sound)
  BY DEF Elsewhere, Own, Sound
<1>3. /\ \A t \in Slots : Live(t)' <=> Live(t) \/ t = s
      /\ Current(s)' /\ \A t \in Slots \ {s} : ~Current(t)'
      /\ \A i \in DOMAIN completions' : ~Final(i)'
  <2>1. \A t \in Slots : Live(t)' <=> Live(t) \/ t = s
    BY <1>1 DEF Live
  <2>2. Current(s)'
    BY <1>1, <2>1 DEF Current
  <2>3. ASSUME NEW t \in Slots \ {s}, Current(t)' PROVE FALSE
    <3>1. Live(t) /\ jobs'[t] = jobs[t] /\ jobs[t].generation = panel.generation + 1
      BY <1>1, <2>1, <2>3 DEF Current
    <3>2. jobs[t].generation <= panel.generation /\ panel.generation \in Nat
      BY <3>1 DEF PanelInv, Answers, Typed
    <3> QED BY <3>1, <3>2
  <2>4. ASSUME NEW i \in DOMAIN completions', Final(i)' PROVE FALSE
    <3>1. completions[i].generation = panel.generation + 1
      BY <1>2, <2>4 DEF Final
    <3>2. completions[i].generation <= panel.generation /\ panel.generation \in Nat
      BY <1>2 DEF PanelInv, Answers, Typed
    <3> QED BY <3>1, <3>2
  <2> QED BY <2>1, <2>2, <2>3, <2>4
<1>4. Typed'
  <2>1. /\ IsPanel(panel)' /\ panel'.generation \in Nat
        /\ panel'.hint \in Results \cup {"waiting"}
    BY DEF PanelInv, Typed, IsPanel
  <2>2. panel'.busy \in BOOLEAN /\ panel'.slip \in BOOLEAN
    OBVIOUS
  <2>3. /\ acl' \in {"open", "tight"} /\ IsAccount(account)' /\ alive' \in BOOLEAN /\ alive'
        /\ IsSeq(completions)' /\ orphaned' \in BOOLEAN
        /\ \A i \in DOMAIN completions' : completions'[i].generation \in Nat
                                           /\ completions'[i].result \in Results
                                           /\ completions'[i].slip \in BOOLEAN
    BY <1>2 DEF PanelInv, Typed, IsAccount, IsSeq
  <2> QED BY <1>1, <2>1, <2>2, <2>3 DEF Typed
<1>5. JobTyped'
  BY <1>1 DEF PanelInv, JobTyped
<1>6. Answers'
  <2>1. ASSUME NEW t \in Slots, Live(t)'
        PROVE  /\ jobs'[t].generation <= panel'.generation
               /\ jobs'[t].kind # "load" => Current(t)'
    <3>1. CASE t = s
      BY <1>1, <1>3, <3>1 DEF JobOK
    <3>2. CASE t # s
      <4>1. Live(t) /\ jobs'[t] = jobs[t]
        BY <1>1, <1>3, <2>1, <3>2
      <4>2. jobs[t].generation <= panel.generation /\ panel.generation \in Nat
            /\ jobs[t].generation \in Nat /\ jobs[t].kind = "load"
        BY <4>1 DEF PanelInv, Answers, Typed, JobTyped, JobOK
      <4> QED BY <4>1, <4>2
    <3> QED BY <3>1, <3>2
  <2>2. \A i \in DOMAIN completions' : completions'[i].generation <= panel'.generation
    <3>1. \A i \in DOMAIN completions : completions[i].generation <= panel.generation
                                        /\ completions[i].generation \in Nat
      BY DEF PanelInv, Answers, Typed
    <3>2. panel.generation \in Nat
      BY DEF PanelInv, Typed
    <3> QED BY <1>2, <3>1, <3>2
  <2>3. panel'.asking # {} => \A t \in Slots : Live(t)' => jobs'[t].kind = "load"
    BY <1>1, <1>3
  <2> QED BY <1>3, <2>1, <2>2, <2>3 DEF Answers
<1>7. Alone' /\ Follows'
  <2>1. Alone'
    <3>1. SUFFICES ASSUME Own PROVE Alone'
      BY <1>2 DEF Alone
    <3>2. \A t \in Slots : /\ jobs'[t].helper = "none" /\ jobs'[t].pc \notin Elevates
                           /\ jobs'[t].slip = FALSE
      BY <1>1, <3>1 DEF PanelInv, Alone, Elevates
    <3> QED BY <1>2, <3>1, <3>2 DEF PanelInv, Alone
  <2>2. ~Says(k)
    BY DEF Says, Works
  <2> QED BY <1>1, <1>3, <2>1, <2>2 DEF Follows
<1>8. Tightened'
  <2>1. \A t \in Slots : Live(t)' /\ jobs'[t].exit \in {"is 0", "0"} /\ jobs'[t].kind # "load" => Sound'
    BY <1>1, <1>2, <1>3 DEF PanelInv, Tightened
  <2>2. \A t \in Slots : jobs'[t].pc = "send" /\ jobs'[t].result \in Edits => Sound'
    BY <1>1, <1>2 DEF PanelInv, Tightened, Edits
  <2> QED BY <1>3, <2>1, <2>2 DEF Tightened
<1> QED BY <1>4, <1>5, <1>6, <1>7, <1>8 DEF PanelInv

(* Where nothing is awaited nothing is being changed. *)
LEMMA IdleReads ==
  ASSUME PanelInv, ~panel.busy
  PROVE  \A t \in Slots : Live(t) => jobs[t].kind = "load"
BY DEF PanelInv, Answers

LEMMA KindIs ==
  ASSUME NEW j, IsJob(j), NEW v
  PROVE  LET k == [j EXCEPT !.kind = v] IN
         /\ IsJob(k) /\ k.kind = v /\ k.generation = j.generation /\ k.pc = j.pc
         /\ k.result = j.result /\ k.helper = j.helper /\ k.exit = j.exit
         /\ Aside(k) = Aside(j) /\ k.raw = j.raw
BY DEF IsJob, Aside

LEMMA PlaceIs ==
  ASSUME NEW j, IsJob(j), NEW v
  PROVE  LET k == [j EXCEPT !.pc = v] IN
         /\ IsJob(k) /\ k.kind = j.kind /\ k.generation = j.generation /\ k.pc = v
         /\ k.result = j.result /\ k.helper = j.helper /\ k.exit = j.exit
         /\ Aside(k) = Aside(j) /\ k.raw = j.raw
BY DEF IsJob, Aside

LEMMA ElevateIs ==
  ASSUME NEW j, IsJob(j), NEW v
  PROVE  LET k == [j EXCEPT !.elevate = v] IN
         /\ IsJob(k) /\ k.kind = j.kind /\ k.generation = j.generation /\ k.pc = j.pc
         /\ k.result = j.result /\ k.helper = j.helper /\ k.exit = j.exit
         /\ Aside(k) = Aside(j) /\ k.raw = j.raw
BY DEF IsJob, Aside

LEMMA OutcomeIs ==
  ASSUME NEW j, IsJob(j), NEW v
  PROVE  LET k == [j EXCEPT !.result = v] IN
         /\ IsJob(k) /\ k.kind = j.kind /\ k.generation = j.generation /\ k.pc = j.pc
         /\ k.result = v /\ k.helper = j.helper /\ k.exit = j.exit /\ Aside(k) = Aside(j)
         /\ k.raw = j.raw
BY DEF IsJob, Aside

LEMMA GenerationIs ==
  ASSUME NEW j, IsJob(j), NEW v
  PROVE  LET k == [j EXCEPT !.generation = v] IN
         /\ IsJob(k) /\ k.kind = j.kind /\ k.generation = v /\ k.pc = j.pc
         /\ k.result = j.result /\ k.helper = j.helper /\ k.exit = j.exit
         /\ Aside(k) = Aside(j) /\ k.raw = j.raw
BY DEF IsJob, Aside

LEMMA HadIs ==
  ASSUME NEW j, IsJob(j), NEW v
  PROVE  LET k == [j EXCEPT !.had = v] IN
         /\ IsJob(k) /\ k.kind = j.kind /\ k.generation = j.generation /\ k.pc = j.pc
         /\ k.result = j.result /\ k.helper = j.helper /\ k.exit = j.exit
         /\ Aside(k) = Aside(j) /\ k.raw = j.raw
BY DEF IsJob, Aside

(* A reload or a change as it starts. *)
Begun(j) ==
  /\ JobOK(j) /\ j.helper = "none" /\ j.exit = "none" /\ j.slip = FALSE
  /\ j.result \in {"none", "unchanged"}
  /\ j.pc \in {"read", "temp", "prompt", "send"} /\ (j.pc = "prompt" => ~Own)

LEMMA GoKeeps ==
  ASSUME PanelInv, alive, NEW p, NEW job, IsPanel(p), p.generation = panel.generation,
         Go(p, job), Begun(job), IsPanel(panel'), panel'.generation = panel.generation + 1,
         panel'.busy = TRUE, panel'.hint = "waiting", panel'.slip = FALSE,
         job.kind # "load" => panel'.asking = {},
         \A t \in Slots : Live(t) => jobs[t].kind = "load",
         UNCHANGED completions, Elsewhere
  PROVE  PanelInv'
<1> DEFINE g == begin(p).generation
           a == [job EXCEPT !.generation = g]
           k == [a EXCEPT !.had = PrintsIn(file)]
<1>1. PICK s \in Slots : jobs[s] = NoJob /\ jobs' = [jobs EXCEPT ![s] = k]
  <2>1. DEFINE u == CHOOSE t \in Slots : jobs[t] = NoJob
  <2>2. u \in Slots /\ jobs[u] = NoJob
    BY DEF Go
  <2>3. jobs' = [jobs EXCEPT ![u] = [job EXCEPT !.generation = g, !.had = PrintsIn(file)]]
    BY DEF Go
  <2> HIDE DEF u
  <2> QED BY <2>2, <2>3
<1>2. g = panel.generation + 1 /\ panel.generation \in Nat
  BY DEF begin, NextGeneration, IsPanel, PanelInv, Typed
<1> HIDE DEF g
<1>3. IsJob(job)
  BY DEF Begun, JobOK
<1>4. /\ IsJob(a) /\ a.kind = job.kind /\ a.generation = g /\ a.pc = job.pc
      /\ a.result = job.result /\ a.helper = job.helper /\ a.exit = job.exit
      /\ Aside(a) = Aside(job) /\ a.raw = job.raw
  BY <1>3, GenerationIs
<1> HIDE DEF a
<1>5. /\ IsJob(k) /\ k.kind = a.kind /\ k.generation = a.generation /\ k.pc = a.pc
      /\ k.result = a.result /\ k.helper = a.helper /\ k.exit = a.exit /\ Aside(k) = Aside(a)
      /\ k.raw = a.raw
  BY <1>4, HadIs
<1> HIDE DEF k
<1>6. JobOK(k) /\ k.slip = FALSE
  BY <1>2, <1>4, <1>5 DEF Begun, JobOK, Aside
<1>7. /\ k.generation = panel'.generation /\ (k.kind # "load" => panel'.asking = {})
      /\ k.pc \in {"read", "temp", "prompt", "send"} /\ (k.pc = "prompt" => ~Own)
      /\ k.result \in {"none", "unchanged"} /\ k.helper = "none" /\ k.exit = "none"
  BY <1>2, <1>4, <1>5 DEF Begun
<1> QED BY <1>1, <1>6, <1>7, BeginKeeps

LEMMA ReadBegun == \A e : Begun([NoJob EXCEPT !.kind = "load", !.pc = "read", !.elevate = e])
                          /\ [NoJob EXCEPT !.kind = "load", !.pc = "read", !.elevate = e].kind = "load"
<1> SUFFICES ASSUME NEW e
             PROVE  LET j == [NoJob EXCEPT !.kind = "load", !.pc = "read", !.elevate = e]
                    IN Begun(j) /\ j.kind = "load"
  OBVIOUS
<1> DEFINE a == [NoJob EXCEPT !.kind = "load"]
           b == [a EXCEPT !.pc = "read"]
           c == [b EXCEPT !.elevate = e]
<1>1. JobOK(NoJob) /\ IsJob(NoJob) /\ NoJob.helper = "none" /\ NoJob.exit = "none"
      /\ NoJob.result = "none" /\ NoJob.slip = FALSE /\ NoJob.tmp = FALSE
  BY NoJobOK, NoJobIs DEF JobOK, NoJob
<1>2. /\ IsJob(a) /\ a.kind = "load" /\ a.generation = NoJob.generation
      /\ a.result = NoJob.result /\ a.helper = NoJob.helper /\ a.exit = NoJob.exit
      /\ Aside(a) = Aside(NoJob)
  BY <1>1, KindIs
<1>3. [NoJob EXCEPT !.kind = "load", !.pc = "read", !.elevate = e] = c
  OBVIOUS
<1> HIDE DEF a
<1>4. /\ IsJob(b) /\ b.kind = a.kind /\ b.generation = a.generation /\ b.pc = "read"
      /\ b.result = a.result /\ b.helper = a.helper /\ b.exit = a.exit /\ Aside(b) = Aside(a)
  BY <1>2, PlaceIs
<1> HIDE DEF b
<1>5. /\ IsJob(c) /\ c.kind = b.kind /\ c.generation = b.generation /\ c.pc = b.pc
      /\ c.result = b.result /\ c.helper = b.helper /\ c.exit = b.exit /\ Aside(c) = Aside(b)
  BY <1>4, ElevateIs
<1> HIDE DEF c
<1>6. Begun(c) /\ c.kind = "load"
  BY <1>1, <1>2, <1>4, <1>5 DEF Begun, JobOK, Writes, Elevates, Aside
<1> QED BY <1>3, <1>6

LEMMA ChangeBegun ==
  ASSUME NEW kind \in {"add", "remove"}, NEW new, new # panel.raw => new # NoFile
  PROVE  Begun(Change(kind, new)) /\ Change(kind, new).kind = kind
<1>1. JobOK(NoJob) /\ IsJob(NoJob) /\ NoJob.helper = "none" /\ NoJob.exit = "none"
      /\ NoJob.result = "none" /\ NoJob.slip = FALSE /\ NoJob.tmp = FALSE
  BY NoJobOK, NoJobIs DEF JobOK, NoJob
<1> DEFINE a == [NoJob EXCEPT !.kind = kind]
<1>2. /\ IsJob(a) /\ a.kind = kind /\ a.generation = NoJob.generation
      /\ a.result = NoJob.result /\ a.helper = NoJob.helper /\ a.exit = NoJob.exit
      /\ Aside(a) = Aside(NoJob)
  BY <1>1, KindIs
<1>3. CASE new = panel.raw
  <2> DEFINE b == [a EXCEPT !.pc = "send"]
             c == [b EXCEPT !.raw = new]
             d == [c EXCEPT !.result = "unchanged"]
  <2>1. Change(kind, new) = d
    BY <1>3 DEF Change
  <2> HIDE DEF a
  <2>2. /\ IsJob(b) /\ b.kind = a.kind /\ b.generation = a.generation /\ b.pc = "send"
        /\ b.result = a.result /\ b.helper = a.helper /\ b.exit = a.exit /\ Aside(b) = Aside(a)
    BY <1>2, PlaceIs
  <2> HIDE DEF b
  <2>3. /\ IsJob(c) /\ c.kind = b.kind /\ c.generation = b.generation /\ c.pc = b.pc
        /\ c.result = b.result /\ c.helper = b.helper /\ c.exit = b.exit /\ Aside(c) = Aside(b)
    BY <2>2, RawIs
  <2> HIDE DEF c
  <2>4. /\ IsJob(d) /\ d.kind = c.kind /\ d.generation = c.generation /\ d.pc = c.pc
        /\ d.result = "unchanged" /\ d.helper = c.helper /\ d.exit = c.exit /\ Aside(d) = Aside(c)
    BY <2>3, OutcomeIs
  <2> HIDE DEF d
  <2>5. Begun(d) /\ d.kind = kind
    BY <1>1, <1>2, <2>2, <2>3, <2>4 DEF Begun, JobOK, Writes, Elevates, Edits, Results, Aside
  <2> QED BY <2>1, <2>5
<1>4. CASE new # panel.raw
  <2> DEFINE v == IF NeedsElevation THEN "prompt" ELSE "temp"
             b == [a EXCEPT !.pc = v]
             c == [b EXCEPT !.raw = new]
  <2>1. Change(kind, new) = c
    BY <1>4 DEF Change
  <2>2. v \in {"prompt", "temp"} /\ (v = "prompt" => ~Own)
    BY DEF NeedsElevation, Own
  <2> HIDE DEF a, v
  <2>3. /\ IsJob(b) /\ b.kind = a.kind /\ b.generation = a.generation /\ b.pc = v
        /\ b.result = a.result /\ b.helper = a.helper /\ b.exit = a.exit /\ Aside(b) = Aside(a)
    BY <1>2, PlaceIs
  <2> HIDE DEF b
  <2>4. /\ IsJob(c) /\ c.kind = b.kind /\ c.generation = b.generation /\ c.pc = b.pc
        /\ c.result = b.result /\ c.helper = b.helper /\ c.exit = b.exit
        /\ Aside(c) = Aside(b) /\ c.raw = new
    BY <2>3, RawIs
  <2> HIDE DEF c
  <2>5. Begun(c) /\ c.kind = kind
    BY <1>1, <1>2, <1>4, <2>2, <2>3, <2>4 DEF Begun, JobOK, Writes, Elevates, Edits, Results, Aside
  <2> QED BY <2>1, <2>5
<1> QED BY <1>3, <1>4

LEMMA BusyIs ==
  ASSUME NEW p, IsPanel(p), NEW v
  PROVE  LET q == [p EXCEPT !.busy = v] IN
         /\ IsPanel(q) /\ q.generation = p.generation /\ q.asking = p.asking /\ q.hint = p.hint
         /\ q.raw = p.raw /\ q.busy = v /\ q.slip = p.slip
BY DEF IsPanel

LEMMA SlippedIs ==
  ASSUME NEW p, IsPanel(p), NEW v
  PROVE  LET q == [p EXCEPT !.slip = v] IN
         /\ IsPanel(q) /\ q.generation = p.generation /\ q.asking = p.asking /\ q.hint = p.hint
         /\ q.raw = p.raw /\ q.busy = p.busy /\ q.slip = v
BY DEF IsPanel

LEMMA BeginIs ==
  ASSUME NEW p, IsPanel(p)
  PROVE  /\ IsPanel(begin(p)) /\ begin(p).generation = p.generation + 1
         /\ begin(p).busy = TRUE /\ begin(p).hint = "waiting" /\ begin(p).asking = p.asking
         /\ begin(p).slip = FALSE
<1> DEFINE a == [p EXCEPT !.generation = p.generation + 1]
           b == [a EXCEPT !.hint = "waiting"]
           c == [b EXCEPT !.busy = TRUE]
           d == [c EXCEPT !.slip = FALSE]
<1>1. begin(p) = d
  BY DEF begin, NextGeneration, IsPanel
<1>2. IsPanel(a) /\ a.generation = p.generation + 1 /\ a.asking = p.asking
  BY DEF IsPanel
<1> HIDE DEF a
<1>3. IsPanel(b) /\ b.generation = a.generation /\ b.asking = a.asking /\ b.hint = "waiting"
  BY <1>2 DEF IsPanel
<1> HIDE DEF b
<1>4. /\ IsPanel(c) /\ c.generation = b.generation /\ c.asking = b.asking /\ c.hint = b.hint
      /\ c.busy = TRUE
  BY <1>3, BusyIs
<1> HIDE DEF c
<1>5. /\ IsPanel(d) /\ d.generation = c.generation /\ d.asking = c.asking /\ d.hint = c.hint
      /\ d.busy = c.busy /\ d.slip = FALSE
  BY <1>4, SlippedIs
<1> HIDE DEF d
<1> QED BY <1>1, <1>2, <1>3, <1>4, <1>5

(* A step that changes nothing but what the user sees or has typed. *)
LEMMA PanelOnly ==
  ASSUME PanelInv, alive, IsPanel(panel'), UNCHANGED <<jobs, completions>>, Elsewhere,
         panel'.generation = panel.generation, panel'.busy = panel.busy,
         panel'.hint = panel.hint, panel'.raw = panel.raw, panel'.slip = panel.slip,
         panel'.asking # {} => panel.asking # {} \/ ~panel.busy
  PROVE  PanelInv'
<1>1. /\ jobs' = jobs /\ completions' = completions /\ file' = file /\ acl' = acl
      /\ account' = account /\ alive' = alive /\ orphaned' = orphaned /\ (Own' <=> Own)
      /\ (Sound' <=> Sound)
  BY DEF Elsewhere, Own, Sound
<1>2. /\ \A t \in Slots : (Live(t)' <=> Live(t)) /\ (Current(t)' <=> Current(t))
      /\ \A i \in DOMAIN completions : Final(i)' <=> Final(i)
  BY <1>1 DEF Live, Current, Final
<1>3. Typed'
  <2>1. /\ IsPanel(panel)' /\ panel'.generation \in Nat
        /\ panel'.hint \in Results \cup {"waiting"} /\ panel'.busy \in BOOLEAN
        /\ panel'.slip \in BOOLEAN
    BY DEF PanelInv, Typed, IsPanel
  <2>2. /\ acl' \in {"open", "tight"} /\ IsAccount(account)' /\ alive' \in BOOLEAN /\ alive'
        /\ IsSeq(completions)' /\ jobs' = [s \in Slots |-> jobs'[s]]
        /\ orphaned' \in BOOLEAN
        /\ \A i \in DOMAIN completions' : completions'[i].generation \in Nat
                                           /\ completions'[i].result \in Results
                                           /\ completions'[i].slip \in BOOLEAN
    BY <1>1 DEF PanelInv, Typed, IsAccount, IsSeq
  <2> QED BY <2>1, <2>2 DEF Typed
<1>4. JobTyped'
  BY <1>1 DEF PanelInv, JobTyped
<1>5. Answers'
  <2>1. panel'.asking # {} => \A t \in Slots : Live(t)' => jobs'[t].kind = "load"
    BY <1>1, <1>2, IdleReads DEF PanelInv, Answers
  <2>2. panel'.busy <=> (\E t \in Slots : Current(t)') \/ (\E i \in DOMAIN completions' : Final(i)')
    BY <1>1, <1>2 DEF PanelInv, Answers
  <2>3. /\ \A t \in Slots : Live(t)' => /\ jobs'[t].generation <= panel'.generation
                                        /\ jobs'[t].kind # "load" => Current(t)'
        /\ \A i \in DOMAIN completions' : completions'[i].generation <= panel'.generation
        /\ \A t, u \in Slots : Current(t)' /\ Current(u)' => t = u
        /\ \A i, k \in DOMAIN completions' : Final(i)' /\ Final(k)' => i = k
        /\ \A t \in Slots, i \in DOMAIN completions' : ~(Current(t)' /\ Final(i)')
    BY <1>1, <1>2 DEF PanelInv, Answers
  <2> QED BY <2>1, <2>2, <2>3 DEF Answers
<1>6. Alone' /\ Follows'
  BY <1>1, <1>2 DEF PanelInv, Alone, Follows
<1>7. Tightened'
  BY <1>1, <1>2 DEF PanelInv, Tightened
<1> QED BY <1>3, <1>4, <1>5, <1>6, <1>7 DEF PanelInv

LEMMA ReloadKeeps ==
  ASSUME PanelInv, alive, NEW p, IsPanel(p), p.generation = panel.generation,
         p.busy = panel.busy, p.hint = panel.hint, p.raw = panel.raw, p.asking = panel.asking,
         p.slip = panel.slip,
         NEW e, StartReload(p, e), UNCHANGED completions, Elsewhere
  PROVE  PanelInv'
<1> DEFINE job == [NoJob EXCEPT !.kind = "load", !.pc = "read", !.elevate = e]
<1>1. CASE p.busy
  <2>1. panel' = p /\ UNCHANGED jobs
    BY <1>1 DEF StartReload
  <2> QED BY <2>1, PanelOnly
<1>2. CASE ~p.busy
  <2>1. panel' = begin(p) /\ Go(p, job)
    BY <1>2 DEF StartReload
  <2>2. Begun(job) /\ job.kind = "load"
    BY ReadBegun
  <2>3. \A t \in Slots : Live(t) => jobs[t].kind = "load"
    BY <1>2, IdleReads
  <2> HIDE DEF job
  <2>4. /\ IsPanel(panel') /\ panel'.generation = panel.generation + 1 /\ panel'.busy = TRUE
        /\ panel'.hint = "waiting" /\ panel'.slip = FALSE
    BY <2>1, BeginIs
  <2> QED BY <2>1, <2>2, <2>3, <2>4, GoKeeps
<1> QED BY <1>1, <1>2

LEMMA openKeyPanelKeeps ==
  ASSUME PanelInv, openKeyPanel
  PROVE  PanelInv'
<1> DEFINE p == [panel EXCEPT !.open = TRUE]
<1>1. alive /\ StartReload(p, FALSE) /\ Elsewhere /\ UNCHANGED completions
  BY DEF openKeyPanel
<1>2. /\ IsPanel(p) /\ p.generation = panel.generation /\ p.busy = panel.busy
      /\ p.hint = panel.hint /\ p.raw = panel.raw /\ p.asking = panel.asking
      /\ p.slip = panel.slip
  <2>1. ASSUME NEW q, IsPanel(q), NEW v
        PROVE  LET r == [q EXCEPT !.open = v] IN
               /\ IsPanel(r) /\ r.generation = q.generation /\ r.busy = q.busy
               /\ r.hint = q.hint /\ r.raw = q.raw /\ r.asking = q.asking
               /\ r.slip = q.slip
    BY <2>1 DEF IsPanel
  <2> QED BY <2>1 DEF PanelInv, Typed
<1> HIDE DEF p
<1> QED BY <1>1, <1>2, ReloadKeeps

LEMMA ReloadingKeeps ==
  ASSUME PanelInv, Reload
  PROVE  PanelInv'
<1>1. alive /\ StartReload(panel, TRUE) /\ Elsewhere /\ UNCHANGED completions
  BY DEF Reload, Enabled
<1>2. IsPanel(panel)
  BY DEF PanelInv, Typed
<1> QED BY <1>1, <1>2, ReloadKeeps

LEMMA TypeKeeps ==
  ASSUME PanelInv, Type
  PROVE  PanelInv'
<1>1. PICK lines : panel' = [panel EXCEPT !.input = lines]
  BY DEF Type
<1>2. alive /\ UNCHANGED <<jobs, completions>> /\ Elsewhere
  BY DEF Type, Enabled
<1>3. /\ IsPanel(panel') /\ panel'.generation = panel.generation /\ panel'.busy = panel.busy
      /\ panel'.hint = panel.hint /\ panel'.raw = panel.raw /\ panel'.asking = panel.asking
      /\ panel'.slip = panel.slip
  BY <1>1 DEF PanelInv, Typed, IsPanel
<1> QED BY <1>2, <1>3, PanelOnly

LEMMA AskKeeps ==
  ASSUME PanelInv, AskRemove \/ AnswerNo
  PROVE  PanelInv'
<1>1. PICK keys : panel' = [panel EXCEPT !.asking = keys] /\ (keys # {} => ~panel.busy)
  BY DEF AskRemove, AnswerNo
<1>2. alive /\ UNCHANGED <<jobs, completions>> /\ Elsewhere
  BY DEF AskRemove, AnswerNo, Enabled
<1>3. /\ IsPanel(panel') /\ panel'.generation = panel.generation /\ panel'.busy = panel.busy
      /\ panel'.hint = panel.hint /\ panel'.raw = panel.raw /\ panel'.asking = keys
      /\ panel'.slip = panel.slip
  BY <1>1 DEF PanelInv, Typed, IsPanel
<1> QED BY <1>1, <1>2, <1>3, PanelOnly

LEMMA ChangeKeeps ==
  ASSUME PanelInv, Add \/ AnswerYes
  PROVE  PanelInv'
<1>1. IsPanel(panel) /\ panel.generation \in Nat
  BY DEF PanelInv, Typed
<1>2. ASSUME Add PROVE PanelInv'
  <2> DEFINE new == AddAll(parseKeys(panel.raw), panel.raw, parseKeyLines(panel.input)).content
  <2>1. /\ alive /\ ~panel.busy /\ panel.asking = {} /\ panel' = begin(panel)
        /\ Go(panel, Change("add", new)) /\ Elsewhere /\ UNCHANGED completions
    BY <1>2 DEF Add, Enabled
  <2>2. new # panel.raw => new # NoFile
    BY EditIsContent
  <2> HIDE DEF new
  <2>3. Begun(Change("add", new))
    BY <2>2, ChangeBegun
  <2>4. /\ IsPanel(panel') /\ panel'.generation = panel.generation + 1 /\ panel'.busy = TRUE
        /\ panel'.hint = "waiting" /\ panel'.asking = {} /\ panel'.slip = FALSE
    BY <1>1, <2>1, BeginIs
  <2>5. \A t \in Slots : Live(t) => jobs[t].kind = "load"
    BY <2>1, IdleReads
  <2> QED BY <1>1, <2>1, <2>3, <2>4, <2>5, GoKeeps
<1>3. ASSUME AnswerYes PROVE PanelInv'
  <2> DEFINE new == RemoveKeys(panel.raw, panel.asking)
             b   == begin(panel)
  <2>1. /\ alive /\ panel.asking # {} /\ panel' = [b EXCEPT !.asking = {}]
        /\ Go(panel, Change("remove", new)) /\ Elsewhere /\ UNCHANGED completions
    BY <1>3 DEF AnswerYes
  <2>2. new # panel.raw => new # NoFile
    BY EditIsContent
  <2> HIDE DEF new
  <2>3. Begun(Change("remove", new))
    BY <2>2, ChangeBegun
  <2>4. /\ IsPanel(b) /\ b.generation = panel.generation + 1 /\ b.busy = TRUE
        /\ b.hint = "waiting" /\ b.slip = FALSE
    BY <1>1, BeginIs
  <2> HIDE DEF b
  <2>5. /\ IsPanel(panel') /\ panel'.generation = panel.generation + 1 /\ panel'.busy = TRUE
        /\ panel'.hint = "waiting" /\ panel'.asking = {} /\ panel'.slip = FALSE
    BY <2>1, <2>4 DEF IsPanel
  <2>6. \A t \in Slots : Live(t) => jobs[t].kind = "load"
    BY <2>1 DEF PanelInv, Answers
  <2> QED BY <1>1, <2>1, <2>3, <2>5, <2>6, GoKeeps
<1> QED BY <1>2, <1>3

(* What an answer makes of the panel. *)
LEMMA ApplyIs ==
  ASSUME NEW p, IsPanel(p), NEW c
  PROVE  LET q == Apply(p, c) IN
         /\ IsPanel(q) /\ q.generation = p.generation /\ q.asking = p.asking
         /\ ~accepts(p, c.generation) => q = p
         /\ accepts(p, c.generation) =>
              /\ q.busy = FALSE /\ q.hint = c.result
              /\ q.slip \in {p.slip, c.slip}
              /\ c.result # "error" => q.raw = c.raw /\ q.slip = c.slip
<1> DEFINE a == [p EXCEPT !.busy = FALSE]
           b == [a EXCEPT !.hint = c.result]
           d == [a EXCEPT !.raw = c.raw]
           e == [d EXCEPT !.hint = c.result]
           g == [e EXCEPT !.slip = c.slip]
           i == IF c.result = "installed" THEN <<>> ELSE p.input
           f == [g EXCEPT !.input = i]
<1>1. Apply(p, c) = IF ~accepts(p, c.generation) THEN p
                    ELSE IF c.result = "error" THEN b ELSE f
  <2>1. c.result = "error" => [p EXCEPT !.busy = FALSE, !.hint = "error"] = b
    OBVIOUS
  <2>2. [p EXCEPT !.busy = FALSE, !.raw = c.raw, !.hint = c.result, !.slip = c.slip,
                  !.input = IF c.result = "installed" THEN <<>> ELSE @] = f
    BY DEF IsPanel
  <2> HIDE DEF b, f
  <2> QED BY <2>1, <2>2 DEF Apply
<1>2. /\ IsPanel(a) /\ a.generation = p.generation /\ a.asking = p.asking /\ a.busy = FALSE
      /\ a.slip = p.slip
  BY BusyIs
<1> HIDE DEF a, i
<1>3. /\ IsPanel(b) /\ b.generation = a.generation /\ b.asking = a.asking /\ b.busy = a.busy
      /\ b.hint = c.result /\ b.slip = a.slip
  BY <1>2 DEF IsPanel
<1>4. IsPanel(d) /\ d.generation = a.generation /\ d.asking = a.asking /\ d.busy = a.busy
      /\ d.raw = c.raw
  BY <1>2 DEF IsPanel
<1> HIDE DEF b, d
<1>5. IsPanel(e) /\ e.generation = d.generation /\ e.asking = d.asking /\ e.busy = d.busy
      /\ e.raw = d.raw /\ e.hint = c.result
  BY <1>4 DEF IsPanel
<1> HIDE DEF e
<1>7. IsPanel(g) /\ g.generation = e.generation /\ g.asking = e.asking /\ g.busy = e.busy
      /\ g.raw = e.raw /\ g.hint = e.hint /\ g.slip = c.slip
  BY <1>5 DEF IsPanel
<1> HIDE DEF g
<1>6. IsPanel(f) /\ f.generation = g.generation /\ f.asking = g.asking /\ f.busy = g.busy
      /\ f.raw = g.raw /\ f.hint = g.hint /\ f.slip = g.slip
  BY <1>7 DEF IsPanel
<1> HIDE DEF f
<1> QED BY <1>1, <1>2, <1>3, <1>4, <1>5, <1>6, <1>7

(* An answer that is accepted was the awaited one, and the last. *)
LEMMA DrainKeeps ==
  ASSUME PanelInv, Drain
  PROVE  PanelInv'
<1> DEFINE c == completions[1]
<1>1. /\ alive /\ panel' = Apply(panel, c) /\ completions' = Tail(completions) /\ jobs' = jobs
      /\ file' = file /\ acl' = acl /\ account' = account /\ alive' = alive
      /\ orphaned' = orphaned
      /\ (Own' <=> Own) /\ (Sound' <=> Sound)
      /\ completions # <<>>
  BY TailIsSeq DEF Drain, Elsewhere, Own, Sound, PanelInv, Typed
<1>2. /\ IsSeq(completions') /\ 1 \in DOMAIN completions
      /\ \A i \in DOMAIN completions' : i \in Nat /\ i + 1 \in DOMAIN completions
                                        /\ completions'[i] = completions[i + 1]
      /\ \A i \in DOMAIN completions : i = 1 \/ i - 1 \in DOMAIN completions'
      /\ DOMAIN completions \subseteq Nat
  BY <1>1, TailIsSeq DEF PanelInv, Typed
<1>3. IsPanel(panel) /\ panel.generation \in Nat /\ panel.busy \in BOOLEAN
      /\ c.generation \in Nat /\ c.result \in Results /\ c.slip \in BOOLEAN
      /\ panel.slip \in BOOLEAN
  BY <1>2 DEF PanelInv, Typed
<1>4. /\ IsPanel(panel') /\ panel'.generation = panel.generation
      /\ panel'.asking = panel.asking
      /\ ~(panel.busy /\ Final(1)) => panel' = panel
      /\ panel.busy /\ Final(1) => /\ panel'.busy = FALSE /\ panel'.hint = c.result
                                   /\ panel'.slip \in {panel.slip, c.slip}
                                   /\ c.result # "error" => /\ panel'.raw = c.raw
                                                            /\ panel'.slip = c.slip
  <2>1. accepts(panel, c.generation) <=> panel.busy /\ Final(1)
    BY DEF accepts, Final
  <2> HIDE DEF c
  <2> QED BY <1>1, <1>3, <2>1, ApplyIs
<1> HIDE DEF c
<1>5. /\ \A t \in Slots : (Live(t)' <=> Live(t)) /\ (Current(t)' <=> Current(t))
      /\ \A i \in DOMAIN completions' : Final(i)' <=> Final(i + 1)
  BY <1>1, <1>2, <1>4 DEF Live, Current, Final
<1>6. ASSUME panel.busy, Final(1)
      PROVE  /\ \A t \in Slots : ~Current(t)
             /\ \A i \in DOMAIN completions' : ~Final(i + 1)
  <2>1. \A t \in Slots : ~Current(t)
    BY <1>2, <1>6 DEF PanelInv, Answers
  <2>2. ASSUME NEW i \in DOMAIN completions', Final(i + 1) PROVE FALSE
    <3>1. i + 1 = 1
      BY <1>2, <1>6, <2>2 DEF PanelInv, Answers
    <3>2. i \in Nat /\ i \in DOMAIN completions'
      BY <1>2
    <3>3. i = 0
      BY <3>1, <3>2
    <3>4. DOMAIN completions' \subseteq Nat \ {0}
      <4>1. IsSeq(completions')
        BY <1>2
      <4>2. DOMAIN completions' = 1 .. Len(completions') /\ Len(completions') \in Nat
        BY <4>1 DEF IsSeq
      <4> QED BY <4>2
    <3> QED BY <3>2, <3>3, <3>4
  <2> QED BY <2>1, <2>2
<1>7. ~Final(1) => \A i \in DOMAIN completions : Final(i) => i - 1 \in DOMAIN completions'
                                                             /\ (i - 1) + 1 = i
  BY <1>2
<1>8. Final(1) => panel.busy
  BY <1>2 DEF PanelInv, Answers
<1>9. Typed'
  <2>1. /\ panel'.generation \in Nat /\ panel'.hint \in Results \cup {"waiting"}
    BY <1>3, <1>4 DEF PanelInv, Typed
  <2>2. panel'.busy \in BOOLEAN /\ panel'.slip \in BOOLEAN
    BY <1>3, <1>4
  <2>3. \A i \in DOMAIN completions' : completions'[i].generation \in Nat
                                       /\ completions'[i].result \in Results
                                       /\ completions'[i].slip \in BOOLEAN
    BY <1>2 DEF PanelInv, Typed
  <2>4. /\ acl' \in {"open", "tight"} /\ IsAccount(account)' /\ alive' \in BOOLEAN /\ alive'
        /\ jobs' = [s \in Slots |-> jobs'[s]] /\ orphaned' \in BOOLEAN
    BY <1>1 DEF PanelInv, Typed, IsAccount
  <2>5. IsPanel(panel)' /\ IsSeq(completions)'
    BY <1>2, <1>4 DEF IsPanel, IsSeq
  <2> QED BY <2>1, <2>2, <2>3, <2>4, <2>5 DEF Typed
<1>10. JobTyped'
  BY <1>1 DEF PanelInv, JobTyped
<1>11. Answers'
  <2>1. /\ \A t \in Slots : Live(t)' => /\ jobs'[t].generation <= panel'.generation
                                        /\ jobs'[t].kind # "load" => Current(t)'
        /\ \A t, u \in Slots : Current(t)' /\ Current(u)' => t = u
        /\ panel'.asking # {} => \A t \in Slots : Live(t)' => jobs'[t].kind = "load"
    BY <1>1, <1>4, <1>5 DEF PanelInv, Answers
  <2>2. \A i \in DOMAIN completions' : completions'[i].generation <= panel'.generation
    BY <1>2, <1>4 DEF PanelInv, Answers
  <2>3. ASSUME NEW i \in DOMAIN completions', NEW k \in DOMAIN completions', Final(i)', Final(k)'
        PROVE  i = k
    <3>1. i + 1 = k + 1
      BY <1>2, <1>5, <2>3 DEF PanelInv, Answers
    <3> QED BY <1>2, <3>1
  <2>4. \A t \in Slots, i \in DOMAIN completions' : ~(Current(t)' /\ Final(i)')
    BY <1>2, <1>5 DEF PanelInv, Answers
  <2>5. panel'.busy <=> (\E t \in Slots : Current(t)') \/ (\E i \in DOMAIN completions' : Final(i)')
    <3>1. CASE Final(1)
      BY <1>4, <1>5, <1>6, <1>8, <3>1
    <3>2. CASE ~Final(1)
      <4>1. panel' = panel
        BY <1>4, <3>2
      <4>2. (\E i \in DOMAIN completions' : Final(i)') <=> (\E i \in DOMAIN completions : Final(i))
        <5>1. ASSUME NEW i \in DOMAIN completions, Final(i)
              PROVE  \E m \in DOMAIN completions' : Final(m)'
          <6>1. i - 1 \in DOMAIN completions' /\ (i - 1) + 1 = i
            BY <1>7, <3>2, <5>1
          <6>2. Final((i - 1) + 1)
            BY <5>1, <6>1
          <6> QED BY <1>5, <6>1, <6>2
        <5>2. ASSUME NEW i \in DOMAIN completions', Final(i)'
              PROVE  \E m \in DOMAIN completions : Final(m)
          BY <1>2, <1>5, <5>2
        <5> QED BY <5>1, <5>2
      <4>3. panel.busy <=> (\E t \in Slots : Current(t)) \/ (\E i \in DOMAIN completions : Final(i))
        BY DEF PanelInv, Answers
      <4> QED BY <1>5, <4>1, <4>2, <4>3
    <3> QED BY <3>1, <3>2
  <2> QED BY <2>1, <2>2, <2>3, <2>4, <2>5 DEF Answers
<1>12. Follows'
  <2>1. SUFFICES ASSUME orphaned = FALSE PROVE Follows'
    BY <1>1 DEF Follows
  <2>2. \A t \in Slots : Current(t)' /\ jobs'[t].slip = FALSE /\ Says(jobs'[t])
                            => Claim(jobs'[t]) = file'
    BY <1>1, <1>5, <2>1 DEF PanelInv, Follows
  <2>3. \A i \in DOMAIN completions' :
          Final(i)' /\ completions'[i].slip = FALSE /\ completions'[i].result \in Works
            => completions'[i].raw = file'
    BY <1>1, <1>2, <1>5, <2>1 DEF PanelInv, Follows
  <2>4. ASSUME ~panel'.busy, panel'.slip = FALSE, panel'.hint \in Works PROVE panel'.raw = file'
    <3>1. CASE Final(1)
      <4>1. panel'.hint = c.result
            /\ (c.result # "error" => panel'.raw = c.raw /\ panel'.slip = c.slip)
        BY <1>4, <1>8, <3>1
      <4>2. c.result \in Works /\ c.slip = FALSE => c.raw = file
        BY <1>2, <2>1, <3>1 DEF PanelInv, Follows, c
      <4> QED BY <1>1, <2>4, <4>1, <4>2 DEF Works
    <3>2. CASE ~Final(1)
      BY <1>1, <1>4, <2>1, <2>4, <3>2 DEF PanelInv, Follows
    <3> QED BY <3>1, <3>2
  <2> QED BY <2>2, <2>3, <2>4 DEF Follows
<1>14. Alone'
  <2>1. SUFFICES ASSUME Own PROVE Alone'
    BY <1>1 DEF Alone
  <2>2. /\ \A s \in Slots : jobs'[s].helper = "none" /\ jobs'[s].pc \notin Elevates
                            /\ jobs'[s].slip = FALSE
        /\ orphaned' = FALSE
    BY <1>1, <2>1 DEF PanelInv, Alone
  <2>3. \A i \in DOMAIN completions' : completions'[i].slip = FALSE
    BY <1>2, <2>1 DEF PanelInv, Alone
  <2>4. c.slip = FALSE /\ panel.slip = FALSE
    BY <1>2, <2>1 DEF PanelInv, Alone, c
  <2>5. panel'.slip = FALSE
    BY <1>4, <2>4
  <2> QED BY <2>2, <2>3, <2>5 DEF Alone
<1>13. Tightened'
  <2>1. /\ \A t \in Slots : Live(t)' /\ jobs'[t].exit \in {"is 0", "0"} /\ jobs'[t].kind # "load" => Sound'
        /\ \A t \in Slots : jobs'[t].pc = "send" /\ jobs'[t].result \in Edits => Sound'
    BY <1>1, <1>5 DEF PanelInv, Tightened
  <2>2. \A i \in DOMAIN completions' : Final(i)' /\ completions'[i].result \in Edits => Sound'
    BY <1>1, <1>2, <1>5 DEF PanelInv, Tightened
  <2>3. ASSUME ~panel'.busy, panel'.hint \in Edits PROVE Sound'
    <3>1. CASE Final(1)
      <4>1. c.result \in Edits
        BY <1>4, <1>8, <2>3, <3>1
      <4> QED BY <1>1, <1>2, <3>1, <4>1 DEF PanelInv, Tightened, c
    <3>2. CASE ~Final(1)
      BY <1>1, <1>4, <2>3, <3>2 DEF PanelInv, Tightened
    <3> QED BY <3>1, <3>2
  <2> QED BY <2>1, <2>2, <2>3 DEF Tightened
<1> QED BY <1>9, <1>10, <1>11, <1>12, <1>13, <1>14 DEF PanelInv

(* A helper that outlives the program belongs to no own file. *)
LEMMA ExitKeeps ==
  ASSUME PanelInv, Exit
  PROVE  PanelInv'
<1>1. /\ panel' = NoPanel /\ completions' = <<>> /\ alive' = FALSE /\ orphaned' = FALSE
      /\ jobs' = [s \in Slots |-> IF jobs[s].helper = "none" THEN NoJob
                                  ELSE [jobs[s] EXCEPT !.pc = "done"]]
      /\ file' = file /\ acl' = acl /\ account' = account
      /\ (Own' <=> Own) /\ (Sound' <=> Sound)
  BY DEF Exit, Own, Sound
<1>2. \A s \in Slots : /\ JobOK(jobs'[s]) /\ jobs'[s].pc = "done"
                       /\ jobs[s].helper = "none" => /\ jobs'[s].helper = "none"
                                                      /\ jobs'[s].slip = FALSE
  <2>1. ASSUME NEW s \in Slots, jobs[s].helper # "none"
        PROVE  JobOK(jobs'[s]) /\ jobs'[s].pc = "done"
    <3> DEFINE k == [jobs[s] EXCEPT !.pc = "done"]
    <3>1. jobs'[s] = k /\ JobOK(jobs[s])
      BY <1>1, <2>1, JobIs
    <3>2. /\ IsJob(k) /\ k.kind = jobs[s].kind /\ k.generation = jobs[s].generation /\ k.pc = "done"
          /\ k.result = jobs[s].result /\ k.helper = jobs[s].helper /\ k.exit = jobs[s].exit
          /\ Aside(k) = Aside(jobs[s])
          /\ k.raw = jobs[s].raw
      BY <3>1, PlaceIs DEF JobOK
    <3> HIDE DEF k
    <3>3. JobOK(k)
      BY <3>1, <3>2 DEF JobOK, Writes, Elevates, Aside
    <3> QED BY <3>1, <3>2, <3>3
  <2>2. ASSUME NEW s \in Slots, jobs[s].helper = "none"
        PROVE  /\ JobOK(jobs'[s]) /\ jobs'[s].pc = "done" /\ jobs'[s].helper = "none"
               /\ jobs'[s].slip = FALSE
    BY <1>1, <2>2, NoJobOK, NoJobIs
  <2> QED BY <2>1, <2>2
<1>3. /\ IsPanel(panel') /\ panel'.generation = 0 /\ panel'.hint = "none"
      /\ panel'.asking = {}
  BY <1>1 DEF NoPanel, IsPanel
<1>4. panel'.busy = FALSE /\ panel'.slip = FALSE
  BY <1>1, Zenon DEF NoPanel
<1>5. DOMAIN completions' = {} /\ IsSeq(completions')
  BY <1>1 DEF IsSeq
<1>6. \A s \in Slots : ~Live(s)' /\ ~Current(s)'
  BY <1>2 DEF Live, Current
<1>7. Typed'
  <2>1. acl' \in {"open", "tight"} /\ IsAccount(account)' /\ alive' \in BOOLEAN
    BY <1>1 DEF PanelInv, Typed, IsAccount
  <2>3. jobs' = [s \in Slots |-> jobs'[s]]
    <3> DEFINE N(s) == IF jobs[s].helper = "none" THEN NoJob ELSE [jobs[s] EXCEPT !.pc = "done"]
    <3>1. jobs' = [s \in Slots |-> N(s)]
      BY <1>1
    <3> HIDE DEF N
    <3> QED BY <3>1
  <2>2. /\ IsPanel(panel)' /\ IsSeq(completions)' /\ panel'.generation \in Nat
        /\ panel'.hint \in Results \cup {"waiting"}
    BY <1>3, <1>5 DEF IsPanel, IsSeq, Results
  <2>4. panel'.busy \in BOOLEAN /\ panel'.slip \in BOOLEAN /\ orphaned' \in BOOLEAN
    BY <1>1, <1>4
  <2> QED BY <1>1, <1>5, <1>6, <2>1, <2>2, <2>3, <2>4 DEF Typed
<1>8. JobTyped'
  BY <1>2 DEF JobTyped
<1>9. Answers'
  BY <1>3, <1>4, <1>5, <1>6 DEF Answers
<1>10. Alone' /\ Follows'
  <2>1. panel'.hint \notin Works
    BY <1>3 DEF Works
  <2>2. Follows'
    BY <1>5, <1>6, <2>1 DEF Follows
  <2>3. Own => \A s \in Slots : jobs[s].helper = "none"
    BY DEF PanelInv, Alone
  <2>4. Alone'
    BY <1>1, <1>2, <1>4, <1>5, <2>3 DEF Alone, Elevates
  <2> QED BY <2>2, <2>4
<1>11. Tightened'
  <2>1. panel'.hint \notin Edits
    BY <1>3 DEF Edits
  <2> QED BY <1>2, <1>5, <1>6, <2>1 DEF Tightened
<1> QED BY <1>7, <1>8, <1>9, <1>10, <1>11 DEF PanelInv

LEMMA StartKeeps ==
  ASSUME PanelInv, Start
  PROVE  PanelInv'
<1>1. PICK e \in BOOLEAN : account' = [account EXCEPT !.elevated = e]
  BY DEF Start
<1>2. /\ ~alive /\ alive' = TRUE /\ file' = file /\ acl' = acl /\ panel' = panel /\ jobs' = jobs
      /\ completions' = completions /\ orphaned' = orphaned /\ (Sound' <=> Sound)
  BY DEF Start, Sound
<1>3. IsAccount(account)
  BY DEF PanelInv, Typed
<1>4. Own' <=> Own
  BY <1>1, <1>3, WhichFileFixed DEF Own
<1>5. IsAccount(account')
  <2>1. ASSUME NEW a, IsAccount(a), NEW v PROVE IsAccount([a EXCEPT !.elevated = v])
    BY <2>1 DEF IsAccount
  <2> QED BY <1>1, <1>3, <2>1
<1>6. /\ \A t \in Slots : (Live(t)' <=> Live(t)) /\ (Current(t)' <=> Current(t))
      /\ \A i \in DOMAIN completions : Final(i)' <=> Final(i)
  BY <1>2 DEF Live, Current, Final
<1>7. Typed'
  BY <1>2, <1>5 DEF PanelInv, Typed, IsAccount, IsPanel, IsSeq
<1>8. JobTyped'
  BY <1>2 DEF PanelInv, JobTyped
<1>9. Answers'
  BY <1>2, <1>6 DEF PanelInv, Answers
<1>10. Alone' /\ Follows'
  BY <1>2, <1>4, <1>6 DEF PanelInv, Alone, Follows
<1>11. Tightened'
  BY <1>2, <1>6 DEF PanelInv, Tightened
<1> QED BY <1>7, <1>8, <1>9, <1>10, <1>11 DEF PanelInv

LEMMA PanelInit == Init => PanelInv
<1> SUFFICES ASSUME Init PROVE PanelInv
  OBVIOUS
<1>1. /\ account \in Accounts /\ acl = "open" /\ alive = TRUE /\ panel = NoPanel
      /\ orphaned = FALSE
      /\ jobs = [s \in Slots |-> NoJob] /\ completions = <<>>
  BY DEF Init
<1>2. /\ IsPanel(panel) /\ panel.generation = 0 /\ panel.hint = "none"
      /\ panel.asking = {}
  BY <1>1 DEF NoPanel, IsPanel
<1>3. panel.busy = FALSE /\ panel.slip = FALSE
  BY <1>1, Zenon DEF NoPanel
<1>4. DOMAIN completions = {} /\ IsSeq(completions)
  BY <1>1 DEF IsSeq
<1>5. \A s \in Slots : jobs[s] = NoJob /\ ~Live(s) /\ ~Current(s)
  BY <1>1, NoJobIs DEF Live, Current
<1>6. Typed
  <2>1. IsAccount(account)
    BY <1>1 DEF Accounts, IsAccount
  <2>2. /\ panel.busy \in BOOLEAN /\ alive \in BOOLEAN /\ alive
        /\ panel.slip \in BOOLEAN /\ orphaned \in BOOLEAN
    BY <1>1, <1>3
  <2> QED BY <1>1, <1>2, <1>4, <2>1, <2>2 DEF Typed, Results
<1>7. JobTyped
  BY <1>5, NoJobOK DEF JobTyped
<1>8. Answers
  BY <1>2, <1>3, <1>4, <1>5 DEF Answers
<1>9. Alone /\ Follows
  BY <1>1, <1>2, <1>3, <1>4, <1>5, NoJobIs DEF Alone, Follows, Works, Elevates
<1>10. Tightened
  BY <1>2, <1>4, <1>5, NoJobIs DEF Tightened, Edits
<1> QED BY <1>6, <1>7, <1>8, <1>9, <1>10 DEF PanelInv

LEMMA PanelStepKeeps ==
  ASSUME PanelInv, Next
  PROVE  PanelInv'
<1>1. ASSUME UIStep PROVE PanelInv'
  BY <1>1, openKeyPanelKeeps, TypeKeeps, AskKeeps, ChangeKeeps, DrainKeeps, ReloadingKeeps DEF UIStep
<1> QED BY <1>1, WorkerKeeps, HelperStepKeeps, ExitKeeps, StartKeeps DEF Next

-----------------------------------------------------------------------------
(* What the window draws. *)

Table == [ports : 0 .. MaxPorts, held : 0 .. 1]
Box   == [kind : {"note", "close"}, clicked : {"nothing", "yes", "no"}]

WindowInv ==
  /\ table \in Table /\ shown \in Table
  /\ rows \in Seq(Tween) /\ counters \in [Numbers -> Tween]
  /\ hover \in Tween /\ hover.to \in 0 .. 1
  /\ flash \in [on : BOOLEAN, left : 0 .. 3]
  /\ boxes \in Seq(Box) /\ Len(boxes) <= MaxBoxes
  /\ life = "open" => Len(rows) = shown.ports
  /\ \A n \in Numbers : ~Active(counters[n]) => counters[n].value = counters[n].to

LEMMA SettledIs ==
  ASSUME NEW v \in 0 .. MaxPorts + 1
  PROVE  /\ Settled(v) \in Tween /\ ~Active(Settled(v))
         /\ Settled(v).value = v /\ Settled(v).to = v /\ Settled(v).left = 0
BY DEF Settled, Tween, Active, RollFrames

(* A tween stays in its bounds, and one that stands still is where it went. *)
LEMMA setTargetIs ==
  ASSUME NEW t \in Tween, NEW v \in 0 .. MaxPorts + 1, NEW d \in 1 .. RollFrames
  PROVE  /\ setTarget(t, v, d) \in Tween /\ setTarget(t, v, d).to = v
         /\ (~Active(t) => t.value = t.to)
              => (~Active(setTarget(t, v, d)) => setTarget(t, v, d).value = setTarget(t, v, d).to)
<1>1. CASE t.to = v /\ Active(t)
  BY <1>1 DEF setTarget
<1>2. CASE ~(t.to = v /\ Active(t)) /\ t.value = v
  <2>1. setTarget(t, v, d) = Settled(v)
    BY <1>2 DEF setTarget
  <2> QED BY <2>1, SettledIs
<1>3. CASE ~(t.to = v /\ Active(t)) /\ t.value # v
  <2> DEFINE w == [t EXCEPT !.to = v]
             u == [w EXCEPT !.left = d]
  <2>1. setTarget(t, v, d) = u
    BY <1>3 DEF setTarget
  <2>2. w \in Tween /\ w.to = v
    BY DEF Tween
  <2> HIDE DEF w
  <2>5. d \in 0 .. RollFrames
    BY DEF RollFrames
  <2>6. u \in Tween /\ u.left = d /\ u.to = v
    BY <2>2, <2>5 DEF Tween
  <2> HIDE DEF u
  <2>3. Active(u)
    BY <2>6 DEF Active, RollFrames
  <2> QED BY <2>1, <2>3, <2>6
<1> QED BY <1>1, <1>2, <1>3

LEMMA StepIs ==
  ASSUME NEW t \in Tween, NEW d \in {1, RollFrames}
  PROVE  /\ Step(t, d) \in Tween /\ Step(t, d).to = t.to
         /\ (~Active(t) => t.value = t.to)
              => (~Active(Step(t, d)) => Step(t, d).value = Step(t, d).to)
<1>0. t.to \in 0 .. MaxPorts + 1 /\ t.left \in 0 .. RollFrames /\ d \in {1, 3}
  BY DEF Tween, RollFrames
<1>1. CASE ~Active(t)
  BY <1>1 DEF Step
<1>2. CASE Active(t) /\ t.left <= d
  <2>1. Step(t, d) = Settled(t.to)
    BY <1>2 DEF Step
  <2> QED BY <1>0, <2>1, SettledIs
<1>3. CASE Active(t) /\ ~(t.left <= d)
  <2> DEFINE w == [t EXCEPT !.value = Between]
             l == t.left - d
             u == [w EXCEPT !.left = l]
  <2>1. Step(t, d) = u
    BY <1>3 DEF Step, Tween
  <2>2. l \in 1 .. RollFrames /\ l \in 0 .. RollFrames
    BY <1>0, <1>3 DEF RollFrames
  <2>5. w \in Tween /\ w.to = t.to
    BY DEF Tween
  <2> HIDE DEF w, l
  <2>3. u \in Tween /\ u.left = l /\ u.to = t.to
    BY <2>2, <2>5 DEF Tween
  <2> HIDE DEF u
  <2>4. Active(u)
    BY <2>2, <2>3 DEF Active, RollFrames
  <2> QED BY <2>1, <2>3, <2>4
<1> QED BY <1>1, <1>2, <1>3

LEMMA syncRowsIs ==
  ASSUME NEW r \in Seq(Tween), NEW n \in 0 .. MaxPorts
  PROVE  syncRows(r, n) \in Seq(Tween) /\ Len(syncRows(r, n)) = n
<1> DEFINE fresh == setTarget(Settled(0), 1, RowFrames)
           q == [i \in 1 .. n |-> IF i \in DOMAIN r THEN r[i] ELSE fresh]
<1>1. fresh \in Tween
  <2>1. 0 \in 0 .. MaxPorts + 1 /\ 1 \in 0 .. MaxPorts + 1 /\ RowFrames \in 1 .. RollFrames
    BY WindowAssumption DEF RowFrames, RollFrames
  <2> QED BY <2>1, SettledIs, setTargetIs
<1>2. syncRows(r, n) = q
  BY DEF syncRows
<1> HIDE DEF fresh
<1>3. q \in [1 .. n -> Tween] /\ n \in Nat
  <2>1. \A i \in DOMAIN r : r[i] \in Tween
    <3> HIDE DEF q
    <3> QED OBVIOUS
  <2> QED BY <1>1, <2>1, WindowAssumption
<1>4. q \in Seq(Tween) /\ DOMAIN q = 1 .. n
  BY <1>3, SeqDef
<1> HIDE DEF q
<1>5. Len(q) = n
  BY <1>3, <1>4, LenProperties
<1> QED BY <1>2, <1>4, <1>5

(* A row for every port of the table. *)
LEMMA RefreshKeeps ==
  ASSUME WindowInv, shown' = table, rows' = syncRows(rows, table.ports)
  PROVE  shown' \in Table /\ rows' \in Seq(Tween) /\ Len(rows') = shown'.ports
<1>1. table.ports \in 0 .. MaxPorts /\ table \in Table /\ rows \in Seq(Tween)
  BY DEF WindowInv, Table
<1> QED BY <1>1, syncRowsIs

LEMMA TableChangesKeeps ==
  ASSUME WindowInv, TableChanges
  PROVE  WindowInv'
<1>1. UNCHANGED <<life, shown, rows, counters, hover, flash, boxes>>
  BY DEF TableChanges, drawn, closing
<1>2. table' \in Table
  BY WindowAssumption DEF TableChanges, WindowInv, Table
<1> QED BY <1>1, <1>2 DEF WindowInv, Active

LEMMA CreateKeeps ==
  ASSUME WindowInv, Create
  PROVE  WindowInv'
<1>1. UNCHANGED <<table, counters, hover, flash, boxes>>
  BY DEF Create, drawn, outside, closing
<1>2. CASE life' = "open"
  <2>1. shown' = table /\ rows' = syncRows(rows, table.ports)
    BY <1>2 DEF Create, Refresh
  <2> QED BY <1>1, <2>1, RefreshKeeps DEF WindowInv, Active
<1>3. CASE life' # "open"
  <2>1. UNCHANGED <<shown, rows>>
    BY <1>3 DEF Create, drawn
  <2> QED BY <1>1, <1>3, <2>1 DEF WindowInv, Active
<1> QED BY <1>2, <1>3

LEMMA RefreshTimerKeeps ==
  ASSUME WindowInv, RefreshTimer
  PROVE  WindowInv'
<1>1. UNCHANGED <<life, table, counters, hover, boxes>> /\ shown' = table
      /\ rows' = syncRows(rows, table.ports)
  BY DEF RefreshTimer, Refresh, Same, outside, closing
<1>2. flash' \in [on : BOOLEAN, left : 0 .. 3]
  BY DEF RefreshTimer, WindowInv
<1> QED BY <1>1, <1>2, RefreshKeeps DEF WindowInv, Active

LEMMA AnimTimerKeeps ==
  ASSUME WindowInv, AnimTimer
  PROVE  WindowInv'
<1>1. UNCHANGED <<life, table, shown, flash, boxes>>
  BY DEF AnimTimer, Same, outside, closing
<1>2. PICK d \in {1, RollFrames} :
        /\ hover' = Step(hover, d)
        /\ rows' = [i \in DOMAIN rows |-> Step(rows[i], d)]
        /\ counters' = [n \in Numbers |-> Step(counters[n], d)]
  BY DEF AnimTimer
<1>3. hover' \in Tween /\ hover'.to \in 0 .. 1
  BY <1>2, StepIs DEF WindowInv
<1>4. rows' \in Seq(Tween) /\ Len(rows') = Len(rows)
  <2>1. rows \in [1 .. Len(rows) -> Tween] /\ Len(rows) \in Nat /\ DOMAIN rows = 1 .. Len(rows)
    BY LenProperties DEF WindowInv
  <2>2. rows' \in [1 .. Len(rows) -> Tween]
    BY <1>2, <2>1, StepIs
  <2>3. rows' \in Seq(Tween)
    BY <2>1, <2>2, SeqDef
  <2> QED BY <2>1, <2>2, <2>3, LenProperties
<1>5. /\ counters' \in [Numbers -> Tween]
      /\ \A n \in Numbers : ~Active(counters'[n]) => counters'[n].value = counters'[n].to
  BY <1>2, StepIs DEF WindowInv
<1> QED BY <1>1, <1>3, <1>4, <1>5 DEF WindowInv, Active

LEMMA PaintKeeps ==
  ASSUME WindowInv, Paint
  PROVE  WindowInv'
<1>1. UNCHANGED <<life, table, shown, rows, hover, boxes>>
  BY DEF Paint, Same, outside, closing
<1>2. flash' \in [on : BOOLEAN, left : 0 .. 3]
  BY DEF Paint, WindowInv
<1>3. ASSUME NEW n \in Numbers
      PROVE  LET c == counterValue(counters[n], shown[n]) IN
             c \in Tween /\ (~Active(c) => c.value = c.to)
  <2>1. /\ counters[n] \in Tween /\ shown[n] \in 0 .. MaxPorts + 1 /\ RollFrames \in 1 .. RollFrames
        /\ ~Active(counters[n]) => counters[n].value = counters[n].to
    BY WindowAssumption DEF WindowInv, Table, Numbers, RollFrames
  <2> QED BY <2>1, setTargetIs DEF counterValue
<1>4. /\ counters' \in [Numbers -> Tween]
      /\ \A n \in Numbers : ~Active(counters'[n]) => counters'[n].value = counters'[n].to
  BY <1>3 DEF Paint
<1> QED BY <1>1, <1>2, <1>4 DEF WindowInv, Active

LEMMA PointerKeeps ==
  ASSUME WindowInv, Pointer
  PROVE  WindowInv'
<1>1. UNCHANGED <<life, table, shown, rows, counters, flash, boxes>>
  BY DEF Pointer, Same, outside, closing
<1>2. hover' \in Tween /\ hover'.to \in 0 .. 1
  <2>1. /\ hover \in Tween /\ 1 - hover.to \in 0 .. 1 /\ 1 - hover.to \in 0 .. MaxPorts + 1
        /\ HoverFrames \in 1 .. RollFrames
    BY WindowAssumption DEF WindowInv, HoverFrames, RollFrames
  <2> QED BY <2>1, setTargetIs DEF Pointer
<1> QED BY <1>1, <1>2 DEF WindowInv, Active

(* A step that moves nothing of what is drawn. *)
LEMMA Undrawn ==
  ASSUME WindowInv, table' \in Table, UNCHANGED <<shown, rows, counters, hover>>,
         flash' \in [on : BOOLEAN, left : 0 .. 3],
         boxes' \in Seq(Box), Len(boxes') <= MaxBoxes, life' = "open" => life = "open"
  PROVE  WindowInv'
BY DEF WindowInv, Active

LEMMA StartupKeeps ==
  ASSUME WindowInv, Starting \/ ClientStops \/ Shutdown \/ Watcher
  PROVE  WindowInv'
<1>1. ASSUME NEW from, NEW to, Startup(from, to), to # "open" PROVE WindowInv'
  <2>1. UNCHANGED <<table, shown, rows, counters, hover, flash, boxes>> /\ life' # "open"
    BY <1>1 DEF Startup, drawn, outside, closing
  <2> QED BY <2>1, Undrawn DEF WindowInv
<1>2. ASSUME ErrorBox \/ ClientStops \/ Watcher PROVE WindowInv'
  <2>1. /\ UNCHANGED <<table, shown, rows, counters, hover, flash, boxes>>
        /\ life' = "open" => life = "open"
    BY <1>2 DEF ErrorBox, ClientStops, Watcher, drawn, outside, closing
  <2> QED BY <2>1, Undrawn DEF WindowInv
<1>3. ASSUME Shutdown PROVE WindowInv'
  <2>1. UNCHANGED <<shown, rows, counters, hover, flash, boxes>> /\ life' # "open"
    <3>1. UNCHANGED <<shown, rows, counters, hover, flash, boxes>>
      BY <1>3 DEF Shutdown, drawn, closing
    <3>2. life' \in {"manager", "socket", "quit"}
      BY <1>3 DEF Shutdown
    <3> QED BY <3>1, <3>2
  <2>2. table' \in Table
    <3>1. table \in Table /\ [table EXCEPT !.held = 0] \in Table
      BY DEF WindowInv, Table
    <3> QED BY <1>3, <3>1 DEF Shutdown
  <2> QED BY <2>1, <2>2, Undrawn DEF WindowInv
<1> QED BY <1>1, <1>2, <1>3, CreateKeeps DEF Starting

LEMMA BoxesAre ==
  ASSUME WindowInv
  PROVE  /\ \A b \in Box : Len(boxes) < MaxBoxes
               => Append(boxes, b) \in Seq(Box) /\ Len(Append(boxes, b)) <= MaxBoxes
         /\ \A i \in DOMAIN boxes, a \in {"yes", "no"} :
               LET q == [boxes EXCEPT ![i].clicked = a]
               IN q \in Seq(Box) /\ Len(q) <= MaxBoxes
         /\ boxes # <<>> => LET q == SubSeq(boxes, 1, Len(boxes) - 1)
                            IN q \in Seq(Box) /\ Len(q) <= MaxBoxes
<1>1. boxes \in Seq(Box) /\ Len(boxes) \in Nat /\ Len(boxes) <= MaxBoxes /\ MaxBoxes \in Nat
      /\ DOMAIN boxes = 1 .. Len(boxes)
  BY WindowAssumption DEF WindowInv
<1>2. \A b \in Box : Len(boxes) < MaxBoxes
         => Append(boxes, b) \in Seq(Box) /\ Len(Append(boxes, b)) <= MaxBoxes
  <2> SUFFICES ASSUME NEW b \in Box, Len(boxes) < MaxBoxes
               PROVE  Append(boxes, b) \in Seq(Box) /\ Len(Append(boxes, b)) <= MaxBoxes
    OBVIOUS
  <2>1. Append(boxes, b) \in Seq(Box) /\ Len(Append(boxes, b)) = Len(boxes) + 1
    BY <1>1, AppendProperties
  <2> QED BY <1>1, <2>1
<1>3. ASSUME NEW i \in DOMAIN boxes, NEW a \in {"yes", "no"}
      PROVE  LET q == [boxes EXCEPT ![i].clicked = a]
             IN q \in Seq(Box) /\ Len(q) <= MaxBoxes
  <2> DEFINE c == [boxes[i] EXCEPT !.clicked = a]
             q == [boxes EXCEPT ![i] = c]
  <2>1. c \in Box
    <3>1. boxes[i] \in Box
      BY <1>1
    <3> QED BY <3>1 DEF Box
  <2>2. [boxes EXCEPT ![i].clicked = a] = q
    OBVIOUS
  <2> HIDE DEF c
  <2>3. q \in Seq(Box) /\ Len(q) = Len(boxes)
    BY <1>1, <2>1, ExceptSeq
  <2> HIDE DEF q
  <2> QED BY <1>1, <2>2, <2>3
<1>4. ASSUME boxes # <<>>
      PROVE  LET q == SubSeq(boxes, 1, Len(boxes) - 1)
             IN q \in Seq(Box) /\ Len(q) <= MaxBoxes
  <2>1. Len(boxes) # 0
    BY <1>1, <1>4
  <2>2. /\ SubSeq(boxes, 1, Len(boxes) - 1) \in Seq(Box)
        /\ Len(SubSeq(boxes, 1, Len(boxes) - 1)) = Len(boxes) - 1
    BY <1>1, <2>1, SubSeqProperties
  <2> QED BY <1>1, <2>2
<1> QED BY <1>2, <1>3, <1>4

LEMMA BoxKeeps ==
  ASSUME WindowInv, Command \/ Answer \/ CloseMessage \/ BoxReturns \/ Quit
  PROVE  WindowInv'
<1>1. /\ UNCHANGED <<table, shown, rows, counters, hover>>
      /\ life' = "open" => life = "open"
  BY DEF Command, Answer, CloseMessage, BoxReturns, Quit, Destroy, drawn, outside
<1>2. flash' \in [on : BOOLEAN, left : 0 .. 3]
  <2>1. [on |-> TRUE, left |-> 3] \in [on : BOOLEAN, left : 0 .. 3]
    OBVIOUS
  <2>2. flash' = flash \/ flash' = [on |-> TRUE, left |-> 3]
    BY DEF Command, Answer, CloseMessage, BoxReturns, Quit, Destroy, drawn, Flash
  <2> QED BY <2>1, <2>2 DEF WindowInv
<1>3. boxes' \in Seq(Box) /\ Len(boxes') <= MaxBoxes
  <2>1. ASSUME Command PROVE boxes' \in Seq(Box) /\ Len(boxes') <= MaxBoxes
    <3>1. [kind |-> "note", clicked |-> "nothing"] \in Box
      BY DEF Box
    <3> QED BY <2>1, <3>1, BoxesAre DEF Command, WindowInv
  <2>2. ASSUME Answer PROVE boxes' \in Seq(Box) /\ Len(boxes') <= MaxBoxes
    BY <2>2, BoxesAre DEF Answer
  <2>3. ASSUME CloseMessage PROVE boxes' \in Seq(Box) /\ Len(boxes') <= MaxBoxes
    <3>1. [kind |-> "close", clicked |-> "nothing"] \in Box
      BY DEF Box
    <3> QED BY <2>3, <3>1, BoxesAre DEF CloseMessage, WindowInv
  <2>4. ASSUME BoxReturns \/ Quit PROVE boxes' \in Seq(Box) /\ Len(boxes') <= MaxBoxes
    BY <2>4, BoxesAre DEF BoxReturns, Quit, Pop, WindowInv
  <2> QED BY <2>1, <2>2, <2>3, <2>4
<1> QED BY <1>1, <1>2, <1>3, Undrawn DEF WindowInv

LEMMA UserKeeps ==
  ASSUME WindowInv, SelectRow \/ RefreshButton \/ Minimise \/ Restore
  PROVE  WindowInv'
<1>1. ASSUME SelectRow \/ Minimise \/ Restore PROVE WindowInv'
  <2>1. UNCHANGED <<life, table, shown, rows, counters, hover, flash, boxes>>
    BY <1>1 DEF SelectRow, Minimise, Restore, Same, drawn, outside, closing
  <2> QED BY <2>1, Undrawn DEF WindowInv
<1>2. ASSUME RefreshButton PROVE WindowInv'
  <2>1. UNCHANGED <<life, table, counters, hover, boxes>> /\ shown' = table
        /\ rows' = syncRows(rows, table.ports) /\ flash' = [on |-> TRUE, left |-> 3]
    BY <1>2 DEF RefreshButton, Flash, Same, outside, closing
  <2>2. flash' \in [on : BOOLEAN, left : 0 .. 3]
    BY <2>1
  <2> QED BY <2>1, <2>2, RefreshKeeps DEF WindowInv, Active
<1> QED BY <1>1, <1>2

LEMMA WindowStepKeeps ==
  ASSUME WindowInv, WindowNext
  PROVE  WindowInv'
BY StartupKeeps, TableChangesKeeps, RefreshTimerKeeps, AnimTimerKeeps, PaintKeeps, PointerKeeps,
   BoxKeeps, UserKeeps DEF WindowNext, Messages, User

LEMMA WindowStart == WindowInit => WindowInv
<1> SUFFICES ASSUME WindowInit PROVE WindowInv
  OBVIOUS
<1>1. 0 \in 0 .. MaxPorts + 1 /\ 0 \in 0 .. MaxPorts /\ 0 <= MaxBoxes
  BY WindowAssumption
<1>2. table \in Table /\ shown \in Table
  BY <1>1 DEF WindowInit, Table
<1>3. /\ Settled(0) \in Tween /\ Settled(0).to = 0 /\ Settled(0).value = Settled(0).to
  BY <1>1, SettledIs
<1>4. /\ counters \in [Numbers -> Tween] /\ hover \in Tween /\ hover.to \in 0 .. 1
      /\ \A n \in Numbers : counters[n].value = counters[n].to
  BY <1>3 DEF WindowInit
<1>5. /\ rows \in Seq(Tween) /\ boxes \in Seq(Box) /\ Len(boxes) = 0
      /\ flash \in [on : BOOLEAN, left : 0 .. 3] /\ life # "open"
  BY DEF WindowInit
<1> QED BY <1>1, <1>2, <1>4, <1>5 DEF WindowInv

-----------------------------------------------------------------------------
(* What adding and removing do to a file. *)

(* The lines with words of W, and the keys they may be. *)
LineOf(W) == [first : W, shape : W, print : W, note : W]
KeyOf(W)  == {ParseKey(l) : l \in {m \in LineOf(W) : IsKey(m)}}

KeyPrint(l) == Fingerprint(ParseKey(l))
KeyLines(q) == {l \in ToSet(q) : IsKey(l)}
KeyPrints(q) == {KeyPrint(l) : l \in KeyLines(q)}

LEMMA ToSetIs ==
  ASSUME NEW X, NEW q \in Seq(X)
  PROVE  /\ q \in Seq(ToSet(q)) /\ ToSet(q) \subseteq X
         /\ \A y : y \in ToSet(q) <=> \E i \in DOMAIN q : q[i] = y
<1>1. Len(q) \in Nat /\ q \in [1 .. Len(q) -> X] /\ DOMAIN q = 1 .. Len(q)
  BY LenProperties
<1>2. \A y : y \in ToSet(q) <=> \E i \in DOMAIN q : q[i] = y
  BY DEF ToSet
<1>3. q \in [1 .. Len(q) -> ToSet(q)]
  BY <1>1, <1>2
<1>4. q \in Seq(ToSet(q))
  BY <1>1, <1>3, SeqDef
<1>5. ToSet(q) \subseteq X
  BY <1>1, <1>2
<1> QED BY <1>2, <1>4, <1>5

LEMMA ToSetAppend ==
  ASSUME NEW X, NEW q \in Seq(X), NEW x \in X
  PROVE  ToSet(Append(q, x)) = ToSet(q) \cup {x}
<1>1. /\ Append(q, x) \in Seq(X) /\ Len(Append(q, x)) = Len(q) + 1 /\ Len(q) \in Nat
      /\ \A i \in 1 .. Len(q) : Append(q, x)[i] = q[i]
      /\ Append(q, x)[Len(q) + 1] = x
  BY AppendProperties
<1>2. DOMAIN q = 1 .. Len(q) /\ DOMAIN Append(q, x) = 1 .. (Len(q) + 1)
  BY <1>1
<1> QED BY <1>1, <1>2 DEF ToSet

(* Only has what is in both, and asks no more of a set than what the sequence has. *)
LEMMA OnlySet ==
  ASSUME NEW X, NEW q \in Seq(X), NEW S
  PROVE  ToSet(Only(q, S)) = ToSet(q) \cap S
<1>1. q \in Seq(ToSet(q))
  BY ToSetIs
<1>2. PICK Y : Y = ToSet(q)
  OBVIOUS
<1>3. Only(q, S) \in Seq(Y \cap S)
  BY <1>1, <1>2, OnlyType
<1>4. ToSet(Only(q, S)) \subseteq Y \cap S
  BY <1>3, ToSetIs
<1>5. \A y \in S : y \in ToSet(q) => y \in ToSet(Only(q, S))
  BY OnlyKeeps
<1> QED BY <1>2, <1>4, <1>5

LEMMA OnlyWithin ==
  ASSUME NEW X, NEW q \in Seq(X), NEW S, NEW T, ToSet(q) \cap S = ToSet(q) \cap T
  PROVE  Only(q, S) = Only(q, T)
<1>1. PICK Y : Y = ToSet(q)
  OBVIOUS
<1>2. q \in Seq(Y) /\ Y \cap S = Y \cap T
  BY <1>1, ToSetIs
<1> QED BY <1>2, OnlySame

LEMMA KeyLineIs ==
  ASSUME NEW W, NEW l \in LineOf(W)
  PROVE  /\ KeyPrint(l) = <<l.print, l.shape>> /\ KeyPrint(l) \in W \X W
         /\ KeyText(ParseKey(l)) = l
         /\ IsKey(l) => l.first # "" /\ l # Blank
<1>1. /\ ParseKey(l).print = l.print /\ ParseKey(l).algorithm = l.first
      /\ ParseKey(l).shape = l.shape /\ ParseKey(l).comment = l.note
  BY DEF ParseKey
<1>2. KeyText(ParseKey(l)) = l
  BY <1>1 DEF KeyText, Line, LineOf
<1>3. IsKey(l) => l.first # ""
  BY DEF IsKey, keyTypePrefixes
<1>4. Blank.first = ""
  BY DEF Blank, Line
<1> QED BY <1>1, <1>2, <1>3, <1>4 DEF KeyPrint, Fingerprint, LineOf

LEMMA KeyIs ==
  ASSUME NEW W, NEW k \in KeyOf(W)
  PROVE  /\ KeyText(k) \in LineOf(W) /\ IsKey(KeyText(k))
         /\ KeyPrint(KeyText(k)) = Fingerprint(k) /\ Fingerprint(k) \in W \X W
<1>1. PICK l \in LineOf(W) : IsKey(l) /\ k = ParseKey(l)
  BY DEF KeyOf
<1>2. KeyText(k) = l
  BY <1>1, KeyLineIs
<1>3. KeyPrint(l) = Fingerprint(k) /\ KeyPrint(l) \in W \X W
  BY <1>1, KeyLineIs DEF KeyPrint
<1> QED BY <1>1, <1>2, <1>3

(* The keys of a content are its key lines, and their fingerprints those of the lines. *)
LEMMA ParsedAre ==
  ASSUME NEW W, NEW c, c.split \in Seq(LineOf(W))
  PROVE  parseKeys(c) \in Seq(KeyOf(W)) /\ PrintsIn(c) = KeyPrints(c.split)
<1>1. PICK q \in Seq(LineOf(W)) : q = c.split
  OBVIOUS
<1>2. PICK S : S = KeyLines(q)
  OBVIOUS
<1>3. PICK k : k = Only(q, S)
  OBVIOUS
<1>4. parseKeys(c) = [i \in DOMAIN k |-> ParseKey(k[i])]
  BY <1>1, <1>2, <1>3 DEF parseKeys, KeyLines
<1>5. k \in Seq(LineOf(W)) /\ ToSet(k) = S
  <2>1. k \in Seq(LineOf(W)) /\ ToSet(k) = ToSet(q) \cap S
    BY <1>3, OnlyType, OnlySet
  <2> QED BY <1>2, <2>1 DEF KeyLines
<1>6. Len(k) \in Nat /\ DOMAIN k = 1 .. Len(k)
  BY <1>5
<1>7. \A i \in 1 .. Len(k) : k[i] \in S /\ k[i] \in LineOf(W)
  BY <1>5, <1>6 DEF ToSet
<1>8. \A i \in 1 .. Len(k) : ParseKey(k[i]) \in KeyOf(W)
  BY <1>2, <1>7 DEF KeyLines, KeyOf
<1>9. parseKeys(c) \in Seq(KeyOf(W))
  BY <1>4, <1>6, <1>8, IsASeq
<1>10. PrintsIn(c) = {KeyPrint(k[i]) : i \in DOMAIN k}
  BY <1>4 DEF PrintsIn, Prints, KeyPrint
<1>11. {KeyPrint(k[i]) : i \in DOMAIN k} = {KeyPrint(l) : l \in S}
  BY <1>5 DEF ToSet
<1> QED BY <1>1, <1>2, <1>9, <1>10, <1>11 DEF KeyPrints

-----------------------------------------------------------------------------
(* The loop of AddAll. *)

Loop(W) == [have : SUBSET (W \X W), lines : Seq(LineOf(W)), added : Seq(KeyOf(W))]

LEMMA AddOneType ==
  ASSUME NEW W, NEW r \in Loop(W), NEW k \in KeyOf(W)
  PROVE  AddOne(r, k) \in Loop(W)
<1>1. KeyText(k) \in LineOf(W) /\ Fingerprint(k) \in W \X W
  BY KeyIs
<1>2. PICK x \in LineOf(W) : x = KeyText(k)
  BY <1>1
<1>3. r.have \in SUBSET (W \X W) /\ r.lines \in Seq(LineOf(W)) /\ r.added \in Seq(KeyOf(W))
  BY DEF Loop
<1>4. Append(r.lines, x) \in Seq(LineOf(W)) /\ Append(r.added, k) \in Seq(KeyOf(W))
  BY <1>3, AppendProperties
<1>5. Notes(r.have, k) \in SUBSET (W \X W)
  BY <1>1, <1>3 DEF Notes
<1>6. [have |-> Notes(r.have, k), lines |-> Append(r.lines, x), added |-> Append(r.added, k)] \in Loop(W)
  BY <1>4, <1>5 DEF Loop
<1> QED BY <1>2, <1>6 DEF AddOne

(* What the loop has after 0, 1, ... all keys of the paste. *)
Loops(r, start, add) ==
  r[0] = start /\ \A i \in 1 .. Len(add) : r[i] = AddOne(r[i - 1], add[i])

LEMMA AddedIs ==
  ASSUME NEW W, NEW start \in Loop(W), NEW add \in Seq(KeyOf(W))
  PROVE  \E r : Loops(r, start, add) /\ Added(start, add) = r[Len(add)]
<1> DEFINE On(v, i) == IF i \in 1 .. Len(add) THEN AddOne(v, add[i]) ELSE v
           G == [i \in Nat |-> [v \in Loop(W) |-> On(v, i)]]
           Is(r) == r = [i \in 0 .. Len(add) |-> IF i = 0 THEN start ELSE AddOne(r[i - 1], add[i])]
<1>1. G \in [Nat -> [Loop(W) -> Loop(W)]]
  <2>1. \A i \in Nat : \A v \in Loop(W) : On(v, i) \in Loop(W)
    <3> TAKE i \in Nat
    <3> TAKE v \in Loop(W)
    <3>1. CASE i \in 1 .. Len(add)
      <4>1. add[i] \in KeyOf(W)
        BY <3>1, ElementOfSeq
      <4>2. AddOne(v, add[i]) \in Loop(W)
        BY <4>1, AddOneType
      <4> QED BY <3>1, <4>2
    <3>2. CASE i \notin 1 .. Len(add)
      BY <3>2
    <3> QED BY <3>1, <3>2
  <2> HIDE DEF On
  <2> QED BY <2>1
<1>2. Len(add) \in Nat
  OBVIOUS
<1>3. PICK f : /\ f \in [0 .. Len(add) -> Loop(W)] /\ f[0] = start
               /\ \A i \in 1 .. Len(add) : f[i] = G[i][f[i - 1]]
  <2> HIDE DEF G
  <2>1. \E f : f \in [0 .. Len(add) -> Loop(W)] /\ Recurs(f, start, G, Len(add))
    BY <1>1, <1>2, Recursion
  <2> QED BY <2>1 DEF Recurs
<1>4. \A i \in 1 .. Len(add) : f[i] = AddOne(f[i - 1], add[i])
  <2> TAKE i \in 1 .. Len(add)
  <2>1. f[i - 1] \in Loop(W) /\ i \in Nat
    BY <1>2, <1>3
  <2>2. G[i][f[i - 1]] = On(f[i - 1], i)
    BY <2>1
  <2> QED BY <1>3, <2>2
<1>5. Is(f)
  <2>1. ASSUME NEW i \in 0 .. Len(add)
        PROVE  f[i] = IF i = 0 THEN start ELSE AddOne(f[i - 1], add[i])
    <3>1. i = 0 \/ (i # 0 /\ i \in 1 .. Len(add))
      BY <1>2
    <3> QED BY <1>3, <1>4, <3>1
  <2> QED BY <1>3, <2>1
<1>6. PICK r : Is(r) /\ Added(start, add) = r[Len(add)]
  <2>1. PICK r : r = CHOOSE d : Is(d)
    OBVIOUS
  <2>2. Is(r)
    <3> HIDE DEF Is
    <3> QED BY <1>5, <2>1
  <2>3. Added(start, add) = r[Len(add)]
    BY <2>1 DEF Added
  <2> QED BY <2>2, <2>3
<1>7. Loops(r, start, add)
  <2>1. PICK g : g = [i \in 0 .. Len(add) |-> IF i = 0 THEN start ELSE AddOne(r[i - 1], add[i])]
    OBVIOUS
  <2>2. r = g
    BY <1>6, <2>1
  <2>3. g[0] = start /\ \A i \in 1 .. Len(add) : g[i] = AddOne(r[i - 1], add[i])
    BY <1>2, <2>1
  <2> QED BY <2>2, <2>3 DEF Loops
<1> QED BY <1>6, <1>7

(* r is what the loop has when it began with the fingerprints have and the lines
   kept and came by the keys with the fingerprints seen: the new ones of these,
   each once. *)
Texts(q) == [i \in DOMAIN q |-> KeyText(q[i])]
Distinct(q) == \A i, j \in DOMAIN q : Fingerprint(q[i]) = Fingerprint(q[j]) => i = j
Gathered(r, have, kept, seen) ==
  /\ r.have = have \cup seen
  /\ r.lines = kept \o Texts(r.added)
  /\ Prints(r.added) = seen \ have
  /\ Distinct(r.added)

LEMMA SameInterval == ASSUME NEW m \in Nat, NEW n \in Nat, 1 .. m = 1 .. n PROVE m = n
<1>1. \A i \in Nat : i \in 1 .. m <=> i \in 1 .. n
  OBVIOUS
<1>2. m = 0 \/ m \in 1 .. n
  BY <1>1
<1>3. n = 0 \/ n \in 1 .. m
  BY <1>1
<1> QED BY <1>2, <1>3

LEMMA TextsAre ==
  ASSUME NEW W, NEW q \in Seq(KeyOf(W))
  PROVE  /\ Texts(q) \in Seq(LineOf(W)) /\ Len(Texts(q)) = Len(q)
         /\ \A i \in 1 .. Len(q) : Texts(q)[i] = KeyText(q[i]) /\ q[i] \in KeyOf(W)
         /\ DOMAIN q = 1 .. Len(q)
<1>1. Len(q) \in Nat /\ DOMAIN q = 1 .. Len(q) /\ \A i \in 1 .. Len(q) : q[i] \in KeyOf(W)
  OBVIOUS
<1>2. \A i \in 1 .. Len(q) : KeyText(q[i]) \in LineOf(W)
  BY <1>1, KeyIs
<1>3. [i \in 1 .. Len(q) |-> KeyText(q[i])] \in Seq(LineOf(W))
  BY <1>1, <1>2, IsASeq
<1>4. Texts(q) = [i \in 1 .. Len(q) |-> KeyText(q[i])]
  BY <1>1 DEF Texts
<1>5. PICK t \in Seq(LineOf(W)) : t = [i \in 1 .. Len(q) |-> KeyText(q[i])]
  BY <1>3
<1>6. Len(t) \in Nat /\ 1 .. Len(t) = 1 .. Len(q)
  <2>1. DOMAIN t = 1 .. Len(q)
    BY <1>5
  <2> QED BY <2>1, LenProperties
<1>7. Len(t) = Len(q)
  <2>1. PICK m \in Nat, n \in Nat : m = Len(t) /\ n = Len(q) /\ 1 .. m = 1 .. n
    BY <1>1, <1>6
  <2>2. m = n
    BY <2>1, SameInterval
  <2> QED BY <2>1, <2>2
<1>8. \A i \in 1 .. Len(q) : t[i] = KeyText(q[i])
  BY <1>5
<1>9. Texts(q) = t
  BY <1>4, <1>5
<1>10. Texts(q) \in Seq(LineOf(W)) /\ Len(Texts(q)) = Len(q)
  BY <1>7, <1>9
<1>11. \A i \in 1 .. Len(q) : Texts(q)[i] = KeyText(q[i]) /\ q[i] \in KeyOf(W)
  BY <1>1, <1>8, <1>9
<1> QED BY <1>1, <1>10, <1>11

LEMMA TextsAppend ==
  ASSUME NEW W, NEW q \in Seq(KeyOf(W)), NEW k \in KeyOf(W)
  PROVE  Texts(Append(q, k)) = Append(Texts(q), KeyText(k))
<1>1. PICK r \in Seq(KeyOf(W)) : r = Append(q, k)
  BY AppendProperties
<1>2. PICK x \in LineOf(W) : x = KeyText(k)
  BY KeyIs
<1>3. /\ Len(r) = Len(q) + 1 /\ Len(q) \in Nat /\ r[Len(q) + 1] = k
      /\ \A i \in 1 .. Len(q) : r[i] = q[i]
  BY <1>1, AppendProperties
<1>4. PICK u \in Seq(LineOf(W)) : u = Texts(r) /\ Len(u) = Len(r) /\ \A i \in 1 .. Len(r) : u[i] = KeyText(r[i])
  BY TextsAre
<1>5. PICK t \in Seq(LineOf(W)) : t = Texts(q) /\ Len(t) = Len(q) /\ \A i \in 1 .. Len(q) : t[i] = KeyText(q[i])
  BY TextsAre
<1>6. PICK v \in Seq(LineOf(W)) : v = Append(t, x)
  BY AppendProperties
<1>7. Len(v) = Len(q) + 1 /\ v[Len(q) + 1] = x /\ \A i \in 1 .. Len(q) : v[i] = t[i]
  BY <1>5, <1>6, AppendProperties
<1>8. \A i \in 1 .. (Len(q) + 1) : i \in 1 .. Len(q) \/ i = Len(q) + 1
  BY <1>3
<1>9. \A i \in 1 .. Len(u) : u[i] = v[i]
  <2> TAKE i \in 1 .. Len(u)
  <2>1. i \in 1 .. (Len(q) + 1) /\ u[i] = KeyText(r[i])
    BY <1>3, <1>4
  <2>2. CASE i \in 1 .. Len(q)
    BY <1>3, <1>5, <1>7, <2>1, <2>2
  <2>3. CASE i = Len(q) + 1
    BY <1>2, <1>3, <1>7, <2>1, <2>3
  <2> QED BY <1>8, <2>1, <2>2, <2>3
<1>10. Len(u) = Len(v)
  BY <1>3, <1>4, <1>7
<1>11. u = v
  BY <1>9, <1>10, SeqEqual
<1> QED BY <1>1, <1>2, <1>4, <1>5, <1>6, <1>11

LEMMA GatheredOne ==
  ASSUME NEW W, NEW r \in Loop(W), NEW have, NEW kept \in Seq(LineOf(W)), NEW seen,
         Gathered(r, have, kept, seen), NEW k \in KeyOf(W)
  PROVE  Gathered(AddOne(r, k), have, kept, seen \cup {Fingerprint(k)})
<1>1. PICK p : p = Fingerprint(k)
  OBVIOUS
<1>2. r.added \in Seq(KeyOf(W)) /\ r.lines \in Seq(LineOf(W))
  BY DEF Loop
<1>3. CASE p \in r.have
  <2>1. AddOne(r, k) = r
    BY <1>1, <1>3 DEF AddOne
  <2>2. have \cup (seen \cup {p}) = have \cup seen /\ (seen \cup {p}) \ have = seen \ have
    BY <1>3 DEF Gathered
  <2> QED BY <1>1, <2>1, <2>2 DEF Gathered
<1>4. CASE p \notin r.have
  <2>1. PICK e : e = AddOne(r, k)
    OBVIOUS
  <2>2. PICK q \in Seq(KeyOf(W)) : q = r.added
    BY <1>2
  <2>3. PICK x \in LineOf(W) : x = KeyText(k)
    BY KeyIs
  <2>4. e.have = r.have \cup {p} /\ e.lines = Append(r.lines, x) /\ e.added = Append(q, k)
    BY <1>1, <1>4, <2>1, <2>2, <2>3 DEF AddOne, Notes
  <2>5. p \notin have /\ p \notin Prints(q)
    BY <1>4, <2>2 DEF Gathered
  <2>6. e.have = have \cup (seen \cup {p})
    BY <2>4 DEF Gathered
  <2>7. e.lines = kept \o Texts(e.added)
    <3>1. PICK t \in Seq(LineOf(W)) : t = Texts(q)
      BY TextsAre
    <3>2. Texts(e.added) = Append(t, x)
      BY <2>3, <2>4, <3>1, TextsAppend
    <3>3. kept \o Append(t, x) = Append(kept \o t, x)
      BY ConcatAppend
    <3>4. r.lines = kept \o t
      BY <2>2, <3>1 DEF Gathered
    <3> QED BY <2>4, <3>2, <3>3, <3>4
  <2>8. /\ DOMAIN q = 1 .. Len(q) /\ Len(q) \in Nat /\ DOMAIN e.added = 1 .. (Len(q) + 1)
        /\ \A i \in 1 .. Len(q) : e.added[i] = q[i]
        /\ e.added[Len(q) + 1] = k
    BY <2>4, AppendProperties
  <2>9. \A i \in 1 .. (Len(q) + 1) : i \in 1 .. Len(q) \/ i = Len(q) + 1
    BY <2>8
  <2>10. \A i \in 1 .. Len(q) : i \in 1 .. (Len(q) + 1) /\ Len(q) + 1 \in 1 .. (Len(q) + 1)
    BY <2>8
  <2>11. Prints(e.added) = Prints(q) \cup {p}
    <3>1. ASSUME NEW i \in 1 .. (Len(q) + 1) PROVE Fingerprint(e.added[i]) \in Prints(q) \cup {p}
      BY <1>1, <2>8, <2>9 DEF Prints
    <3>2. ASSUME NEW i \in 1 .. Len(q) PROVE Fingerprint(q[i]) \in Prints(e.added)
      BY <2>8, <2>10 DEF Prints
    <3>3. p \in Prints(e.added)
      <4>1. Len(q) + 1 \in 1 .. (Len(q) + 1)
        BY <2>8
      <4> QED BY <1>1, <2>8, <4>1 DEF Prints
    <3>4. Prints(e.added) \subseteq Prints(q) \cup {p}
      BY <2>8, <3>1 DEF Prints
    <3>5. Prints(q) \subseteq Prints(e.added)
      BY <2>8, <3>2 DEF Prints
    <3> QED BY <3>3, <3>4, <3>5
  <2>12. Prints(e.added) = (seen \cup {p}) \ have
    BY <2>2, <2>5, <2>11 DEF Gathered
  <2>13. \A i, j \in 1 .. (Len(q) + 1) : Fingerprint(e.added[i]) = Fingerprint(e.added[j]) => i = j
    <3> TAKE i, j \in 1 .. (Len(q) + 1)
    <3>1. \A n \in 1 .. Len(q) : Fingerprint(q[n]) # p
      BY <2>5, <2>8 DEF Prints
    <3>2. \A n, m \in 1 .. Len(q) : Fingerprint(q[n]) = Fingerprint(q[m]) => n = m
      BY <2>2, <2>8 DEF Gathered, Distinct
    <3> QED BY <1>1, <2>8, <2>9, <3>1, <3>2
  <2> QED BY <1>1, <2>1, <2>6, <2>7, <2>8, <2>12, <2>13 DEF Gathered, Distinct
<1> QED BY <1>3, <1>4

SeenOf(add, m) == {Fingerprint(add[j]) : j \in 1 .. m}

LEMMA SeenNext ==
  ASSUME NEW add, NEW m \in Nat, NEW n, n = m + 1
  PROVE  SeenOf(add, n) = SeenOf(add, m) \cup {Fingerprint(add[n])}
<1>1. 1 .. n = (1 .. m) \cup {n}
  OBVIOUS
<1> QED BY <1>1 DEF SeenOf

LEMMA AddedGathers ==
  ASSUME NEW W, NEW have \in SUBSET (W \X W), NEW kept \in Seq(LineOf(W)), NEW add \in Seq(KeyOf(W)),
         NEW e, e = Added([have |-> have, lines |-> kept, added |-> <<>>], add)
  PROVE  /\ Gathered(e, have, kept, Prints(add))
         /\ e.added \in Seq(KeyOf(W))
<1>1. PICK start : start = [have |-> have, lines |-> kept, added |-> <<>>]
  OBVIOUS
<1>2. start \in Loop(W)
  BY <1>1, EmptySeq DEF Loop
<1>3. PICK r : Loops(r, start, add) /\ e = r[Len(add)]
  BY <1>1, <1>2, AddedIs
<1>4. Len(add) \in Nat /\ DOMAIN add = 1 .. Len(add)
  OBVIOUS
<1> DEFINE A == {m \in Nat : m <= Len(add) => r[m] \in Loop(W) /\ Gathered(r[m], have, kept, SeenOf(add, m))}
<1>5. 0 \in A
  <2>1. r[0] = start
    BY <1>3 DEF Loops
  <2>2. SeenOf(add, 0) = {} /\ Prints(<<>>) = {} /\ Distinct(<<>>)
    BY DEF SeenOf, Prints, Distinct
  <2>3. Texts(<<>>) = <<>>
    BY DEF Texts
  <2>4. kept \o <<>> = kept
    BY ConcatEmptySeq
  <2>5. start.have = have /\ start.lines = kept /\ start.added = <<>>
    BY <1>1
  <2>6. Gathered(start, have, kept, {})
    BY <2>2, <2>3, <2>4, <2>5 DEF Gathered
  <2> QED BY <1>2, <2>1, <2>2, <2>6
<1>6. ASSUME NEW m \in Nat, m \in A PROVE m + 1 \in A
  <2>1. PICK n \in Nat : n = m + 1
    OBVIOUS
  <2>2. ASSUME n <= Len(add) PROVE r[n] \in Loop(W) /\ Gathered(r[n], have, kept, SeenOf(add, n))
    <3>1. n \in 1 .. Len(add) /\ n - 1 = m /\ m <= Len(add)
      BY <1>4, <2>1, <2>2
    <3>2. PICK k \in KeyOf(W) : k = add[n]
      BY <3>1, ElementOfSeq
    <3>3. r[n] = AddOne(r[m], k)
      BY <1>3, <3>1, <3>2 DEF Loops
    <3>4. r[m] \in Loop(W) /\ Gathered(r[m], have, kept, SeenOf(add, m))
      BY <1>6, <3>1
    <3>5. PICK v \in Loop(W) : v = r[m]
      BY <3>4
    <3>6. AddOne(v, k) \in Loop(W)
      BY AddOneType
    <3>7. Gathered(AddOne(v, k), have, kept, SeenOf(add, m) \cup {Fingerprint(k)})
      BY <3>4, <3>5, GatheredOne
    <3>8. SeenOf(add, n) = SeenOf(add, m) \cup {Fingerprint(k)}
      BY <2>1, <3>2, SeenNext
    <3> QED BY <3>3, <3>5, <3>6, <3>7, <3>8
  <2> QED BY <2>1, <2>2
<1>7. Nat \subseteq A
  <2> HIDE DEF A
  <2> QED BY <1>5, <1>6, SetInduction
<1>8. e \in Loop(W) /\ Gathered(e, have, kept, SeenOf(add, Len(add)))
  BY <1>3, <1>4, <1>7
<1>9. SeenOf(add, Len(add)) = Prints(add)
  BY <1>4 DEF SeenOf, Prints
<1> QED BY <1>8, <1>9 DEF Loop

-----------------------------------------------------------------------------
(* The file that is written. *)

LEMMA BlankIs == ~IsKey(Blank) /\ Blank.first = ""
<1>1. Blank = [first |-> "", shape |-> "none", print |-> 0, note |-> ""]
  BY DEF Blank, Line
<1>2. Blank.first \notin keyTypePrefixes
  BY <1>1 DEF keyTypePrefixes
<1> QED BY <1>1, <1>2 DEF IsKey

(* W is the words of the lines, those of a blank line among them. *)
Words(W) == {"", "none", 0} \subseteq W

LEMMA KeptIs ==
  ASSUME NEW W, NEW c, c.split \in Seq(LineOf(W)), NEW k, k = keptLines(c)
  PROVE  /\ k \in Seq(LineOf(W)) /\ ToSet(k) = {l \in ToSet(c.split) : l.first # ""}
         /\ KeyLines(k) = KeyLines(c.split)
<1>1. PICK q \in Seq(LineOf(W)) : q = c.split
  OBVIOUS
<1>2. PICK S : S = {l \in ToSet(q) : l.first # ""}
  OBVIOUS
<1>3. k \in Seq(LineOf(W)) /\ ToSet(k) = {l \in ToSet(q) : l.first # ""}
  <2>1. k = Only(q, S)
    BY <1>1, <1>2 DEF keptLines
  <2>2. Only(q, S) \in Seq(LineOf(W))
    BY OnlyType
  <2>3. ToSet(Only(q, S)) = ToSet(q) \cap S
    BY OnlySet
  <2> QED BY <1>2, <2>1, <2>2, <2>3
<1>4. ToSet(q) \subseteq LineOf(W)
  BY ToSetIs
<1>5. \A l \in ToSet(q) : IsKey(l) => l.first # ""
  BY <1>4, KeyLineIs
<1> QED BY <1>1, <1>3, <1>5 DEF KeyLines

(* The blank line that ends the file is no key. *)
Ended(W, s, q) ==
  /\ s \in Seq(LineOf(W)) /\ KeyLines(s) = KeyLines(q) /\ KeyPrints(s) = KeyPrints(q)
  /\ s # <<>> /\ Last(s) = Blank
  /\ Len(s) = Len(q) + 1 /\ s[Len(q) + 1] = Blank /\ \A i \in 1 .. Len(q) : s[i] = q[i]

LEMMA BlankEnds ==
  ASSUME NEW W, Words(W), NEW q \in Seq(LineOf(W))
  PROVE  Ended(W, Append(q, Blank), q)
<1>1. PICK s : s = Append(q, Blank)
  OBVIOUS
<1>2. Blank \in LineOf(W)
  BY DEF Words, LineOf, Blank, Line
<1>3. PICK x \in LineOf(W) : x = Blank
  BY <1>2
<1>4. /\ s \in Seq(LineOf(W)) /\ Len(s) = Len(q) + 1 /\ s # <<>>
      /\ s[Len(q) + 1] = x /\ \A i \in 1 .. Len(q) : s[i] = q[i]
  BY <1>1, <1>3, AppendProperties
<1>5. ToSet(s) = ToSet(q) \cup {x}
  BY <1>1, <1>3, ToSetAppend
<1>6. KeyLines(s) = KeyLines(q)
  BY <1>3, <1>5, BlankIs DEF KeyLines
<1>7. Last(s) = Blank
  BY <1>3, <1>4 DEF Last
<1> QED BY <1>1, <1>3, <1>4, <1>6, <1>7 DEF KeyPrints, Ended

LEMMA TextsAreKeys ==
  ASSUME NEW W, NEW q \in Seq(KeyOf(W))
  PROVE  KeyPrints(Texts(q)) = Prints(q) /\ ToSet(Texts(q)) \subseteq LineOf(W)
<1>1. PICK t \in Seq(LineOf(W)) : t = Texts(q) /\ Len(t) = Len(q) /\ \A i \in 1 .. Len(q) : t[i] = KeyText(q[i])
  BY TextsAre
<1>2. DOMAIN q = 1 .. Len(q) /\ DOMAIN t = 1 .. Len(q) /\ \A i \in 1 .. Len(q) : q[i] \in KeyOf(W)
  BY <1>1
<1>3. \A i \in 1 .. Len(q) : IsKey(t[i]) /\ KeyPrint(t[i]) = Fingerprint(q[i])
  BY <1>1, <1>2, KeyIs
<1>4. ToSet(t) = {t[i] : i \in 1 .. Len(q)}
  BY <1>2 DEF ToSet
<1>5. KeyLines(t) = ToSet(t)
  BY <1>3, <1>4 DEF KeyLines
<1>6. KeyPrints(t) = {Fingerprint(q[i]) : i \in 1 .. Len(q)}
  BY <1>3, <1>4, <1>5 DEF KeyPrints
<1>7. ToSet(t) \subseteq LineOf(W)
  BY ToSetIs
<1> QED BY <1>1, <1>2, <1>6, <1>7 DEF Prints

(* How often a key is among lines. *)
At(s, p) == {i \in DOMAIN s : IsKey(s[i]) /\ KeyPrint(s[i]) = p}
Once(s, p) == \E i : At(s, p) = {i}

LEMMA OftenIs ==
  ASSUME NEW c, NEW s, s = c.split, NEW p
  PROVE  /\ At(s, p) = {} => Often(c, p) = 0
         /\ Once(s, p) => Often(c, p) = 1
<1>1. Often(c, p) = Cardinality(At(s, p))
  BY DEF Often, At, KeyPrint
<1> QED BY <1>1, FS_EmptySet, FS_Singleton DEF Once

LEMMA NowhereAt ==
  ASSUME NEW X, NEW s \in Seq(X), NEW p, p \notin KeyPrints(s)
  PROVE  At(s, p) = {}
BY DEF KeyPrints, KeyLines, At, ToSet

(* The lines that were kept, the new keys, a blank line: each of these keys is
   there at one place. *)
LEMMA OncePlaced ==
  ASSUME NEW W, Words(W), NEW kept \in Seq(LineOf(W)), NEW q \in Seq(KeyOf(W)), Distinct(q),
         NEW p \in Prints(q), p \notin KeyPrints(kept)
  PROVE  Once(Append(kept \o Texts(q), Blank), p)
<1>1. PICK s : s = Append(kept \o Texts(q), Blank)
  OBVIOUS
<1>2. PICK t \in Seq(LineOf(W)) : t = Texts(q) /\ Len(t) = Len(q) /\ \A i \in 1 .. Len(q) : t[i] = KeyText(q[i])
  BY TextsAre
<1>3. PICK a \in Nat, b \in Nat : a = Len(kept) /\ b = Len(q)
  OBVIOUS
<1>4. DOMAIN kept = 1 .. a /\ DOMAIN q = 1 .. b /\ \A i \in 1 .. b : q[i] \in KeyOf(W)
  BY <1>3
<1>5. PICK u \in Seq(LineOf(W)) : u = kept \o t
  BY ConcatProperties
<1>6. /\ Len(u) = a + b
      /\ \A i \in 1 .. a : u[i] = kept[i]
      /\ \A i \in 1 .. b : u[a + i] = t[i]
  <2>1. /\ Len(kept \o t) = Len(kept) + Len(t)
        /\ \A i \in 1 .. Len(kept) : (kept \o t)[i] = kept[i]
        /\ \A i \in 1 .. Len(t) : (kept \o t)[Len(kept) + i] = t[i]
    OBVIOUS
  <2> QED BY <1>2, <1>3, <1>5, <2>1
<1>7. /\ DOMAIN s = 1 .. (a + b + 1) /\ s[a + b + 1] = Blank
      /\ \A i \in 1 .. (a + b) : s[i] = u[i]
  <2>1. s = Append(u, Blank)
    BY <1>1, <1>2, <1>5
  <2>2. /\ s \in Seq(LineOf(W)) /\ Len(s) = Len(u) + 1
        /\ s[Len(u) + 1] = Blank /\ \A i \in 1 .. Len(u) : s[i] = u[i]
    BY <2>1, BlankEnds DEF Ended
  <2> QED BY <1>6, <2>2
<1>8. \A i \in 1 .. b : IsKey(t[i]) /\ KeyPrint(t[i]) = Fingerprint(q[i])
  BY <1>2, <1>3, <1>4, KeyIs
<1>9. PICK n \in 1 .. b : Fingerprint(q[n]) = p
  BY <1>4 DEF Prints
<1>10. PICK m : m = a + n
  OBVIOUS
<1>11. m \in 1 .. (a + b) /\ m \in 1 .. (a + b + 1) /\ u[m] = t[n]
  BY <1>6, <1>10
<1>12. m \in At(s, p)
  BY <1>7, <1>8, <1>9, <1>11 DEF At
<1>13. ASSUME NEW i \in At(s, p) PROVE i = m
  <2>1. i \in 1 .. (a + b + 1) /\ IsKey(s[i]) /\ KeyPrint(s[i]) = p
    BY <1>7 DEF At
  <2>2. ASSUME i \in 1 .. a PROVE FALSE
    <3>1. s[i] = kept[i]
      BY <1>6, <1>7, <2>2
    <3>2. s[i] \in KeyLines(kept)
      BY <1>4, <2>1, <2>2, <3>1 DEF KeyLines, ToSet
    <3> QED BY <2>1, <3>2 DEF KeyPrints
  <2>3. i # a + b + 1
    BY <1>7, <2>1, BlankIs
  <2>4. PICK j \in 1 .. b : i = a + j
    <3>1. i - a \in 1 .. b /\ i = a + (i - a)
      BY <2>1, <2>2, <2>3
    <3> QED BY <3>1
  <2>5. s[i] = t[j]
    <3>1. a + j \in 1 .. (a + b)
      OBVIOUS
    <3> QED BY <1>6, <1>7, <2>4, <3>1
  <2>6. Fingerprint(q[j]) = Fingerprint(q[n])
    BY <1>8, <1>9, <2>1, <2>5
  <2>7. j = n
    BY <1>4, <2>6 DEF Distinct
  <2> QED BY <1>10, <2>4, <2>7
<1>14. At(s, p) = {m}
  BY <1>12, <1>13
<1> QED BY <1>1, <1>14 DEF Once

(* q is the keys of a paste that are new, in the order they first come in it;
   d is the content c with them added. *)
News(q, new) == Prints(q) = new /\ Distinct(q)
Updated(W, c, d, new) ==
  \E q \in Seq(KeyOf(W)) :
    News(q, new) /\ d = Content(Append(keptLines(c) \o Texts(q), Blank), FALSE)

(* What AddAll does. *)
AddOutcome(W, c, r, new) ==
  IF new = {} THEN r.content = c /\ r.added = <<>> ELSE Updated(W, c, r.content, new)

LEMMA AddAllIs ==
  ASSUME NEW W, NEW c, c.split \in Seq(LineOf(W)), NEW add \in Seq(KeyOf(W))
  PROVE  AddOutcome(W, c, AddAll(parseKeys(c), c, add), Prints(add) \ PrintsIn(c))
<1>1. PICK have, new, r : /\ have = PrintsIn(c) /\ new = Prints(add) \ have
                          /\ r = AddAll(parseKeys(c), c, add)
  OBVIOUS
<1>2. PICK kept \in Seq(LineOf(W)) : kept = keptLines(c)
  BY KeptIs
<1>3. PICK e : e = Added([have |-> have, lines |-> kept, added |-> <<>>], add)
  OBVIOUS
<1>4. have \in SUBSET (W \X W)
  <2>1. have = KeyPrints(c.split)
    BY <1>1, ParsedAre
  <2>2. ToSet(c.split) \subseteq LineOf(W)
    BY ToSetIs
  <2>3. \A l \in LineOf(W) : KeyPrint(l) \in W \X W
    BY KeyLineIs
  <2> QED BY <2>1, <2>2, <2>3 DEF KeyPrints, KeyLines
<1>5. Gathered(e, have, kept, Prints(add)) /\ e.added \in Seq(KeyOf(W))
  BY <1>3, <1>4, AddedGathers
<1>6. PICK q \in Seq(KeyOf(W)) : q = e.added
  BY <1>5
<1>7. News(q, new) /\ e.lines = kept \o Texts(q)
  BY <1>1, <1>5, <1>6 DEF Gathered, News
<1>8. r = IF q = <<>> THEN [content |-> c, added |-> <<>>]
          ELSE [content |-> render(e.lines), added |-> q]
  BY <1>1, <1>2, <1>3, <1>6 DEF AddAll, PrintsIn
<1>9. ASSUME new = {} PROVE r.content = c /\ r.added = <<>>
  <2>1. Prints(q) = {}
    BY <1>7, <1>9 DEF News
  <2>2. \A i \in DOMAIN q : FALSE
    BY <2>1 DEF Prints
  <2>3. q = <<>>
    <3>1. Len(q) \in Nat /\ DOMAIN q = 1 .. Len(q)
      OBVIOUS
    <3>2. 1 \notin 1 .. Len(q)
      BY <2>2, <3>1
    <3>3. Len(q) = 0
      BY <3>1, <3>2
    <3> QED BY <3>3, EmptySeq
  <2> QED BY <1>8, <2>3
<1>10. ASSUME new # {} PROVE Updated(W, c, r.content, new)
  <2>1. q # <<>>
    <3>1. Prints(<<>>) = {}
      BY DEF Prints
    <3> QED BY <1>7, <1>10, <3>1 DEF News
  <2>2. e.lines # <<>>
    <3>1. PICK t \in Seq(LineOf(W)) : t = Texts(q) /\ Len(t) = Len(q)
      BY TextsAre
    <3>2. t # <<>>
      BY <2>1, <3>1
    <3>3. kept \o t # <<>>
      BY <3>2
    <3> QED BY <1>7, <3>1, <3>3
  <2>3. r.content = render(e.lines)
    BY <1>8, <2>1
  <2>4. r.content = Content(Append(e.lines, Blank), FALSE)
    BY <2>2, <2>3 DEF render
  <2> QED BY <1>2, <1>7, <2>4 DEF Updated
<1>11. AddOutcome(W, c, r, new)
  BY <1>9, <1>10 DEF AddOutcome
<1> QED BY <1>1, <1>11

(* What such a content holds. *)
Holds(c, d, new) ==
  /\ ~d.crlf /\ IsPrefix(keptLines(c), d.split) /\ Last(d.split) = Blank
  /\ PrintsIn(d) = PrintsIn(c) \cup new
  /\ \A p \in new : Often(d, p) = 1

LEMMA UpdatedHolds ==
  ASSUME NEW W, Words(W), NEW c, c.split \in Seq(LineOf(W)), NEW new, new \cap PrintsIn(c) = {},
         NEW d, Updated(W, c, d, new)
  PROVE  Holds(c, d, new) /\ d.split \in Seq(LineOf(W))
<1>1. PICK kept \in Seq(LineOf(W)) : kept = keptLines(c) /\ KeyLines(kept) = KeyLines(c.split)
  BY KeptIs
<1>2. PICK q \in Seq(KeyOf(W)) : News(q, new) /\ d = Content(Append(kept \o Texts(q), Blank), FALSE)
  BY <1>1 DEF Updated
<1>3. PICK t \in Seq(LineOf(W)) : t = Texts(q)
  BY TextsAre
<1>4. PICK u \in Seq(LineOf(W)) : u = kept \o t
  BY ConcatProperties
<1>5. PICK s : s = Append(u, Blank)
  OBVIOUS
<1>6. Ended(W, s, u)
  BY <1>5, BlankEnds
<1>7. /\ s \in Seq(LineOf(W)) /\ Last(s) = Blank /\ KeyPrints(s) = KeyPrints(u)
      /\ Len(s) = Len(u) + 1 /\ \A i \in 1 .. Len(u) : s[i] = u[i]
  BY <1>6 DEF Ended
<1>8. d.split = s /\ ~d.crlf
  BY <1>2, <1>3, <1>4, <1>5 DEF Content
<1>9. IsPrefix(kept, s)
  <2>1. IsPrefix(kept, u)
    BY <1>4, PrefixGrows
  <2>2. Len(kept) <= Len(u) /\ \A i \in 1 .. Len(kept) : kept[i] = u[i]
    BY <2>1, PrefixIs
  <2>3. Len(kept) \in Nat /\ Len(u) \in Nat
    OBVIOUS
  <2>4. Len(kept) <= Len(s) /\ \A i \in 1 .. Len(kept) : kept[i] = s[i]
    BY <1>7, <2>2, <2>3
  <2> QED BY <1>7, <2>4, PrefixIs
<1>10. PrintsIn(c) = KeyPrints(kept)
  <2>1. PrintsIn(c) = KeyPrints(c.split)
    BY ParsedAre
  <2> QED BY <1>1, <2>1 DEF KeyPrints
<1>11. PrintsIn(d) = PrintsIn(c) \cup new
  <2>1. PrintsIn(d) = KeyPrints(s)
    BY <1>7, <1>8, ParsedAre
  <2>2. ToSet(u) = ToSet(kept) \cup ToSet(t)
    BY <1>4, ToSetConcat
  <2>3. KeyLines(u) = KeyLines(kept) \cup KeyLines(t)
    BY <2>2 DEF KeyLines
  <2>4. KeyPrints(u) = KeyPrints(kept) \cup KeyPrints(t)
    BY <2>3 DEF KeyPrints
  <2>5. KeyPrints(t) = new
    BY <1>2, <1>3, TextsAreKeys DEF News
  <2> QED BY <1>7, <1>10, <2>1, <2>4, <2>5
<1>12. ASSUME NEW p \in new PROVE Often(d, p) = 1
  <2>1. p \in Prints(q) /\ p \notin KeyPrints(kept) /\ Distinct(q)
    BY <1>2, <1>10 DEF News
  <2>2. Once(Append(kept \o Texts(q), Blank), p)
    BY <2>1, OncePlaced
  <2>3. Once(s, p)
    BY <1>3, <1>4, <1>5, <2>2
  <2> QED BY <1>8, <2>3, OftenIs
<1> QED BY <1>1, <1>7, <1>8, <1>9, <1>11, <1>12 DEF Holds

(* AddAll is exact for every file and every paste, of any words and any number of
   lines: the file then has the keys of both, each new key once, its other lines
   and their order as they were, and a second time changes nothing. *)
THEOREM EveryAddIsExact ==
  ASSUME NEW W, Words(W), NEW c, c.split \in Seq(LineOf(W)), NEW lines \in Seq(LineOf(W))
  PROVE  AddsExactly(c, lines)
<1>1. PICK add \in Seq(KeyOf(W)) : add = parseKeyLines(lines)
  <2>1. PICK p : p = Content(lines, FALSE)
    OBVIOUS
  <2>2. p.split \in Seq(LineOf(W))
    BY <2>1 DEF Content
  <2>3. parseKeys(p) \in Seq(KeyOf(W))
    BY <2>2, ParsedAre
  <2> QED BY <2>1, <2>3 DEF parseKeyLines
<1>2. PICK r, new : r = AddAll(parseKeys(c), c, add) /\ new = Prints(add) \ PrintsIn(c)
  OBVIOUS
<1>3. PICK d : d = r.content
  OBVIOUS
<1>4. AddOutcome(W, c, r, new)
  BY <1>2, AddAllIs
<1>5. /\ new = {} => d = c /\ r.added = <<>>
      /\ new # {} => Holds(c, d, new) /\ d.split \in Seq(LineOf(W))
  <2>1. ASSUME new # {} PROVE Holds(c, d, new) /\ d.split \in Seq(LineOf(W))
    <3>1. Updated(W, c, d, new)
      BY <1>3, <1>4, <2>1 DEF AddOutcome
    <3>2. new \cap PrintsIn(c) = {}
      BY <1>2
    <3> QED BY <3>1, <3>2, UpdatedHolds
  <2> QED BY <1>3, <1>4, <2>1 DEF AddOutcome
<1>6. /\ new = {} => d = c
      /\ new # {} => ~d.crlf /\ IsPrefix(keptLines(c), d.split) /\ Last(d.split) = Blank
      /\ PrintsIn(d) = PrintsIn(c) \cup new
      /\ \A p \in new : Often(d, p) = 1
  BY <1>5 DEF Holds
<1>7. AddAll(parseKeys(d), d, add).added = <<>>
  <2>1. d.split \in Seq(LineOf(W))
    BY <1>5
  <2>2. Prints(add) \ PrintsIn(d) = {}
    BY <1>2, <1>6
  <2>3. AddOutcome(W, d, AddAll(parseKeys(d), d, add), {})
    <3>1. AddOutcome(W, d, AddAll(parseKeys(d), d, add), Prints(add) \ PrintsIn(d))
      BY <2>1, AddAllIs
    <3> QED BY <2>2, <3>1
  <2> QED BY <2>3 DEF AddOutcome
<1> QED BY <1>1, <1>2, <1>3, <1>6, <1>7 DEF AddsExactly

-----------------------------------------------------------------------------
(* Removing. *)

Others(q, p) == Only(q, {l \in ToSet(q) : ~(IsKey(l) /\ KeyPrint(l) = p)})

LEMMA OthersAre ==
  ASSUME NEW W, NEW q \in Seq(LineOf(W)), NEW p
  PROVE  /\ Others(q, p) \in Seq(LineOf(W)) /\ p \notin KeyPrints(Others(q, p))
         /\ p \notin KeyPrints(q) <=> Others(q, p) = q
<1>1. PICK S : S = {l \in ToSet(q) : ~(IsKey(l) /\ KeyPrint(l) = p)}
  OBVIOUS
<1>2. PICK o : o = Others(q, p) /\ o = Only(q, S)
  BY <1>1 DEF Others
<1>3. Only(q, S) \in Seq(LineOf(W)) /\ ToSet(Only(q, S)) = ToSet(q) \cap S
  <2>1. Only(q, S) \in Seq(LineOf(W))
    BY OnlyType
  <2>2. ToSet(Only(q, S)) = ToSet(q) \cap S
    BY OnlySet
  <2> QED BY <2>1, <2>2
<1>4. \A l : l \in ToSet(o) <=> l \in ToSet(q) /\ ~(IsKey(l) /\ KeyPrint(l) = p)
  BY <1>1, <1>2, <1>3
<1>5. p \notin KeyPrints(o)
  BY <1>4 DEF KeyPrints, KeyLines
<1>6. ASSUME p \notin KeyPrints(q) PROVE o = q
  <2>1. PICK Y : Y = ToSet(q)
    OBVIOUS
  <2>2. q \in Seq(Y)
    BY <2>1, ToSetIs
  <2>3. Y \subseteq S
    BY <1>1, <1>6, <2>1 DEF KeyPrints, KeyLines
  <2> QED BY <1>2, <2>2, <2>3, OnlyAll
<1>7. o = q => p \notin KeyPrints(q)
  BY <1>5
<1> QED BY <1>2, <1>3, <1>5, <1>6, <1>7

(* The lines that are not blank do not change when a blank line ends them. *)
LEMMA RenderKeeps ==
  ASSUME NEW W, Words(W), NEW q \in Seq(LineOf(W)), NEW d, d = render(q)
  PROVE  /\ keptLines(d) = keptLines(Content(q, FALSE)) /\ ~d.crlf
         /\ d.split \in Seq(LineOf(W)) /\ KeyPrints(d.split) = KeyPrints(q)
<1>1. PICK s : s = Append(q, Blank)
  OBVIOUS
<1>2. Ended(W, s, q)
  BY <1>1, BlankEnds
<1>3. d.split = s /\ ~d.crlf
  <2>1. CASE q = <<>>
    <3>1. s = <<Blank>>
      BY <1>1, <2>1
    <3>2. d = Empty
      BY <2>1 DEF render
    <3> QED BY <3>1, <3>2 DEF Empty, Content
  <2>2. CASE q # <<>>
    <3>1. d = Content(s, FALSE)
      BY <1>1, <2>2 DEF render
    <3> QED BY <3>1 DEF Content
  <2> QED BY <2>1, <2>2
<1> DEFINE Full == {l \in LineOf(W) : l.first # ""}
<1>4. ASSUME NEW u \in Seq(LineOf(W)), NEW c, c.split = u PROVE keptLines(c) = Only(u, Full)
  <2>1. PICK S, T : S = {l \in ToSet(u) : l.first # ""} /\ T = Full
    OBVIOUS
  <2>2. ToSet(u) \subseteq LineOf(W)
    BY ToSetIs
  <2>3. ToSet(u) \cap S = ToSet(u) \cap T
    BY <2>1, <2>2
  <2>4. Only(u, S) = Only(u, T)
    BY <2>3, OnlyWithin
  <2>5. keptLines(c) = Only(u, S)
    BY <1>4, <2>1 DEF keptLines
  <2> QED BY <2>1, <2>4, <2>5
<1>5. keptLines(d) = Only(s, Full)
  BY <1>2, <1>3, <1>4 DEF Ended
<1>6. keptLines(Content(q, FALSE)) = Only(q, Full)
  <2>1. Content(q, FALSE).split = q
    BY DEF Content
  <2> QED BY <1>4, <2>1
<1>7. Only(s, Full) = Only(q, Full)
  <2>1. PICK T : T = Full
    OBVIOUS
  <2>2. PICK x \in LineOf(W) : x = Blank
    BY DEF Words, LineOf, Blank, Line
  <2>3. x \notin T
    BY <2>1, <2>2, BlankIs
  <2>4. Only(Append(q, x), T) = Only(q, T) \o IfIn(x, T)
    BY OnlyAppend
  <2>5. IfIn(x, T) = <<>>
    BY <2>3 DEF IfIn
  <2>6. Only(q, T) \in Seq(LineOf(W))
    BY OnlyType
  <2>7. Only(q, T) \o <<>> = Only(q, T)
    BY <2>6, ConcatEmptySeq
  <2> QED BY <1>1, <2>1, <2>2, <2>4, <2>5, <2>7
<1> QED BY <1>2, <1>3, <1>5, <1>6, <1>7 DEF Ended

(* RemoveKeys is exact for every file and every fingerprint: every line with that
   key is gone, no other line is, and a file without it stays as it is. *)
THEOREM EveryRemoveIsExact ==
  ASSUME NEW W, Words(W), NEW c, c.split \in Seq(LineOf(W)), NEW p
  PROVE  RemovesExactly(c, p)
<1>1. PICK q \in Seq(LineOf(W)) : q = c.split
  OBVIOUS
<1>2. PICK o : o = Others(q, p)
  OBVIOUS
<1>3. PICK r : r = RemoveKeys(c, {p})
  OBVIOUS
<1>4. /\ o \in Seq(LineOf(W)) /\ p \notin KeyPrints(o)
      /\ p \notin KeyPrints(q) <=> o = q
  BY <1>2, OthersAre
<1>5. o = Only(c.split, {l \in ToSet(c.split) : ~(IsKey(l) /\ Fingerprint(ParseKey(l)) = p)})
  BY <1>1, <1>2 DEF Others, KeyPrint
<1>6. r = IF o = q THEN c ELSE render(o)
  <2>1. \A l : Fingerprint(ParseKey(l)) \in {p} <=> Fingerprint(ParseKey(l)) = p
    OBVIOUS
  <2>2. o = Only(c.split, {l \in ToSet(c.split) : ~(IsKey(l) /\ Fingerprint(ParseKey(l)) \in {p})})
    BY <1>5, <2>1
  <2> QED BY <1>1, <1>3, <2>2 DEF RemoveKeys
<1>7. PrintsIn(c) = KeyPrints(q)
  BY <1>1, ParsedAre
<1>8. p \notin PrintsIn(c) => r = c
  BY <1>4, <1>6, <1>7
<1>9. p \in PrintsIn(c) => keptLines(r) = keptLines(Content(o, FALSE)) /\ ~r.crlf
  BY <1>4, <1>6, <1>7, RenderKeeps
<1>10. r.split \in Seq(LineOf(W)) /\ p \notin KeyPrints(r.split)
  BY <1>1, <1>4, <1>6, RenderKeeps
<1>11. Often(r, p) = 0
  <2>1. PICK s \in Seq(LineOf(W)) : s = r.split
    BY <1>10
  <2>2. At(s, p) = {}
    BY <1>10, <2>1, NowhereAt
  <2> QED BY <2>1, <2>2, OftenIs
<1> QED BY <1>3, <1>5, <1>8, <1>9, <1>11 DEF RemovesExactly

LEMMA RightFileHolds == RightFile
<1> SUFFICES ASSUME NEW a \in Accounts
             PROVE  WhichFile(a) = SshdReads(a)
                      <=> \/ a.member = "no"
                          \/ a.member = "directly" /\ a.local /\ a.named /\ a.group = "Administrators"
  BY DEF RightFile
<1>1. a.member \in {"directly", "nested", "no"} /\ a.group \in {"Administrators", "Administratoren"}
  BY DEF Accounts
<1>2. ~isAdministratorsName(a, "Administratoren") /\ isAdministratorsName(a, "Administrators")
  <2>1. LookupAccountSid(a, administratorsSID) = ""
    BY AdministratorsSidDiffers DEF LookupAccountSid
  <2> QED BY <2>1 DEF isAdministratorsName
<1>3. inAdminsByGroupLookup(a)
        <=> a.local /\ a.member = "directly" /\ a.group = "Administrators"
  BY <1>1, <1>2 DEF inAdminsByGroupLookup, LocalGroups
<1>4. IsAdmin(a) <=> a.named /\ inAdminsByGroupLookup(a)
  BY TokenFindsNothing DEF IsAdmin
<1> QED BY <1>1, <1>3, <1>4 DEF WhichFile, SshdReads

(* The bounded lines are lines of certain words. *)
LEMMA SmallLines ==
  \E W : Words(W) /\ Lines \subseteq LineOf(W)
<1>1. PICK W : W = {"", "none", 0, "ed25519", "rsa", "#", "option", "whole", "cut", "short",
                   1, 2, "anna", "berta"}
  OBVIOUS
<1>2. /\ "" \in W /\ "none" \in W /\ 0 \in W /\ "ed25519" \in W /\ "rsa" \in W /\ "#" \in W
      /\ "option" \in W /\ "whole" \in W /\ "cut" \in W /\ "short" \in W /\ 1 \in W /\ 2 \in W
      /\ "anna" \in W /\ "berta" \in W
  BY <1>1
<1>3. ASSUME NEW f \in W, NEW s \in W, NEW p \in W, NEW n \in W PROVE Line(f, s, p, n) \in LineOf(W)
  BY DEF Line, LineOf
<1>4. Blank \in LineOf(W) /\ K1 \in LineOf(W) /\ K2 \in LineOf(W)
  BY <1>2, <1>3 DEF Blank, K1, K2
<1>5. K1Renamed \in LineOf(W)
  BY <1>2, <1>4 DEF K1Renamed, LineOf
<1>6. /\ Remark \in LineOf(W) /\ WithOption \in LineOf(W) /\ Truncated \in LineOf(W)
      /\ Short \in LineOf(W) /\ Mismatch \in LineOf(W)
  BY <1>2, <1>3 DEF Remark, WithOption, Truncated, Short, Mismatch
<1>7. Words(W)
  BY <1>2 DEF Words
<1> QED BY <1>4, <1>5, <1>6, <1>7 DEF Lines

LEMMA EditsExact == AddIsExact /\ RemoveIsExact
<1>1. PICK W : Words(W) /\ Lines \subseteq LineOf(W)
  BY SmallLines
<1>2. ASSUME NEW n \in Nat, NEW s \in [1 .. n -> Lines] PROVE s \in Seq(LineOf(W))
  BY <1>1
<1>3. ASSUME NEW c \in Contents PROVE c.split \in Seq(LineOf(W))
  <2>1. PICK s \in UNION {[1 .. n -> Lines] : n \in 1 .. 3}, crlf \in BOOLEAN : c = Content(s, crlf)
    BY DEF Contents
  <2>2. c.split = s
    BY <2>1 DEF Content
  <2>3. PICK n \in 1 .. 3 : s \in [1 .. n -> Lines]
    OBVIOUS
  <2> QED BY <1>2, <2>2, <2>3
<1>4. ASSUME NEW lines \in SmallPastes PROVE lines \in Seq(LineOf(W))
  <2>1. PICK n \in 1 .. 2 : lines \in [1 .. n -> Lines]
    BY DEF SmallPastes
  <2> QED BY <1>2, <2>1
<1>5. AddIsExact
  BY <1>1, <1>3, <1>4, EveryAddIsExact DEF AddIsExact
<1>6. RemoveIsExact
  BY <1>1, <1>3, EveryRemoveIsExact DEF RemoveIsExact
<1> QED BY <1>5, <1>6

-----------------------------------------------------------------------------
(* What the invariants say. *)

(* One answer is on its way while the panel is busy. *)
LEMMA OneComes ==
  ASSUME PanelInv, panel.busy
  PROVE  Coming(panel.generation) = 1
<1> DEFINE S == {s \in Slots : jobs[s].pc # "done" /\ jobs[s].generation = panel.generation}
           C == {i \in DOMAIN completions : completions[i].generation = panel.generation}
<1>1. S = {s \in Slots : Current(s)} /\ C = {i \in DOMAIN completions : Final(i)}
  BY DEF Current, Live, Final
<1>2. Coming(panel.generation) = Cardinality(S) + Cardinality(C)
  BY DEF Coming
<1> HIDE DEF S, C
<1>3. ASSUME NEW x PROVE Cardinality({x}) = 1 /\ Cardinality({}) = 0
  BY FS_Singleton, FS_EmptySet
<1>4. ASSUME NEW s \in Slots, Current(s) PROVE S = {s} /\ C = {}
  BY <1>1, <1>4 DEF PanelInv, Answers
<1>5. ASSUME NEW i \in DOMAIN completions, Final(i) PROVE S = {} /\ C = {i}
  BY <1>1, <1>5 DEF PanelInv, Answers
<1>6. (\E s \in Slots : Current(s)) \/ (\E i \in DOMAIN completions : Final(i))
  BY DEF PanelInv, Answers
<1>7. CASE \E s \in Slots : Current(s)
  <2>1. PICK s \in Slots : S = {s} /\ C = {}
    BY <1>4, <1>7
  <2>2. Cardinality(S) = 1 /\ Cardinality(C) = 0
    BY <1>3, <2>1
  <2> QED BY <1>2, <2>2
<1>8. CASE \E i \in DOMAIN completions : Final(i)
  <2>1. PICK i \in DOMAIN completions : S = {} /\ C = {i}
    BY <1>5, <1>8
  <2>2. Cardinality(S) = 0 /\ Cardinality(C) = 1
    BY <1>3, <2>1
  <2> QED BY <1>2, <2>2
<1> QED BY <1>6, <1>7, <1>8

(* The properties are what is left of the invariants when the jobs are ignored. *)
LEMMA InvariantsSay ==
  ASSUME PanelInv, WindowInv
  PROVE  TypeOK /\ SaidIsSo
<1>1. PanelTypeOK
  <2>1. \A s \in Slots : jobs[s].result \in Results
    BY DEF PanelInv, JobTyped, JobOK
  <2>2. panel.busy => Coming(panel.generation) = 1
    BY OneComes
  <2> QED BY <2>1, <2>2 DEF PanelTypeOK, PanelInv, Typed
<1>2. TypeOK
  <2>1. /\ rows \in Seq(Tween) /\ flash.left \in 0 .. 3
    BY DEF WindowInv
  <2> QED BY <1>1, <2>1 DEF TypeOK, WindowInv
<1>3. RawFollowsFile
  <2>1. WhichFile(account) \in {"own", "shared"}
    BY DEF WhichFile
  <2>2. panel.slip \in BOOLEAN /\ orphaned \in BOOLEAN
    BY DEF PanelInv, Typed
  <2>3. Own => panel.slip = FALSE /\ orphaned = FALSE
    BY DEF PanelInv, Alone
  <2>4. ~panel.busy /\ panel.slip = FALSE /\ orphaned = FALSE /\ panel.hint \in Works
          => panel.raw = file
    BY DEF PanelInv, Follows
  <2> QED BY <2>1, <2>2, <2>3, <2>4 DEF RawFollowsFile, Own, Works
<1>4. TightWhenDone
  BY DEF TightWhenDone, PanelInv, Tightened, Sound, Edits
<1> QED BY <1>2, <1>3, <1>4 DEF SaidIsSo

LEMMA Unchanged == PanelInv /\ UNCHANGED keysVars => PanelInv'
<1> SUFFICES ASSUME PanelInv, UNCHANGED keysVars PROVE PanelInv'
  OBVIOUS
<1>1. /\ jobs' = jobs /\ completions' = completions /\ file' = file /\ acl' = acl
      /\ panel' = panel /\ account' = account /\ alive' = alive
      /\ orphaned' = orphaned
      /\ (Own' <=> Own) /\ (Sound' <=> Sound)
  BY DEF keysVars, Own, Sound
<1>2. /\ \A t \in Slots : (Live(t)' <=> Live(t)) /\ (Current(t)' <=> Current(t))
      /\ \A i \in DOMAIN completions : Final(i)' <=> Final(i)
  BY <1>1 DEF Live, Current, Final
<1>3. Typed'
  BY <1>1, <1>2 DEF PanelInv, Typed, IsPanel, IsAccount, IsSeq
<1>4. JobTyped'
  BY <1>1 DEF PanelInv, JobTyped
<1>5. Answers'
  BY <1>1, <1>2 DEF PanelInv, Answers
<1>6. Alone' /\ Follows'
  BY <1>1, <1>2 DEF PanelInv, Alone, Follows
<1>7. Tightened'
  BY <1>1, <1>2 DEF PanelInv, Tightened
<1> QED BY <1>3, <1>4, <1>5, <1>6, <1>7 DEF PanelInv

LEMMA WindowUnchanged == WindowInv /\ UNCHANGED windowVars => WindowInv'
BY DEF WindowInv, windowVars, Active

(* Both invariants, together: the two parts share no state. *)
THEOREM DesktopInvariant == DesktopSpec => [](PanelInv /\ WindowInv)
<1>1. DesktopInit => PanelInv /\ WindowInv
  BY PanelInit, WindowStart DEF DesktopInit
<1>2. PanelInv /\ WindowInv /\ [DesktopNext]_desktopVars => (PanelInv /\ WindowInv)'
  <2> SUFFICES ASSUME PanelInv, WindowInv, [DesktopNext]_desktopVars
               PROVE  PanelInv' /\ WindowInv'
    OBVIOUS
  <2>1. CASE PanelStep
    BY <2>1, PanelStepKeeps, WindowUnchanged DEF PanelStep
  <2>2. CASE WindowStep
    BY <2>2, WindowStepKeeps, Unchanged DEF WindowStep
  <2>3. CASE UNCHANGED desktopVars
    BY <2>3, Unchanged, WindowUnchanged DEF desktopVars
  <2> QED BY <2>1, <2>2, <2>3 DEF DesktopNext
<1> QED BY <1>1, <1>2, PTL DEF DesktopSpec

(* TypeOK, for every account, file, paste, machine and bound. *)
THEOREM TypeCorrect == DesktopSpec => []TypeOK
<1>1. PanelInv /\ WindowInv => TypeOK
  BY InvariantsSay
<1> QED BY <1>1, DesktopInvariant, PTL

(* What the panel says of a job that worked is so.  After a load or a change that
   worked its copy is the file: for an account's own file always, for the shared
   one unless its helper's copy or type failed or was not through when the result
   file was read, or the helper of a program that has ended copied after all.  And
   a change it reports as done has left the file tight, without exception. *)
THEOREM SaidIsSoHolds == DesktopSpec => []SaidIsSo
<1>1. PanelInv /\ WindowInv => SaidIsSo
  BY InvariantsSay
<1> QED BY <1>1, DesktopInvariant, PTL

(* EditsAreExact: the edits of the key file, and for which accounts the file is
   the one sshd reads: those that are no administrators, and of the administrators
   only the machine's own accounts, named by the environment and in the group by
   themselves, where the group has its English name. *)
THEOREM EditsAreExactHolds == DesktopSpec => []EditsAreExact
<1>1. EditsAreExact
  BY EditsExact, RightFileHolds DEF EditsAreExact
<1> QED BY <1>1, PTL
=============================================================================
