-------------------------------- MODULE Keys --------------------------------
(***************************************************************************)
(* The SSH key panel of sercon-gui: the window's thread, which owns the    *)
(* panel's state, the goroutines that read and write the key file, the     *)
(* helper that does it with administrator rights, and the file itself.     *)
(*                                                                         *)
(* A job (goroutine) in slot s and its helper are one record; at most as   *)
(* many as there are slots exist at a time.  Showing, hiding and laying out *)
(* the window, and the texts but for their kind, are left out.             *)
(***************************************************************************)
EXTENDS AuthKeys, KeyFile

CONSTANTS
  FirstFiles,   (* what the key file may hold when the program first starts *)
  Pastes,       (* what the user may put into the input box *)
  Slots,        (* goroutines, with their helpers, that may exist at a time *)
  MaxJobs,      (* bound: jobs started *)
  MaxStarts     (* bound: starts of the program *)

VARIABLES
  account,      (* whose desktop this is, and how the program was started *)
  file, acl,    (* the key file, and who can reach it *)
  starts,       (* times the program was started *)
  alive,        (* it runs *)
  panel,        (* keyPanel: what the window's thread owns *)
  jobs,         (* goroutines and helpers *)
  started,      (* jobs started so far *)
  completions,  (* kp.completions, which never fills: it has room for eight *)
  orphaned      (* a helper of an earlier run of the program has copied during this one *)

keysVars == <<account, file, acl, starts, alive, panel, jobs, started, completions, orphaned>>

(* asking is the key a "Remove this key?" box is open for, if there is one.  *)
(* slip, which the program does not see: what its last answer says of the   *)
(* file comes from a helper that did not do what was asked (below).         *)
NoPanel == [open |-> FALSE, raw |-> Empty, input |-> <<>>, generation |-> 0,
            busy |-> FALSE, hint |-> "none", asking |-> {}, slip |-> FALSE]

(* tmp: the temporary directory, with the script and what to copy; text, exit: *)
(* the result file there, and the exit code the script's last line put into it. *)
NoJob == [kind |-> "none", generation |-> 0, pc |-> "done", elevate |-> FALSE,
          raw |-> Empty, result |-> "none", had |-> {},
          helper |-> "none", tmp |-> FALSE, text |-> NoFile, exit |-> "none", slip |-> FALSE]

(* The process may read the file: its ACL names only SYSTEM and             *)
(* Administrators once it is tight.                                         *)
Readable == acl = "open" \/ account.elevated

(* Writing next to the shared file takes an elevated process.               *)
NeedsElevation == WhichFile(account) = "shared" /\ ~account.elevated

Init ==
  /\ account \in Accounts /\ account.local /\ account.named /\ account.group = "Administrators"
  /\ (account.member = "no" => ~account.elevated)
  /\ file \in FirstFiles /\ acl = "open"
  /\ starts = 1 /\ alive = TRUE /\ panel = NoPanel
  /\ jobs = [s \in Slots |-> NoJob] /\ started = 0 /\ completions = <<>>
  /\ orphaned = FALSE

----------------------------------------------------------------------------
(* The window's thread.                                                     *)

(* [fault] Every job has the same generation. *)
SameGeneration(p) == p.generation

(* keyJobState.begin, accepts.                                              *)
NextGeneration(p) == p.generation + 1
begin(p) == [p EXCEPT !.busy = TRUE, !.generation = NextGeneration(p), !.hint = "waiting",
                      !.slip = FALSE]

(* [fault] Whichever answer comes first is taken for that of the current job. *)
AnyAnswer(p, generation) == p.busy

accepts(p, generation) == p.busy /\ generation = p.generation

(* The goroutine of a new generation; the bounds and a free slot.           *)
Go(p, job) ==
  /\ started < MaxJobs /\ started' = started + 1
  /\ \E s \in Slots : jobs[s] = NoJob
  /\ LET s == CHOOSE t \in Slots : jobs[t] = NoJob
     IN jobs' = [jobs EXCEPT ![s] = [job EXCEPT !.generation = begin(p).generation,
                                                !.had = PrintsIn(file)]]

StartReload(p, mayElevate) ==
  IF p.busy THEN panel' = p /\ UNCHANGED <<jobs, started>>
  ELSE /\ panel' = begin(p)
       /\ Go(p, [NoJob EXCEPT !.kind = "load", !.pc = "read", !.elevate = mayElevate])

Elsewhere == UNCHANGED <<account, file, acl, starts, alive, orphaned>>

(* A box owned by the panel disables it, the main window stays as it was.   *)
Enabled == alive /\ panel.open /\ panel.asking = {}

(* openKeyPanel, from the main window: creates the panel or shows it again, *)
(* with a reload that does not ask for elevation.                          *)
openKeyPanel ==
  /\ alive
  /\ StartReload([panel EXCEPT !.open = TRUE], FALSE)
  /\ Elsewhere /\ UNCHANGED completions

Type ==
  /\ Enabled
  /\ \E lines \in Pastes : lines # panel.input /\ panel' = [panel EXCEPT !.input = lines]
  /\ Elsewhere /\ UNCHANGED <<jobs, started, completions>>

(* keyPanelCommand.                                                         *)
Reload ==
  /\ Enabled /\ ~panel.busy
  /\ StartReload(panel, TRUE)
  /\ Elsewhere /\ UNCHANGED completions

(* A change: nothing to do, or the new content to be written.               *)
Change(kind, new) ==
  IF new = panel.raw THEN [NoJob EXCEPT !.kind = kind, !.pc = "send", !.raw = new,
                                        !.result = "unchanged"]
  ELSE [NoJob EXCEPT !.kind = kind, !.pc = IF NeedsElevation THEN "prompt" ELSE "temp",
                     !.raw = new]

Add ==
  /\ Enabled /\ ~panel.busy
  /\ LET keys == parseKeyLines(panel.input)
     IN /\ keys # <<>>
        /\ panel' = begin(panel)
        /\ Go(panel, Change("add", AddAll(parseKeys(panel.raw), panel.raw, keys).content))
  /\ Elsewhere /\ UNCHANGED completions

(* keyPanelStartRemove: the box, and the answer.  The box runs its own      *)
(* message loop, in which answers arrive and the main window can reload; the *)
(* content is the one the panel has when the box is answered.               *)
AskRemove ==
  /\ Enabled /\ ~panel.busy
  /\ \E k \in PrintsIn(panel.raw) : panel' = [panel EXCEPT !.asking = {k}]
  /\ Elsewhere /\ UNCHANGED <<jobs, started, completions>>

AnswerNo ==
  /\ alive /\ panel.asking # {}
  /\ panel' = [panel EXCEPT !.asking = {}]
  /\ Elsewhere /\ UNCHANGED <<jobs, started, completions>>

AnswerYes ==
  /\ alive /\ panel.asking # {}
  /\ panel' = [begin(panel) EXCEPT !.asking = {}]
  /\ Go(panel, Change("remove", RemoveKeys(panel.raw, panel.asking)))
  /\ Elsewhere /\ UNCHANGED completions

(* keyPanelDrainCompletions, one answer at a time: an error's box lets the  *)
(* thread go on between two.  A list of keys is shown with what comes of it. *)
Apply(p, c) ==
  IF ~accepts(p, c.generation) THEN p
  ELSE IF c.result = "error" THEN [p EXCEPT !.busy = FALSE, !.hint = "error"]
  ELSE [p EXCEPT !.busy = FALSE, !.raw = c.raw, !.hint = c.result, !.slip = c.slip,
                 !.input = IF c.result = "installed" THEN <<>> ELSE @]

Drain ==
  /\ alive /\ completions # <<>>
  /\ panel' = Apply(panel, Head(completions))
  /\ completions' = Tail(completions)
  /\ Elsewhere /\ UNCHANGED <<jobs, started>>

UIStep == openKeyPanel \/ Type \/ Reload \/ Add \/ AskRemove \/ AnswerNo \/ AnswerYes \/ Drain

----------------------------------------------------------------------------
(* A goroutine.                                                             *)

(* Its slot is free when the helper is gone too.                            *)
Set(s, job) ==
  jobs' = [jobs EXCEPT ![s] =
             IF job.pc = "done" /\ job.helper = "none" THEN NoJob ELSE job]

Still == UNCHANGED <<account, starts, alive, panel, started>>
Quiet == Still /\ UNCHANGED orphaned

(* The result, and the deferred os.RemoveAll of the temporary directory.    *)
Result(job, result) == [job EXCEPT !.pc = "send", !.result = result, !.tmp = FALSE]
Error(job)   == Result(job, "error")
Written(job) == Result(job, IF job.kind = "add" THEN "installed" ELSE "removed")

(* loadKeyCompletion, with the ordinary read.                               *)
Load(s) ==
  LET j == jobs[s] IN
  /\ j.pc = "read"
  /\ Set(s, IF file # NoFile /\ Readable THEN Result([j EXCEPT !.raw = file], "loaded")
            ELSE IF NeedsElevation /\ ~j.elevate THEN Result(j, "ask")
            ELSE IF NeedsElevation /\ file # NoFile THEN [j EXCEPT !.pc = "prompt"]
            ELSE Error(j))
  /\ UNCHANGED <<file, acl, completions>> /\ Quiet

(* atomicWrite: a temporary file next to it, the old one removed, the new   *)
(* one renamed; a failure leaves it at that, and the temporary file goes.   *)
Temp(s) ==
  /\ jobs[s].pc = "temp"
  /\ \/ Set(s, [jobs[s] EXCEPT !.pc = "unlink"])
     \/ Set(s, Error(jobs[s]))
  /\ UNCHANGED <<file, acl, completions>> /\ Quiet

Unlink(s) ==
  /\ jobs[s].pc = "unlink"
  /\ \/ file' = NoFile /\ Set(s, [jobs[s] EXCEPT !.pc = "rename"])
     \/ UNCHANGED file /\ Set(s, Error(jobs[s]))
  /\ UNCHANGED <<acl, completions>> /\ Quiet

Rename(s) ==
  /\ jobs[s].pc = "rename"
  /\ \/ file' = jobs[s].raw /\ acl' = "open" /\ Set(s, [jobs[s] EXCEPT !.pc = "tighten"])
     \/ UNCHANGED <<file, acl>> /\ Set(s, Error(jobs[s]))
  /\ UNCHANGED completions /\ Quiet

(* TightenACL.                                                              *)
Tighten(s) ==
  /\ jobs[s].pc = "tighten"
  /\ \/ file # NoFile /\ acl' = "tight" /\ Set(s, Written(jobs[s]))
     \/ UNCHANGED acl /\ Set(s, Error(jobs[s]))
  /\ UNCHANGED <<file, completions>> /\ Quiet

(* runElevatedScript: the prompt is confirmed, and the helper starts, or not. *)
Prompt(s) ==
  /\ jobs[s].pc = "prompt"
  /\ \/ Set(s, [jobs[s] EXCEPT !.pc = "wait", !.tmp = TRUE, !.helper = "start"])
     \/ Set(s, Error(jobs[s]))
  /\ UNCHANGED <<file, acl, completions>> /\ Quiet

(* [fault] Nothing ends the wait but the file. *)
NeverGivesUp(s) == FALSE

(* elevatedTimeout, while the result file is not there.                     *)
GivesUp(s) == jobs[s].text = NoFile

(* waitForFile: the file is there, whatever is in it yet.                   *)
Wait(s) ==
  /\ jobs[s].pc = "wait"
  /\ \/ jobs[s].text # NoFile /\ Set(s, [jobs[s] EXCEPT !.pc = "report"])
     \/ GivesUp(s) /\ Set(s, Error(jobs[s]))
  /\ UNCHANGED <<file, acl, completions>> /\ Quiet

SaysDone(job) == job.exit = "0"

(* type has put the whole file into the result file.                        *)
TypedAll(job) == job.exit \in {"is 0", "0"}

(* ReadElevated and RunElevated: what the result file says now.  The slip   *)
(* of a load: type is not through, or was stopped, or found no file.        *)
Report(s) ==
  LET j == jobs[s] IN
  /\ j.pc = "report"
  /\ Set(s, IF j.kind = "load" THEN Result([j EXCEPT !.raw = j.text, !.slip = ~TypedAll(j)], "loaded")
            ELSE IF SaysDone(j) THEN Written(j) ELSE Error(j))
  /\ UNCHANGED <<file, acl, completions>> /\ Quiet

Send(s) ==
  /\ jobs[s].pc = "send"
  /\ completions' = Append(completions,
       [generation |-> jobs[s].generation, raw |-> jobs[s].raw, result |-> jobs[s].result,
        slip |-> jobs[s].slip])
  /\ Set(s, [jobs[s] EXCEPT !.pc = "done"])
  /\ UNCHANGED <<file, acl>> /\ Quiet

Worker(s) == Load(s) \/ Temp(s) \/ Unlink(s) \/ Rename(s) \/ Tighten(s)
             \/ Prompt(s) \/ Wait(s) \/ Report(s) \/ Send(s)

----------------------------------------------------------------------------
(* The elevated helper runs the script line by line, as long as the script  *)
(* is there; the redirection makes the result file before the command runs. *)

(* A next line, if it can still be read.                                    *)
NextLine(job, line) == [job EXCEPT !.helper = IF job.tmp THEN line ELSE "none"]

HelperOpens(s) ==
  LET j == jobs[s] IN
  /\ j.helper = "start"
  /\ Set(s, IF j.tmp THEN [j EXCEPT !.helper = "command", !.text = Empty]
            ELSE [j EXCEPT !.helper = "none"])
  /\ UNCHANGED <<file, acl, completions>> /\ Quiet

(* type, with its complaint where the file should be, and its exit code.    *)
HelperTypes(s) ==
  LET j == jobs[s] IN
  /\ j.helper = "command" /\ j.kind = "load"
  /\ Set(s, NextLine(IF file = NoFile
                       THEN [j EXCEPT !.text = Content(<<Remark>>, TRUE), !.exit = "is 1"]
                       ELSE [j EXCEPT !.text = file, !.exit = "is 0"], "mark"))
  /\ UNCHANGED <<file, acl, completions>> /\ Quiet

(* copy, which leaves an existing file its ACL, and may fail: that is the   *)
(* slip of a change.  Its goroutine is gone if the program ended meanwhile. *)
HelperCopies(s) ==
  LET j == jobs[s] IN
  /\ j.helper = "command" /\ j.kind # "load"
  /\ \/ /\ j.tmp /\ file' = j.raw /\ acl' = IF file = NoFile THEN "open" ELSE acl
        /\ orphaned' = (orphaned \/ (alive /\ j.pc = "done"))
        /\ Set(s, NextLine(j, "icacls"))
     \/ /\ UNCHANGED <<file, acl, orphaned>>
        /\ Set(s, NextLine([j EXCEPT !.slip = TRUE], "icacls"))
  /\ UNCHANGED completions /\ Still

HelperTightens(s) ==
  LET j == jobs[s] IN
  /\ j.helper = "icacls"
  /\ \/ file # NoFile /\ acl' = "tight" /\ Set(s, NextLine([j EXCEPT !.exit = "is 0"], "mark"))
     \/ UNCHANGED acl /\ Set(s, NextLine([j EXCEPT !.exit = "is 1"], "mark"))
  /\ UNCHANGED <<file, completions>> /\ Quiet

(* echo EXIT=%ERRORLEVEL%, that of the command before.                      *)
HelperMarks(s) ==
  LET j == jobs[s] IN
  /\ j.helper = "mark"
  /\ Set(s, [j EXCEPT !.helper = "none", !.exit = IF @ = "is 0" THEN "0" ELSE "1"])
  /\ UNCHANGED <<file, acl, completions>> /\ Quiet

(* Its console window may be closed at any time.                            *)
HelperStops(s) ==
  /\ jobs[s].helper # "none"
  /\ Set(s, [jobs[s] EXCEPT !.helper = "none"])
  /\ UNCHANGED <<file, acl, completions>> /\ Quiet

HelperStep(s) == HelperOpens(s) \/ HelperTypes(s) \/ HelperCopies(s)
                 \/ HelperTightens(s) \/ HelperMarks(s) \/ HelperStops(s)

----------------------------------------------------------------------------
(* The program ends, by its own or not: the goroutines with it, wherever    *)
(* they are, but not the helpers, and nothing tidies up.                    *)
Exit ==
  /\ alive /\ alive' = FALSE
  /\ panel' = NoPanel /\ completions' = <<>> /\ orphaned' = FALSE
  /\ jobs' = [s \in Slots |-> IF jobs[s].helper = "none" THEN NoJob
                              ELSE [jobs[s] EXCEPT !.pc = "done"]]
  /\ UNCHANGED <<account, file, acl, starts, started>>

(* It is started again, by an administrator perhaps elevated.               *)
Start ==
  /\ ~alive /\ starts < MaxStarts
  /\ alive' = TRUE /\ starts' = starts + 1
  /\ \E e \in BOOLEAN : (e => account.member # "no") /\ account' = [account EXCEPT !.elevated = e]
  /\ UNCHANGED <<file, acl, panel, jobs, started, completions, orphaned>>

Next == UIStep \/ (\E s \in Slots : Worker(s) \/ HelperStep(s)) \/ Exit \/ Start

Spec == Init /\ [][Next]_keysVars
----------------------------------------------------------------------------
Results == {"none", "loaded", "ask", "installed", "removed", "unchanged", "error"}

(* Whose answer the panel waits for.                                        *)
Coming(generation) ==
  Cardinality({s \in Slots : jobs[s].pc # "done" /\ jobs[s].generation = generation})
  + Cardinality({i \in DOMAIN completions : completions[i].generation = generation})

(* While the panel is busy exactly one answer of its generation is on its   *)
(* way, so that it is never left waiting and never takes two.               *)
PanelTypeOK ==
  /\ panel.hint \in Results \cup {"waiting"} /\ acl \in {"open", "tight"}
  /\ \A s \in Slots : jobs[s].result \in Results
  /\ ~alive => panel = NoPanel /\ completions = <<>>
  /\ alive /\ panel.busy => Coming(panel.generation) = 1

(* After a load or a change that worked, the panel's copy, from which the    *)
(* next change is made, is the file: an answer of an earlier job is never    *)
(* taken, and no later one is overtaken.  For an account's own file that is  *)
(* always so.  For the shared one, written and read by an elevated helper,   *)
(* it is not so where the helper slipped, and the panel does not see it:     *)
(* copy failed and icacls, whose exit code alone is looked at, did not; the  *)
(* result file of a load was read before type had filled it, or type failed; *)
(* or the helper of a program that has ended copies after all.               *)
RawFollowsFile ==
  ~panel.busy /\ panel.hint \in {"loaded", "installed", "removed"} =>
    panel.raw = file \/ (WhichFile(account) = "shared" /\ (panel.slip \/ orphaned))

(* A change the panel reports as done has left the file with the only ACL   *)
(* with which sshd reads it.                                                *)
TightWhenDone ==
  ~panel.busy /\ panel.hint \in {"installed", "removed"} => file # NoFile /\ acl = "tight"

(* What the panel says of a job that worked is so, but for the slips of an   *)
(* elevated helper that RawFollowsFile names.                               *)
SaidIsSo == RawFollowsFile /\ TightWhenDone

(* Before the first job: which file it is, and what an edit does to it.     *)
EditsAreExact == started = 0 => AddIsExact /\ RemoveIsExact /\ RightFile

(* Every job ends, the panel takes commands again.                          *)
JobsEnd == panel.busy ~> ~panel.busy

(* "AddAll appends keys that are not already present": a key that was in    *)
(* the file when Add was pressed is in the file Add writes.                 *)
AddKeepsTheRest ==
  [][\A s \in Slots :
       jobs[s].kind = "add" /\ jobs'[s] # jobs[s] /\ file' # file /\ file' # NoFile
         => jobs[s].had \subseteq PrintsIn(file')]_keysVars
=============================================================================
