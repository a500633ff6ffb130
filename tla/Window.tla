------------------------------- MODULE Window -------------------------------
(***************************************************************************)
(* The main window of sercon-gui: the thread that owns it, from the        *)
(* program's start to its end, the two timers that drive it, the message   *)
(* boxes that run loops of their own inside its handlers, and the          *)
(* goroutine that turns a client's "stop" into a closing window.           *)
(*                                                                         *)
(* Of what is drawn only that is kept which moves: a counter per number of *)
(* the port table, a row per port and one highlight.  Ports are never      *)
(* dropped by the manager, so rows only come.                              *)
(***************************************************************************)
EXTENDS Naturals, Sequences

CONSTANTS
  MaxPorts,     (* ports the machine ever has *)
  MaxChanges,   (* bound: changes of the port table *)
  MaxClicks,    (* bound: buttons pressed, pointer moved, window minimised *)
  MaxBoxes      (* bound: message boxes open at a time *)

ASSUME WindowAssumption == {MaxPorts, MaxChanges, MaxClicks, MaxBoxes} \subseteq Nat

VARIABLES
  life,      (* where main, runGUI and the teardown are *)
  table,     (* what manager.Ports() says: known ports, sessions attached *)
  changes, clicks,   (* for the bounds *)
  shown,     (* guiState.ports *)
  rows,      (* rowsState: the fade of each row *)
  counters,  (* the animated values: PORTS and WRITABLE *)
  hover,     (* the highlight under the pointer *)
  clock,     (* animator.running: the animation timer is installed *)
  dirty,     (* the window has an invalid region *)
  hidden, everHidden, (* minimised; has been *)
  flash,     (* the transient message: shown, refreshes until it expires *)
  selected,  (* guiState.selected *)
  boxes,     (* open message boxes, the innermost last, with what was clicked *)
  asked,     (* a client asked for shutdown *)
  remoteStop,(* guiState.remoteStop *)
  posted     (* a WM_CLOSE is in the queue *)

drawn == <<shown, rows, counters, hover, clock, dirty, flash, selected>>
outside == <<table, changes, asked>>
closing == <<boxes, remoteStop, posted>>
screen == <<hidden, everHidden>>
windowVars == <<life, table, changes, clicks, shown, rows, counters, hover, clock,
                dirty, hidden, everHidden, flash, selected, boxes, asked,
                remoteStop, posted>>

Numbers == {"ports", "held"}
----------------------------------------------------------------------------
(* A tween: where it goes, the value last drawn and the frames it has left. *)

Between == 99
Settled(v) == [to |-> v, value |-> v, left |-> 0]
Active(t)  == t.left > 0

setTarget(t, v, d) ==
  IF t.to = v /\ Active(t) THEN t
  ELSE IF t.value = v THEN Settled(v)
  ELSE [t EXCEPT !.to = v, !.left = d]

(* d frames later; a late frame is worth several.                           *)
Step(t, d) ==
  IF ~Active(t) THEN t
  ELSE IF t.left <= d THEN Settled(t.to)
  ELSE [t EXCEPT !.value = Between, !.left = @ - d]

HoverFrames == 1
RowFrames   == 2
RollFrames  == 3

Moving == \/ Active(hover) \/ \E i \in DOMAIN rows : Active(rows[i])
          \/ \E n \in Numbers : Active(counters[n])
----------------------------------------------------------------------------
WindowInit ==
  /\ life = "config" /\ table \in [ports : 0 .. MaxPorts, held : {0}]
  /\ changes = 0 /\ clicks = 0
  /\ shown = [ports |-> 0, held |-> 0] /\ rows = <<>>
  /\ counters = [n \in Numbers |-> Settled(0)] /\ hover = Settled(0)
  /\ clock = FALSE /\ dirty = FALSE /\ hidden = FALSE /\ everHidden = FALSE
  /\ flash = [on |-> FALSE, left |-> 0] /\ selected = FALSE
  /\ boxes = <<>> /\ asked = FALSE /\ remoteStop = FALSE /\ posted = FALSE

(* The daemon the window stands on: a port appears, a session comes or goes. *)
Serving == life \in {"create", "open"}

TableChanges ==
  /\ Serving /\ changes < MaxChanges
  /\ changes' = changes + 1
  /\ \/ table.ports < MaxPorts /\ table' = [table EXCEPT !.ports = @ + 1]
     \/ table' = [table EXCEPT !.held = 1 - @]
  /\ UNCHANGED <<life, clicks, drawn, screen, closing, asked>>

ClientStops ==
  /\ Serving /\ ~asked
  /\ asked' = TRUE
  /\ UNCHANGED <<life, clicks, table, changes, drawn, screen, closing>>
----------------------------------------------------------------------------
(* becomeDaemon, then the window.  Configuration, audit and log directory,  *)
(* socket and workers can each fail: a box says why, and the program ends.  *)

Startup(from, to) ==
  /\ life = from
  /\ life' \in {to, "failed"}
  /\ UNCHANGED <<clicks, outside, drawn, screen, closing>>

ErrorBox ==
  /\ life = "failed" /\ life' = "ended"
  /\ UNCHANGED <<clicks, outside, drawn, screen, closing>>

(* syncRows: rows of known ports stay, those of new ones fade in.           *)
syncRows(r, n) ==
  [i \in 1 .. n |-> IF i \in DOMAIN r THEN r[i]
                    ELSE setTarget(Settled(0), 1, RowFrames)]

(* [fault] Only a change starts the clock. *)
OnChange(changed) == changed

(* The clock is started when something changed, or to take a message away.  *)
Wakes(changed) == changed \/ flash.on

(* refresh, and what it comes to when something else sets the message.      *)
Refresh(changed) ==
  /\ shown' = table
  /\ rows' = syncRows(rows, table.ports)
  /\ clock' = (clock \/ Wakes(changed))
  /\ dirty' = (dirty \/ Wakes(changed))

Changed == shown # table \/ Len(rows) # table.ports

(* onCreate: the first refresh always changes the footer.                   *)
Create ==
  /\ life = "create"
  /\ \/ /\ life' = "open"
        /\ Refresh(TRUE)
        /\ UNCHANGED <<counters, hover, flash, selected>>
     \/ life' = "failed" /\ UNCHANGED drawn
  /\ UNCHANGED <<clicks, outside, screen, closing>>
----------------------------------------------------------------------------
(* Messages of the open window.  A timer's message is made only when nothing *)
(* else, a repaint included, is waiting.                                    *)

Idle == life = "open" /\ ~posted /\ (dirty => hidden)
Same == UNCHANGED <<life, outside, closing>>

(* The second is longer than any transition, so frames end in between.      *)
RefreshTimer ==
  /\ Idle /\ ~clock
  /\ Changed \/ flash.on
  /\ Refresh(Changed)
  /\ flash' = [flash EXCEPT !.left = IF @ > 0 THEN @ - 1 ELSE 0]
  /\ UNCHANGED <<counters, hover, selected, clicks, screen>> /\ Same

(* The timer stays as long as something moves.                              *)
Goes(moving) == moving

AnimTimer ==
  /\ Idle /\ clock
  /\ \E d \in {1, RollFrames} :
       /\ hover' = Step(hover, d)
       /\ rows' = [i \in DOMAIN rows |-> Step(rows[i], d)]
       /\ counters' = [n \in Numbers |-> Step(counters[n], d)]
  /\ dirty' = TRUE
  /\ clock' = Goes(Moving')
  /\ UNCHANGED <<shown, flash, selected, clicks, screen>> /\ Same

(* counterValue: a roll under way is finished before the next begins.       *)
counterValue(t, v) ==
  IF ~Active(t) /\ t.to # v THEN setTarget(t, v, RollFrames) ELSE t

(* onPaint: an iconic window is not painted.                                *)
Paint ==
  /\ life = "open" /\ dirty /\ ~hidden
  /\ dirty' = FALSE
  /\ counters' = [n \in Numbers |-> counterValue(counters[n], shown[n])]
  /\ flash' = IF flash.left = 0 THEN [flash EXCEPT !.on = FALSE] ELSE flash
  /\ UNCHANGED <<shown, rows, hover, clock, selected, clicks, screen>> /\ Same

Click == life = "open" /\ ~hidden /\ clicks < MaxClicks /\ clicks' = clicks + 1

(* pointerMoved.                                                            *)
Pointer ==
  /\ Click
  /\ hover' = setTarget(hover, 1 - hover.to, HoverFrames)
  /\ clock' = TRUE
  /\ UNCHANGED <<shown, rows, counters, dirty, flash, selected, screen>> /\ Same

SelectRow ==
  /\ Click /\ rows # <<>>
  /\ selected' = TRUE /\ dirty' = TRUE
  /\ UNCHANGED <<shown, rows, counters, hover, clock, flash, screen>> /\ Same

(* A message stays for 4 s, 6 s or 8 s.                                     *)
Flash == flash' = [on |-> TRUE, left |-> 3]

RefreshButton ==
  /\ Click
  /\ shown' = table
  /\ rows' = syncRows(rows, table.ports)
  /\ clock' = (clock \/ Wakes(Changed))
  /\ dirty' = TRUE
  /\ Flash
  /\ UNCHANGED <<counters, hover, selected, screen>> /\ Same

(* copyAttachCommand without a selection, and every command that fails, open *)
(* a box; its loop goes on with the window's messages.                      *)
Command ==
  /\ Click
  /\ \/ selected /\ Flash /\ dirty' = TRUE /\ UNCHANGED boxes
     \/ /\ Len(boxes) < MaxBoxes
        /\ boxes' = Append(boxes, [kind |-> "note", clicked |-> "nothing"])
        /\ UNCHANGED <<flash, dirty>>
  /\ UNCHANGED <<life, outside, remoteStop, posted, shown, rows, counters, hover,
                 clock, selected, screen>>

Minimise ==
  /\ Click
  /\ hidden' = TRUE /\ everHidden' = TRUE
  /\ UNCHANGED drawn /\ Same

(* onSize.                                                                  *)
Restore ==
  /\ life = "open" /\ hidden
  /\ hidden' = FALSE /\ dirty' = TRUE
  /\ UNCHANGED <<everHidden, shown, rows, counters, hover, clock, flash, selected,
                 clicks>> /\ Same
----------------------------------------------------------------------------
(* The end.                                                                 *)

(* WM_CLOSE closes without a question for a client's request.               *)
MayClose == remoteStop

(* DestroyWindow: timers, surfaces and fonts go, then shutdown begins.      *)
Destroy ==
  /\ life' = "listener" /\ clock' = FALSE /\ dirty' = FALSE
  /\ UNCHANGED <<shown, rows, counters, hover, flash, selected>>

(* The goroutine of runGUI.                                                 *)
Watcher ==
  /\ life = "open" /\ asked /\ ~remoteStop
  /\ remoteStop' = TRUE /\ posted' = TRUE
  /\ UNCHANGED <<life, clicks, outside, drawn, screen, boxes>>

(* WM_CLOSE, from the queue or from a click; confirmExit.                   *)
CloseMessage ==
  /\ life = "open"
  /\ posted \/ clicks < MaxClicks
  /\ posted' = FALSE /\ clicks' = IF posted THEN clicks ELSE clicks + 1
  /\ IF MayClose \/ table.held = 0
       THEN Destroy /\ UNCHANGED boxes
       ELSE /\ IF Len(boxes) < MaxBoxes
                 THEN boxes' = Append(boxes, [kind |-> "close", clicked |-> "nothing"])
                 ELSE UNCHANGED boxes
            /\ UNCHANGED <<life, drawn>>
  /\ UNCHANGED <<outside, remoteStop, screen>>

(* Any of the boxes may be clicked; its call returns when those opened in   *)
(* its loop have.                                                           *)
Answer ==
  /\ life = "open" /\ clicks < MaxClicks /\ clicks' = clicks + 1
  /\ \E i \in DOMAIN boxes, a \in {"yes", "no"} :
       /\ boxes[i].clicked = "nothing"
       /\ boxes' = [boxes EXCEPT ![i].clicked = a]
  /\ UNCHANGED <<life, outside, drawn, screen, remoteStop, posted>>

Top == boxes[Len(boxes)]
Pop == boxes' = SubSeq(boxes, 1, Len(boxes) - 1)

BoxReturns ==
  /\ life = "open" /\ boxes # <<>> /\ Top.clicked # "nothing"
  /\ Pop
  /\ IF Top = [kind |-> "close", clicked |-> "yes"] THEN Destroy ELSE UNCHANGED <<life, drawn>>
  /\ UNCHANGED <<clicks, outside, screen, remoteStop, posted>>

(* shutdown, once: listener, manager, socket file; WM_QUIT then ends the    *)
(* loops of the boxes that are still open, whatever was clicked, and the    *)
(* program's own.                                                           *)
Shutdown ==
  /\ life \in {"listener", "manager", "socket"}
  /\ life' = CASE life = "listener" -> "manager"
               [] life = "manager"  -> "socket"
               [] life = "socket"   -> "quit"
  /\ table' = IF life = "manager" THEN [table EXCEPT !.held = 0] ELSE table
  /\ UNCHANGED <<clicks, changes, asked, drawn, screen, closing>>

Quit ==
  /\ life = "quit"
  /\ IF boxes = <<>> THEN life' = "ended" /\ UNCHANGED boxes
                     ELSE Pop /\ UNCHANGED life
  /\ UNCHANGED <<clicks, outside, drawn, screen, remoteStop, posted>>
----------------------------------------------------------------------------
Starting == \/ Startup("config", "manage") \/ Startup("manage", "listen")
            \/ Startup("listen", "start") \/ Startup("start", "create")
            \/ ErrorBox \/ Create

User == \/ Pointer \/ SelectRow \/ RefreshButton \/ Command \/ Minimise \/ Restore
        \/ Answer

Messages == \/ RefreshTimer \/ AnimTimer \/ Paint \/ (posted /\ CloseMessage) \/ BoxReturns

WindowNext ==
  \/ Starting \/ TableChanges \/ ClientStops \/ Messages \/ User
  \/ (~posted /\ CloseMessage) \/ Watcher \/ Shutdown \/ Quit

(* The thread takes its messages, the goroutine runs; the operator need do  *)
(* nothing.                                                                 *)
WindowMoves == Starting \/ Messages \/ Watcher \/ Shutdown \/ Quit
=============================================================================
