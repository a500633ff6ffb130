------------------------------ MODULE Desktop ------------------------------
(***************************************************************************)
(* sercon-gui on the machine's desktop: the main window and the key panel. *)
(* One thread runs both, but they share no state: the window opens the     *)
(* panel (openKeyPanel, a command of Keys that is always enabled) and ends *)
(* with the program (Exit there, at any moment).  So the model takes one   *)
(* of them at a time, and the other stays as it began.                     *)
(***************************************************************************)
EXTENDS Keys, Window

VARIABLE used   (* the one the operator works with *)

desktopVars == <<used, keysVars, windowVars>>

(* What the other begins with does not matter: one account and file for the *)
(* window, a machine without ports for the panel.                           *)
DesktopInit ==
  /\ Init /\ WindowInit
  /\ \/ used = "panel" /\ table.ports = 0
     \/ /\ used = "window" /\ account.member = "no"
        /\ file = CHOOSE f \in FirstFiles : TRUE

PanelStep  == used = "panel"  /\ Next /\ UNCHANGED <<used, windowVars>>
WindowStep == used = "window" /\ WindowNext /\ UNCHANGED <<used, keysVars>>

DesktopNext == PanelStep \/ WindowStep

DesktopSpec == DesktopInit /\ [][DesktopNext]_desktopVars

InPanel(A)  == used = "panel"  /\ A /\ UNCHANGED <<used, windowVars>>
InWindow(A) == used = "window" /\ A /\ UNCHANGED <<used, keysVars>>

(* Goroutines run and a wait ends at its time-out at the latest; the thread *)
(* takes its messages.  Nothing is asked of the operator but to put the     *)
(* window back if it was minimised.                                         *)
FairDesktop ==
  /\ DesktopSpec
  /\ WF_desktopVars(InPanel(Drain))
  /\ \A s \in Slots : WF_desktopVars(InPanel(Worker(s)))
  /\ WF_desktopVars(InWindow(WindowMoves)) /\ WF_desktopVars(InWindow(Restore))
----------------------------------------------------------------------------
Tween == [to : 0 .. MaxPorts + 1, value : 0 .. MaxPorts + 1 \cup {Between}, left : 0 .. RollFrames]

(* The panel has exactly one answer coming while it is busy (PanelTypeOK).  *)
(* In the window there is a row for every port of the last refresh, and a   *)
(* tween that is not active is drawn at the value it went to.               *)
TypeOK ==
  /\ PanelTypeOK
  /\ \A i \in DOMAIN rows : rows[i] \in Tween
  /\ counters \in [Numbers -> Tween] /\ hover \in Tween
  /\ life = "open" => Len(rows) = shown.ports
  /\ \A n \in Numbers : ~Active(counters[n]) => counters[n].value = counters[n].to
  /\ flash.left \in 0 .. 3 /\ Len(boxes) <= MaxBoxes

(* The numbers and rows on screen become those of the port table, and then  *)
(* the clock is still: "The timer only runs while something is actually     *)
(* moving. An idle window schedules no frames at all."  A roll whose target *)
(* is set by a repaint after the clock stopped is finished all the same,    *)
(* since only the button brings a second change so soon and its message     *)
(* starts the clock again.  A window that was minimised is excepted: what   *)
(* it starts to draw when restored has no clock until something changes.    *)
Shown ==
  /\ shown = table
  /\ \A i \in DOMAIN rows : rows[i] = Settled(1)
  /\ counters["ports"] = Settled(table.ports) /\ counters["held"] = Settled(table.held)

ScreenCatchesUp ==
  /\ (life = "open") ~> (Shown \/ everHidden \/ life # "open")
  /\ <>[](~clock)

(* A client that stops the daemon stops the window, whatever boxes are open *)
(* and although nobody answers them.                                        *)
StopIsObeyed == (life = "open" /\ asked) ~> (life = "ended")

(* Every wait of the two windows ends by itself.                            *)
WaitsEnd == JobsEnd /\ StopIsObeyed
=============================================================================
