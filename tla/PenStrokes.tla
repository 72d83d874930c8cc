------------------------------ MODULE PenStrokes ------------------------------
(***************************************************************************)
(* One window of the pen publisher (plugins/istmo-pen, publisher/*.rs):    *)
(* what the five desktop backends make of the native events of the pens    *)
(* over it, and what a client of the window makes of theirs.               *)
(*                                                                         *)
(* hand is what the pens really do.  The system queues native events; a    *)
(* pump (XInput2, Wayland, libinput) or the UI thread (Windows, macOS)     *)
(* handles one at a time.  XInput2 and Wayland keep a row per tool.        *)
(* Positions, tilt and the numbers of samples are left out.                *)
(***************************************************************************)
EXTENDS Naturals, Integers, Sequences, FiniteSets, SequencesExt

CONSTANTS
  Tools,       \* pens
  Buttons,     \* the barrel buttons of a pen
  Serial,      \* the serial libinput gives each tool
  Backends,    \* "xinput2", "wayland", "windows", "macos", "libinput"
  OnePlug,     \* whether devices come and go one at a time
  MaxActs,     \* acts of the pens
  None

PenStrokesAssumption ==
  /\ MaxActs \in Nat /\ OnePlug \in BOOLEAN /\ DOMAIN Serial = Tools

VARIABLES
  backend,
  hand,        \* whether a pen is plugged in, near, touching, and its held buttons
  acts,        \* acts so far
  queue,       \* native events on their way
  devices,     \* XInput2: the devices the pump knows and has selected events of
  rows,        \* the ToolState of each tool
  pressed,     \* libinput: button_state, by serial
  out,         \* what the last event made the backend send
  view,        \* what the client makes of it: who touches, which buttons are held
  hovers,      \* ProximityEnter minus ProximityLeave
  missed,      \* what the system had no reason to tell the window
  stray        \* pens that were unplugged near the window and never told to leave

outVars == <<out, view, hovers>>
handVars == <<hand, acts, missed, stray>>
vars == <<backend, handVars, queue, devices, rows, pressed, outVars>>

Row == [near : BOOLEAN, down : BOOLEAN, wasNear : BOOLEAN, wasDown : BOOLEAN,
        held : {{}, {"barrel"}}, changed : BOOLEAN, axis : BOOLEAN, onTarget : BOOLEAN]

NewRow == [near |-> FALSE, down |-> FALSE, wasNear |-> FALSE, wasDown |-> FALSE,
           held |-> {}, changed |-> FALSE, axis |-> FALSE, onTarget |-> FALSE]

TypeOK ==
  /\ backend \in Backends
  /\ hand \in [Tools -> [here : BOOLEAN, near : BOOLEAN, down : BOOLEAN, held : SUBSET Buttons]]
  /\ acts \in 0..MaxActs /\ devices \subseteq Tools
  /\ rows \in [Tools -> Row \cup {None}]
  /\ \A s \in DOMAIN pressed : pressed[s] \subseteq Buttons
  /\ hovers \in Int /\ stray \in Nat /\ missed \subseteq Tools \X {"near", "down", "held"}

Init ==
  /\ backend \in Backends
  /\ hand = [t \in Tools |-> [here |-> TRUE, near |-> FALSE, down |-> FALSE, held |-> {}]]
  /\ acts = 0 /\ queue = <<>> /\ missed = {} /\ stray = 0
  /\ devices = Tools
  /\ rows = [t \in Tools |-> None]
  /\ pressed = [s \in {Serial[t] : t \in Tools} |-> {}]
  /\ out = <<>> /\ hovers = 0
  /\ view = [t \in Tools |-> [touching |-> FALSE, held |-> {}]]
-----------------------------------------------------------------------------
(* The pens, and the native events the system makes of what they do.       *)

Event(do, t, b) ==
  [do |-> do, tool |-> t, button |-> b, held |-> hand[t].held,
   pressure |-> hand[t].down, touching |-> hand[t].down]

\* A Wayland compositor ends what belongs together with a frame.  XInput2
\* delivers the events of selected devices alone.
Told(t) == backend # "xinput2" \/ t \in devices

Tell(t, events) ==
  queue' = IF Told(t)
           THEN queue \o events \o
                (IF backend = "wayland" THEN <<Event("frame", t, None)>> ELSE <<>>)
           ELSE queue

Act(t) == acts < MaxActs /\ hand[t].here /\ acts' = acts + 1
Misses(t, what) == missed' = IF Told(t) THEN missed \ {<<t, what>>} ELSE missed \cup {<<t, what>>}
Silent == out' = <<>> /\ UNCHANGED <<backend, devices, rows, pressed, view, hovers>>
Still == Silent /\ UNCHANGED stray

Approach(t) ==
  /\ Act(t) /\ ~hand[t].near
  /\ hand' = [hand EXCEPT ![t].near = TRUE]
  /\ Tell(t, <<Event("enter", t, None)>>) /\ Misses(t, "near")
  /\ Still

\* A pen is lifted and its buttons are let go of before it leaves.
Withdraw(t) ==
  /\ Act(t) /\ hand[t].near /\ ~hand[t].down /\ hand[t].held = {}
  /\ hand' = [hand EXCEPT ![t].near = FALSE]
  /\ Tell(t, <<Event("leave", t, None)>>) /\ missed' = missed \ {<<t, "near">>}
  /\ Still

Touch(t) ==
  /\ Act(t) /\ hand[t].near /\ ~hand[t].down
  /\ hand' = [hand EXCEPT ![t].down = TRUE]
  /\ Tell(t, <<Event("press", t, None)>>) /\ Misses(t, "down")
  /\ Still

Lift(t) ==
  /\ Act(t) /\ hand[t].down
  /\ hand' = [hand EXCEPT ![t].down = FALSE]
  /\ Tell(t, <<Event("release", t, None)>>) /\ missed' = missed \ {<<t, "down">>}
  /\ Still

\* The pointer is taken from the window in the middle of a stroke.
LoseCapture(t) ==
  /\ backend = "windows"
  /\ Act(t) /\ hand[t].down
  /\ hand' = [hand EXCEPT ![t].down = FALSE]
  /\ Tell(t, <<Event("capture", t, None)>>)
  /\ UNCHANGED missed /\ Still

\* A touching pen may report no pressure.  AppKit also sends points of their own.
Slide(t) ==
  /\ Act(t) /\ hand[t].near
  /\ \/ \E p \in {FALSE, hand[t].down} :
          Tell(t, <<[Event("motion", t, None) EXCEPT !.pressure = p]>>)
     \/ backend = "macos" /\ Tell(t, <<Event("point", t, None)>>)
  /\ UNCHANGED <<hand, missed>> /\ Still

\* Windows tells of a button with the next update, AppKit with the next event.
SetButton(t, b) ==
  LET held == IF b \in hand[t].held THEN hand[t].held \ {b} ELSE hand[t].held \cup {b} IN
  /\ Act(t) /\ hand[t].near
  /\ hand' = [hand EXCEPT ![t].held = held]
  /\ CASE backend = "macos" -> UNCHANGED queue
       [] backend = "windows" -> Tell(t, <<[Event("motion", t, None) EXCEPT !.held = held]>>)
       [] OTHER -> Tell(t, <<[Event("button", t, b) EXCEPT !.held = held]>>)
  /\ missed' = IF Told(t) \/ held = {} THEN missed \ {<<t, "held">>} ELSE missed \cup {<<t, "held">>}
  /\ Still

Plugging == OnePlug => \A k \in DOMAIN queue : queue[k].do \notin {"hierarchy", "added", "removed"}

\* A pen that is unplugged is lifted first.  An X server tells of no Leave.
Unplug(t) ==
  /\ backend \in {"xinput2", "wayland"} /\ Plugging
  /\ Act(t) /\ hand[t].held = {}
  /\ hand' = [hand EXCEPT ![t] = [@ EXCEPT !.here = FALSE, !.near = FALSE, !.down = FALSE]]
  /\ LET lifted == IF hand[t].down /\ Told(t) THEN <<Event("release", t, None)>> ELSE <<>>
         left == IF hand[t].near THEN <<Event("leave", t, None)>> ELSE <<>> IN
     queue' = queue \o lifted \o
       (IF backend = "xinput2" THEN <<Event("hierarchy", t, None)>>
        ELSE left \o <<Event("frame", t, None), Event("removed", t, None)>>)
  /\ missed' = missed \ ({t} \X {"near", "down"})
  /\ stray' = IF backend = "xinput2" /\ hand[t].near /\ <<t, "near">> \notin missed
              THEN stray + 1 ELSE stray
  /\ Silent

Plug(t) ==
  /\ backend \in {"xinput2", "wayland"} /\ Plugging
  /\ acts < MaxActs /\ acts' = acts + 1 /\ ~hand[t].here
  /\ hand' = [hand EXCEPT ![t].here = TRUE]
  /\ queue' = Append(queue, Event(IF backend = "xinput2" THEN "hierarchy" ELSE "added", t, None))
  /\ UNCHANGED missed /\ Still
-----------------------------------------------------------------------------
(* What a backend sends, and how the client reads it: every event but      *)
(* ProximityLeave carries the tool and its buttons.                        *)

Sample(kind, t, held) == [kind |-> kind, tool |-> t, held |-> held]
Leave == [kind |-> "ProximityLeave", tool |-> None, held |-> {}]

Seen(v, e) ==
  IF e.kind = "ProximityLeave" THEN v
  ELSE [v EXCEPT ![e.tool] =
         [held |-> e.held,
          touching |-> e.kind = "Down" \/ (@.touching /\ e.kind \notin {"Up", "Cancel"})]]

Count(kind, events) == Len(SelectSeq(events, LAMBDA e : e.kind = kind))

Send(events) ==
  /\ out' = events
  /\ view' = FoldLeft(Seen, view, events)
  /\ hovers' = hovers + Count("ProximityEnter", events) - Count("ProximityLeave", events)

If(cond, event) == IF cond THEN <<event>> ELSE <<>>

Next1(kinds) == queue # <<>> /\ Head(queue).do \in kinds /\ queue' = Tail(queue)
Handling == UNCHANGED <<backend, handVars>>
-----------------------------------------------------------------------------
(* XInput2: the row of a known device is made when it is first needed.     *)

XInput == backend = "xinput2"
Tool == Head(queue).tool
Known == rows[Tool] # None \/ Tool \in devices
RowOf(t) == IF rows[t] = None THEN NewRow ELSE rows[t]

\* An event of a device that is not known is dropped.
Unknown ==
  /\ XInput /\ Next1({"enter", "leave", "press", "release", "button", "motion"}) /\ ~Known
  /\ Send(<<>>)
  /\ Handling /\ UNCHANGED <<devices, rows, pressed>>

Update(row, events) ==
  /\ rows' = [rows EXCEPT ![Tool] = row]
  /\ Send(events)
  /\ Handling /\ UNCHANGED <<devices, pressed>>

\* Variant: prev_proximity is set and never reset.
ProximityOnce ==
  /\ XInput /\ Next1({"enter", "leave"}) /\ Known
  /\ LET row == RowOf(Tool)
         entering == Head(queue).do = "enter" IN
     Update([row EXCEPT !.near = entering, !.wasNear = row.wasNear \/ entering],
            If(entering /\ ~row.wasNear, Sample("ProximityEnter", Tool, row.held))
            \o If(~entering /\ row.wasNear, Leave))

handle_proximity ==
  /\ XInput /\ Next1({"enter", "leave"}) /\ Known
  /\ LET row == RowOf(Tool)
         entering == Head(queue).do = "enter" IN
     Update([row EXCEPT !.near = entering, !.wasNear = entering],
            If(entering /\ ~row.wasNear, Sample("ProximityEnter", Tool, row.held))
            \o If(~entering /\ row.wasNear, Leave))

\* Variant: the tip is not compared with what it was.
TipUnchecked ==
  /\ XInput /\ Next1({"press", "release"}) /\ Known
  /\ LET row == RowOf(Tool)
         pressing == Head(queue).do = "press" IN
     Update([row EXCEPT !.down = pressing, !.wasDown = pressing],
            <<Sample(IF pressing THEN "Down" ELSE "Up", Tool, row.held)>>)

handle_button_tip ==
  /\ XInput /\ Next1({"press", "release"}) /\ Known
  /\ LET row == RowOf(Tool)
         pressing == Head(queue).do = "press" IN
     Update([row EXCEPT !.down = pressing, !.wasDown = pressing],
            If(pressing /\ ~row.wasDown, Sample("Down", Tool, row.held))
            \o If(~pressing /\ row.wasDown, Sample("Up", Tool, row.held)))

\* Every button of a pen is one bit.
Barrel == IF Head(queue).button \in Head(queue).held THEN {"barrel"} ELSE {}

handle_button_barrel ==
  /\ XInput /\ Next1({"button"}) /\ Known
  /\ LET row == RowOf(Tool) IN
     Update([row EXCEPT !.held = Barrel],
            If(Barrel # row.held, Sample("ButtonChanged", Tool, Barrel)))

emit_move ==
  /\ XInput /\ Next1({"motion"}) /\ Known
  /\ LET row == RowOf(Tool) IN
     Update(row, If(row.down, Sample("Move", Tool, row.held))
                 \o If(~row.down /\ row.near, Sample("HoverMove", Tool, row.held)))

\* The devices are those the server has now, not those it had when it sent the
\* event; the tools of the others are forgotten, and nothing is sent.
refresh_devices ==
  /\ XInput /\ Next1({"hierarchy"})
  /\ devices' = {t \in Tools : hand[t].here}
  /\ rows' = [t \in Tools |-> IF hand[t].here THEN rows[t] ELSE None]
  /\ Send(<<>>)
  /\ Handling /\ UNCHANGED pressed
-----------------------------------------------------------------------------
(* Wayland: the events of a frame change the row, the frame sends.         *)

Wayland == backend = "wayland"

ToolEvent ==
  /\ Wayland /\ Next1({"enter", "leave", "press", "release", "motion", "button"})
  /\ LET row == RowOf(Tool) IN
     rows' = [rows EXCEPT ![Tool] =
       CASE Head(queue).do = "enter" -> [row EXCEPT !.near = TRUE, !.onTarget = TRUE]
         [] Head(queue).do = "leave" -> [row EXCEPT !.near = FALSE]
         [] Head(queue).do = "press" -> [row EXCEPT !.down = TRUE]
         [] Head(queue).do = "release" -> [row EXCEPT !.down = FALSE]
         [] Head(queue).do = "motion" -> [row EXCEPT !.axis = TRUE]
         [] Head(queue).do = "button" ->
              [row EXCEPT !.held = Barrel, !.changed = row.changed \/ Barrel # row.held]]
  /\ Send(<<>>)
  /\ Handling /\ UNCHANGED <<devices, pressed>>

flush_frame ==
  /\ Wayland /\ Next1({"frame"})
  /\ LET row == RowOf(Tool)
         heard == row.onTarget \/ row.wasNear
         downs == row.down /\ ~row.wasDown
         S(kind) == Sample(kind, Tool, row.held) IN
     IF heard
     THEN Update([row EXCEPT !.wasNear = row.near, !.wasDown = row.down, !.axis = FALSE,
                             !.changed = FALSE, !.onTarget = row.onTarget /\ row.near],
                 If(row.near /\ ~row.wasNear, S("ProximityEnter"))
                 \o If(downs, S("Down"))
                 \o If(~downs /\ row.axis /\ row.down, S("Move"))
                 \o If(~downs /\ row.axis /\ ~row.down /\ row.near, S("HoverMove"))
                 \o If(row.changed, S("ButtonChanged"))
                 \o If(~row.down /\ row.wasDown, S("Up"))
                 \o If(~row.near /\ row.wasNear, Leave))
     ELSE Update([row EXCEPT !.axis = FALSE, !.changed = FALSE], <<>>)

ToolAdded ==
  /\ Wayland /\ Next1({"added"})
  /\ Update(NewRow, <<>>)

Removed ==
  /\ Wayland /\ Next1({"removed"})
  /\ Update(None, <<>>)
-----------------------------------------------------------------------------
(* Windows, macOS and libinput pass the events on as they come.            *)

Passes(events) == Send(events) /\ Handling /\ UNCHANGED <<devices, rows, pressed>>

handle_pen_message ==
  /\ backend = "windows" /\ queue # <<>> /\ queue' = Tail(queue)
  /\ LET e == Head(queue)
         S(kind) == <<Sample(kind, Tool, e.held)>> IN
     Passes(CASE e.do = "press" -> S("Down")
              [] e.do = "release" -> S("Up")
              [] e.do = "capture" -> S("Cancel")
              [] e.do = "enter" -> S("ProximityEnter")
              [] e.do = "leave" -> <<Leave>>
              [] e.do = "motion" -> IF e.pressure THEN S("Move") ELSE S("HoverMove"))

\* A point of its own is a move, wherever the pen is.  A mouse event that the
\* pen is behind is a drag while it touches, whatever its pressure.
dispatch_event ==
  /\ backend = "macos" /\ queue # <<>> /\ queue' = Tail(queue)
  /\ LET e == Head(queue)
         S(kind) == <<Sample(kind, Tool, e.held)>> IN
     Passes(CASE e.do = "press" -> S("Down")
              [] e.do = "release" -> S("Up")
              [] e.do = "enter" -> S("ProximityEnter")
              [] e.do = "leave" -> <<Leave>>
              [] e.do = "point" -> S("Move")
              [] e.do = "motion" -> IF e.touching THEN S("Move") ELSE S("HoverMove"))

\* The buttons of a tool are looked up by its serial.  Every axis event is a move.
handle_tablet ==
  /\ backend = "libinput" /\ Next1({"enter", "leave", "press", "release", "motion"})
  /\ LET S(kind) == <<Sample(kind, Tool, pressed[Serial[Tool]])>> IN
     Passes(CASE Head(queue).do = "press" -> S("Down")
              [] Head(queue).do = "release" -> S("Up")
              [] Head(queue).do = "enter" -> S("ProximityEnter")
              [] Head(queue).do = "leave" -> <<Leave>>
              [] Head(queue).do = "motion" -> S("Move"))

handle_button_libinput ==
  /\ backend = "libinput" /\ Next1({"button"})
  /\ LET e == Head(queue)
         old == pressed[Serial[Tool]]
         new == IF e.button \in e.held THEN old \cup {e.button} ELSE old \ {e.button} IN
     /\ pressed' = [pressed EXCEPT ![Serial[Tool]] = new]
     /\ Send(If(new # old, Sample("ButtonChanged", Tool, new)))
  /\ Handling /\ UNCHANGED <<devices, rows>>
-----------------------------------------------------------------------------
Acts(t) ==
  \/ Approach(t) \/ Withdraw(t) \/ Touch(t) \/ Lift(t) \/ LoseCapture(t) \/ Slide(t)
  \/ Unplug(t) \/ Plug(t)
  \/ \E b \in Buttons : SetButton(t, b)

Handles ==
  \/ Unknown \/ handle_proximity \/ handle_button_tip \/ handle_button_barrel \/ emit_move
  \/ refresh_devices
  \/ ToolEvent \/ flush_frame \/ ToolAdded \/ Removed
  \/ handle_pen_message \/ dispatch_event \/ handle_tablet \/ handle_button_libinput

Next == Handles \/ \E t \in Tools : Acts(t)

Spec == Init /\ [][Next]_vars
-----------------------------------------------------------------------------
(* What holds. *)

Heard(t, what) == <<t, what>> \notin missed

\* When everything is handled, the client's picture is that of the hand: who
\* touches, whose button is held (which AppKit tells of later), and how many are
\* near, but for what the window was never told.
ViewFollows ==
  queue = <<>> =>
    /\ \A t \in Tools :
         /\ Heard(t, "down") => view[t].touching = hand[t].down
         /\ Heard(t, "held") /\ backend # "macos" => (view[t].held # {}) = (hand[t].held # {})
    /\ hovers = stray + Cardinality({t \in Tools : hand[t].near /\ Heard(t, "near")})

\* The strokes of a tool are whole: it goes down when it is up and up when it is
\* down, and where the backend knows it moves in between alone.
Fits(e) ==
  CASE e.kind = "Down" -> ~view[e.tool].touching
    [] e.kind \in {"Up", "Cancel"} -> view[e.tool].touching
    [] e.kind = "Move" -> view[e.tool].touching \/ backend \in {"macos", "libinput"}
    [] OTHER -> TRUE

StrokesAreWhole == [][\A k \in DOMAIN out' : Fits(out'[k])]_vars

\* "Pen moved while in contact" (lib.rs), which macOS and libinput do not keep.
MovesTouch == [][\A k \in DOMAIN out' : out'[k].kind = "Move" => view[out'[k].tool].touching]_vars
=============================================================================
