----------------------------- MODULE DurableMap -----------------------------
(***************************************************************************)
(* What a data store promises the application that holds it: a change is   *)
(* shown at once, a mutation that returns Ok is saved, and whatever an     *)
(* application finds when it starts again is the map it had saved last or  *)
(* the one it was saving when it died.  Where the platform may refuse to   *)
(* replace a file at once (mayTear), a save that dies or fails may leave   *)
(* the file unreadable, or empty.                                          *)
(***************************************************************************)
CONSTANTS Maps, Empty, Torn

VARIABLES
  shown,    \* the map the application reads
  saved,    \* the map the next start finds, or Torn
  state,    \* "down", "idle", or "busy" with a mutation
  result,   \* of the last mutation
  mayTear   \* whether replacing the file takes more than one step

vars == <<shown, saved, state, result, mayTear>>

Init ==
  /\ shown = Empty /\ saved = Empty
  /\ state = "down" /\ result = "none"
  /\ mayTear \in BOOLEAN

\* The application starts; an unreadable file keeps it from doing so.
Start ==
  /\ state = "down" /\ saved # Torn
  /\ shown' = saved
  /\ state' = "idle" /\ result' = "none"
  /\ UNCHANGED <<saved, mayTear>>

Change(m) ==
  /\ state = "idle"
  /\ shown' = m
  /\ state' = "busy"
  /\ UNCHANGED <<saved, result, mayTear>>

\* The save takes effect and the mutation returns.
Finish ==
  /\ state = "busy"
  /\ saved' = shown
  /\ state' = "idle" /\ result' = "ok"
  /\ UNCHANGED <<shown, mayTear>>

\* A replacement in steps: the file is emptied, unreadable, then the new map.
Replace(content) ==
  /\ mayTear /\ state = "busy"
  /\ content \in {Empty, Torn, shown}
  /\ saved' = content
  /\ UNCHANGED <<shown, state, result, mayTear>>

Fail ==
  /\ state = "busy"
  /\ state' = "idle" /\ result' = "error"
  /\ UNCHANGED <<shown, saved, mayTear>>

Die ==
  /\ state # "down"
  /\ state' = "down"
  /\ UNCHANGED <<shown, saved, result, mayTear>>

Next ==
  \/ Start \/ Finish \/ Fail \/ Die
  \/ \E m \in Maps : Change(m)
  \/ \E content \in Maps \cup {Torn} : Replace(content)

Spec == Init /\ [][Next]_vars
=============================================================================
