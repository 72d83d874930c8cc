-------------------------------- MODULE MCPens --------------------------------
(* The two sides of the pen plugin, its windows and its strokes, each on its *)
(* own: part says which.  One window is registered with one native window    *)
(* and another later, and there is a second one.  The other plugins are      *)
(* there and at rest.                                                        *)
EXTENDS MCPlugins, TLC

CONSTANTS Sides, hwnd1, hwnd2, hwnd3, pen1, pen2,
          Ids, NativesOf, Threads, PenClients, Targets, Overlap, MaxStates, MaxOps,
          Tools, Buttons, Backends, OnePlug, MaxActs

VARIABLES
  desktop, windows, listeners, known, states, made, bound, entries, hooked, receivers, client,
  todo, ops, lost,
  backend, hand, acts, queue, devices, rows, pressed, out, view, hovers, missed, stray

NativesOfMC == 1 :> {hwnd1, hwnd2} @@ 2 :> {hwnd3}

windowVars == <<desktop, windows, listeners, known, states, made, bound, entries, hooked,
                receivers, client, todo, ops, lost>>
strokeVars == <<backend, hand, acts, queue, devices, rows, pressed, out, view, hovers,
                missed, stray>>
pluginVars == <<vars, stateVars, serviceVars, lockVars>>
penVars == <<part, windowVars, strokeVars, pluginVars>>

PW == INSTANCE PenWindows WITH target <- desktop, taken <- receivers
PS == INSTANCE PenStrokes WITH Serial <- pen1 :> 1 @@ pen2 :> 2

ASSUME PensAssumption == PW!PenWindowsAssumption
ASSUME StrokesAssumption == PS!PenStrokesAssumption

PensInit ==
  /\ part \in Sides
  /\ PW!Init /\ (part # "windows" => desktop = CHOOSE t \in Targets : TRUE)
  /\ PS!Init /\ (part # "strokes" => backend = CHOOSE b \in Backends : TRUE)
  /\ Init /\ S!Init /\ W!Init /\ plugin = "lifecycle" /\ os = "ios" /\ P!Init

PensNext ==
  \/ part = "windows" /\ PW!Next /\ UNCHANGED <<part, strokeVars, pluginVars>>
  \/ part = "strokes" /\ PS!Next /\ UNCHANGED <<part, windowVars, pluginVars>>

PensSpec == PensInit /\ [][PensNext]_penVars
-----------------------------------------------------------------------------
\* The windows and those who listen for them fit together once the threads rest.
WindowsSettled == PW!WindowsSettled

\* What a client makes of the samples is what the pens do.
ViewFollows == PS!TypeOK /\ PS!ViewFollows

\* Strokes begin, move and end in that order, and hovers likewise.
StrokesAreWhole == PS!StrokesAreWhole

\* The documentation's Moved, see PenStrokes.
MovesTouch == PS!MovesTouch
=============================================================================
