------------------------------- MODULE MCShares -------------------------------
(* Both directions of the share plugin, the sheets that send and the handoff   *)
(* of what the share extension received, each on its own: part says which.     *)
(* The stores are there and at rest.                                           *)
EXTENDS MCStores

CONSTANTS Systems, Handles, MaxDrops, Reuse, Entries, MaxCrashes

VARIABLES
  system, request, call, outcome, withdrawn, busy, window, registered, hooked, subclassed, aimed,
  staged, jobs, queue, sheet, reply, active, timers, chosen, late, results, taken, did,
  dir, sharedFile, unposted, app, observing, posted, todo, hand, published, whole, disturbed, crashes

sheetVars == <<system, request, call, outcome, withdrawn, busy, window, registered, hooked,
               subclassed, aimed, staged, jobs, queue, sheet, reply, active, timers, chosen, late,
               results, taken, did>>
handoffVars == <<dir, sharedFile, unposted, app, observing, posted, todo, hand, published, whole,
                 disturbed, crashes>>
storeVars == <<vars, vaultVars>>
shareVars == <<part, sheetVars, handoffVars, storeVars>>

Sh == INSTANCE ShareSheet WITH
  Platforms <- Systems, platform <- system, answer <- outcome, cancelled <- withdrawn,
  target <- aimed
H == INSTANCE ShareHandoff WITH file <- sharedFile

ASSUME SharesAssumption == Sh!ShareSheetAssumption /\ H!ShareHandoffAssumption

SharesInit ==
  /\ part \in {"sheets", "handoff"}
  /\ Sh!Init /\ (part # "sheets" => system = "macos") /\ H!Init
  /\ Init /\ target = CHOOSE t \in Targets : TRUE
  /\ V!Init /\ platform = CHOOSE p \in Platforms : TRUE

SharesNext ==
  \/ part = "sheets" /\ Sh!Next /\ UNCHANGED <<part, handoffVars, storeVars>>
  \/ part = "handoff" /\ H!Next /\ UNCHANGED <<part, sheetVars, storeVars>>

\* Nothing is due in either before somebody has asked for something, so that
\* the fairness of both can stand as it is.
SharesSpec == SharesInit /\ [][SharesNext]_shareVars /\ Sh!Fairness /\ H!Fairness
-----------------------------------------------------------------------------
\* No share is deleted unread, nor published twice or without its file but after
\* a crash or beside a second drain.
SharesKept == H!NoneDeletedUnread /\ H!PublishedOnceAndWhole

\* Sheets follow their calls, and calls are told what became of their own sheet.
SheetsServeCalls == Sh!SheetsFollowCalls /\ Sh!OwnOutcome

\* No sheet appears for a call that was answered, but on macOS.
NoLateSheet == Sh!NoLateSheet

\* Calls of share() end, and shares that were received arrive.
SharesSettle == Sh!Settles /\ H!SharesArrive

\* What does not hold of a sheet, see ShareSheet.
OneSheet == Sh!OneSheet
OwnTarget == Sh!OwnTarget
FilesStay == Sh!FilesStay
AlwaysSettles == Sh!AlwaysSettles
=============================================================================
