----------------------------- MODULE ShareHandoff -----------------------------
(***************************************************************************)
(* Shares on their way from the Share Extension to the app, through a      *)
(* directory both can see (ShareHandoff.swift writes, handoff.rs and       *)
(* ShareInboxDrain.swift read).                                            *)
(*                                                                         *)
(* The extension writes an entry under a name with ".partial", renames it  *)
(* when it is complete and posts a notification.  The app drains the       *)
(* directory when it starts, when it becomes active and on notifications:  *)
(* it moves each entry's file away, publishes the share and deletes the    *)
(* entry.  Both may die at any point; what is on disk stays.               *)
(***************************************************************************)
EXTENDS Naturals

CONSTANTS
  Entries,     \* shares, each with its own directory, of one file each
  MaxCrashes   \* how often the app dies

ShareHandoffAssumption == MaxCrashes \in Nat

\* The threads that drain: the app's own, at its start and when it becomes
\* active, and the one that receives notifications.  No lock keeps them apart.
Threads == {"app", "notify"}

VARIABLES
  dir,        \* the directory of an entry
  file,       \* where its file is
  unposted,   \* committed entries whose notification was not posted yet
  app,        \* the containing app
  observing,  \* it observes the notification
  posted,     \* a notification that its run loop has yet to deliver
  todo,       \* per thread, listed entries it has not looked at
  hand,       \* the entry it works on, and at which step
  published,  \* how often an entry was published
  whole,      \* how often with its file
  disturbed,  \* entries in the hands of a drain that died, or of two drains
  crashes

vars == <<dir, file, unposted, app, observing, posted, todo, hand, published, whole, disturbed, crashes>>
diskVars == <<dir, file, unposted>>
drainVars == <<todo, hand>>
historyVars == <<published, whole, disturbed>>
appVars == <<app, observing, posted, crashes>>

Nothing == [step |-> "none", has |-> FALSE]
Hand == [entry : Entries, step : {"move", "publish", "remove"}, has : BOOLEAN]

TypeOK ==
  /\ dir \in [Entries -> {"none", "partial", "written", "committed", "gone"}]
  /\ file \in [Entries -> {"none", "copied", "moved"}]
  /\ unposted \subseteq {e \in Entries : dir[e] \in {"committed", "gone"}}
  /\ app \in {"down", "starting", "up"} /\ observing \in BOOLEAN /\ posted \in BOOLEAN
  /\ posted => observing
  /\ todo \in [Threads -> SUBSET Entries]
  /\ hand \in [Threads -> Hand \cup {Nothing}]
  /\ published \in [Entries -> 0..(2 * (MaxCrashes + 1))]
  /\ \A e \in Entries : whole[e] \in 0..published[e]
  /\ disturbed \subseteq Entries /\ crashes \in 0..MaxCrashes

Init ==
  /\ dir = [e \in Entries |-> "none"] /\ file = [e \in Entries |-> "none"]
  /\ unposted = {}
  /\ app = "down" /\ observing = FALSE /\ posted = FALSE
  /\ todo = [t \in Threads |-> {}] /\ hand = [t \in Threads |-> Nothing]
  /\ published = [e \in Entries |-> 0] /\ whole = published
  /\ disturbed = {} /\ crashes = 0
-----------------------------------------------------------------------------
(* The extension.  It may be killed between any two of its steps: then it  *)
(* takes no more of them for this entry.                                   *)

beginEntry(e) ==
  /\ dir[e] = "none"
  /\ dir' = [dir EXCEPT ![e] = "partial"]
  /\ UNCHANGED <<file, unposted, appVars, drainVars, historyVars>>

copyFile(e) ==
  /\ dir[e] = "partial" /\ file[e] = "none"
  /\ file' = [file EXCEPT ![e] = "copied"]
  /\ UNCHANGED <<dir, unposted, appVars, drainVars, historyVars>>

\* share.json is written, atomically, when all files are there.
writeManifest(e) ==
  /\ dir[e] = "partial" /\ file[e] = "copied"
  /\ dir' = [dir EXCEPT ![e] = "written"]
  /\ UNCHANGED <<file, unposted, appVars, drainVars, historyVars>>

\* Variant: the directory gets its final name before it is complete.
CommitEarly(e) ==
  /\ dir[e] = "partial"
  /\ dir' = [dir EXCEPT ![e] = "committed"]
  /\ unposted' = unposted \cup {e}
  /\ UNCHANGED <<file, appVars, drainVars, historyVars>>

\* The directory gets its final name.
commit(e) ==
  /\ dir[e] = "written"
  /\ dir' = [dir EXCEPT ![e] = "committed"]
  /\ unposted' = unposted \cup {e}
  /\ UNCHANGED <<file, appVars, drainVars, historyVars>>

\* Only an app that observes gets to know; posts that wait become one.
postHandoff(e) ==
  /\ e \in unposted
  /\ unposted' = unposted \ {e}
  /\ posted' = observing
  /\ UNCHANGED <<dir, file, app, observing, crashes, drainVars, historyVars>>
-----------------------------------------------------------------------------
(* The app.                                                                *)

Launch ==
  /\ app = "down"
  /\ app' = "starting"
  /\ UNCHANGED <<diskVars, observing, posted, crashes, drainVars, historyVars>>

observe_app_group_handoffs ==
  /\ app # "down" /\ ~observing
  /\ observing' = TRUE
  /\ UNCHANGED <<diskVars, app, posted, crashes, drainVars, historyVars>>

Crash ==
  /\ app # "down" /\ crashes < MaxCrashes
  /\ crashes' = crashes + 1
  /\ app' = "down" /\ observing' = FALSE /\ posted' = FALSE
  /\ disturbed' = disturbed \cup {hand[t].entry : t \in {x \in Threads : hand[x] # Nothing}}
  /\ todo' = [t \in Threads |-> {}] /\ hand' = [t \in Threads |-> Nothing]
  /\ UNCHANGED <<diskVars, published, whole>>

Idle(t) == todo[t] = {} /\ hand[t] = Nothing

\* The entries with a final name are listed.
read_dir(t) == todo' = [todo EXCEPT ![t] = {e \in Entries : dir[e] = "committed"}]

\* The first drain of a start, or one of an app that became active.
drain_app_group_inbox ==
  /\ app # "down" /\ Idle("app")
  /\ app' = "up"
  /\ read_dir("app")
  /\ UNCHANGED <<diskVars, observing, posted, crashes, hand, historyVars>>

\* The run loop delivers a notification when the thread is done with the last.
on_handoff ==
  /\ posted /\ Idle("notify")
  /\ posted' = FALSE
  /\ read_dir("notify")
  /\ UNCHANGED <<diskVars, app, observing, crashes, hand, historyVars>>

\* The next entry is read.  One whose share.json is missing, because another
\* drain was quicker, is dropped as malformed: what is left of it is deleted.
read_entry(t) ==
  /\ hand[t] = Nothing
  /\ \E e \in todo[t] :
     /\ todo' = [todo EXCEPT ![t] = @ \ {e}]
     /\ IF dir[e] \in {"written", "committed"}
        THEN /\ hand' = [hand EXCEPT ![t] = [entry |-> e, step |-> "move", has |-> FALSE]]
             /\ disturbed' = IF \E x \in Threads : hand[x] # Nothing /\ hand[x].entry = e
                             THEN disturbed \cup {e} ELSE disturbed
             /\ UNCHANGED dir
        ELSE dir' = [dir EXCEPT ![e] = "gone"] /\ UNCHANGED <<hand, disturbed>>
  /\ UNCHANGED <<file, unposted, appVars, published, whole>>

\* The file is renamed, or copied where that fails; a file that is not there
\* any more is left out of the share.
move_file(t) ==
  /\ hand[t].step = "move"
  /\ LET e == hand[t].entry IN
     /\ hand' = [hand EXCEPT ![t].step = "publish", ![t].has = (file[e] = "copied")]
     /\ \/ file' = [file EXCEPT ![e] = IF @ = "copied" THEN "moved" ELSE @]
        \/ UNCHANGED file
  /\ UNCHANGED <<dir, unposted, appVars, todo, historyVars>>

publish(t) ==
  /\ hand[t].step = "publish"
  /\ LET e == hand[t].entry IN
     /\ published' = [published EXCEPT ![e] = @ + 1]
     /\ whole' = [whole EXCEPT ![e] = @ + IF hand[t].has THEN 1 ELSE 0]
  /\ hand' = [hand EXCEPT ![t].step = "remove"]
  /\ UNCHANGED <<diskVars, appVars, todo, disturbed>>

remove_dir_all(t) ==
  /\ hand[t].step = "remove"
  /\ dir' = [dir EXCEPT ![hand[t].entry] = "gone"]
  /\ hand' = [hand EXCEPT ![t] = Nothing]
  /\ UNCHANGED <<file, unposted, appVars, todo, historyVars>>
-----------------------------------------------------------------------------
DrainRuns(t) == read_entry(t) \/ move_file(t) \/ publish(t) \/ remove_dir_all(t)

Next ==
  \/ \E e \in Entries :
       beginEntry(e) \/ copyFile(e) \/ writeManifest(e) \/ commit(e) \/ postHandoff(e)
  \/ Launch \/ observe_app_group_handoffs \/ Crash
  \/ drain_app_group_inbox \/ on_handoff
  \/ \E t \in Threads : DrainRuns(t)

\* A start is carried through, notifications are delivered, drains go on.  The
\* extension may stop at any point, and nobody has to launch the app.
Fairness ==
  /\ WF_vars(app = "starting" /\ drain_app_group_inbox)
  /\ WF_vars(on_handoff)
  /\ \A t \in Threads : WF_vars(DrainRuns(t))

Spec == Init /\ [][Next]_vars /\ Fairness
-----------------------------------------------------------------------------
\* No share is deleted that was not published: not one that is still being
\* written, nor one that another drain, or one that died, has begun with
\* (ShareHandoff.swift 15-16; handoff.rs 44-76).
GoneWasPublished == \A e \in Entries : dir[e] = "gone" => published[e] > 0

\* A share is published once and with its file, unless a crash or a second drain
\* came between (handoff.rs 44-119).
PublishedOnceAndWhole ==
  \A e \in Entries \ disturbed : published[e] <= 1 /\ whole[e] = published[e]

\* The variables have their types, and what is deleted was published.
NoneDeletedUnread == TypeOK /\ GoneWasPublished

\* A share is published while the app runs: one that was announced to it, though a
\* drain may be going on just then (macos.rs 331-375), and one that waits when it
\* starts, those of an earlier drain that died included, whatever is left of them
\* (handoff.rs 59-73).
SharesArrive ==
  \A e \in Entries :
    (dir[e] = "committed" /\ (posted \/ app = "starting")) ~> (published[e] > 0 \/ app = "down")
=============================================================================
