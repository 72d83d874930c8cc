------------------------------ MODULE BannerSlot ------------------------------
(***************************************************************************)
(* BannerSlot (crates/plugins/src/admob/slot.rs): the state machine that   *)
(* keeps one ad banner where the user interface wants it.                  *)
(*                                                                         *)
(* The interface calls sync on every frame with its target.  sync decides  *)
(* under the slot's mutex and leaves the call to the platform to a task of *)
(* its own: a show, a hide, or the updater, which sends the latest         *)
(* rectangle until there is none.  Tasks and the platform interleave.      *)
(***************************************************************************)
EXTENDS Naturals, FiniteSets

CONSTANTS
  Rects,        \* rectangles of the screen
  Tasks,        \* room for the tasks that are alive at a time
  MaxBanners,   \* bound on the banners the platform creates
  MaxRetargets, \* bound on the changes of the target
  Hide,         \* the target that is no rectangle
  None

Banners == 1..MaxBanners

Task ==
  [kind : {"show"}, at : {"call", "ok", "err"}, banner : Banners \cup {None}, rect : Rects]
  \cup
  [kind : {"hide"}, at : {"call", "ok", "err"}, banner : Banners, rect : {None}]
  \cup
  [kind : {"updater"}, at : {"take", "call", "ok", "err"}, banner : Banners,
   rect : Rects \cup {None}]

ASSUME BannerSlotAssumption ==
  /\ MaxBanners \in Nat /\ MaxRetargets \in Nat
  /\ Hide \notin Rects /\ None \notin Rects \cup Banners \cup {Hide} \cup Task

VARIABLES
  target,          \* what the interface wants
  retargets,       \* how often it changed its mind
  status,          \* SlotInner.state
  handle, rect,    \* what SlotState::Live holds
  pending_rect,
  updater_running,
  last_error,      \* whether there is one
  tasks,           \* the futures given to spawn
  shown,           \* banners created by the platform
  banners          \* banner -> where the platform shows it

uiVars == <<target, retargets>>
slotVars == <<status, handle, rect, pending_rect, updater_running, last_error>>
platformVars == <<shown, banners>>
vars == <<uiVars, slotVars, tasks, platformVars>>

TypeOK ==
  /\ target \in Rects \cup {Hide}
  /\ retargets \in 0..MaxRetargets
  /\ status \in {"Idle", "Loading", "Live", "Hiding"}
  /\ handle \in Banners \cup {None} /\ rect \in Rects \cup {None}
  /\ status = "Live" <=> handle # None
  /\ status = "Live" <=> rect # None
  /\ pending_rect \in Rects \cup {None}
  /\ updater_running \in BOOLEAN
  /\ last_error \in BOOLEAN
  /\ tasks \in [Tasks -> Task \cup {None}]
  /\ shown \in 0..MaxBanners
  /\ banners \in [Banners -> Rects \cup {None}]

Init ==
  /\ target = Hide
  /\ retargets = 0
  /\ status = "Idle" /\ handle = None /\ rect = None
  /\ pending_rect = None
  /\ updater_running = FALSE
  /\ last_error = FALSE
  /\ tasks = [i \in Tasks |-> None]
  /\ shown = 0
  /\ banners = [b \in Banners |-> None]

ShowTask(r) == [kind |-> "show", at |-> "call", banner |-> None, rect |-> r]
HideTask(b) == [kind |-> "hide", at |-> "call", banner |-> b, rect |-> None]
UpdaterTask(b) == [kind |-> "updater", at |-> "take", banner |-> b, rect |-> None]

spawn(task) == \E i \in Tasks : tasks[i] = None /\ tasks' = [tasks EXCEPT ![i] = task]
-----------------------------------------------------------------------------
(* The interface.                                                          *)

Retarget(t) ==
  /\ t # target
  /\ retargets < MaxRetargets
  /\ target' = t
  /\ retargets' = retargets + 1
  /\ UNCHANGED <<slotVars, tasks, platformVars>>

\* sync(Show(r)) with no banner.
SyncShow(r) ==
  /\ status = "Idle"
  /\ status' = "Loading"
  /\ spawn(ShowTask(r))
  /\ UNCHANGED <<handle, rect, pending_rect, updater_running>>

\* sync(Show(r)) while the banner loads.
SyncLoading(r) ==
  /\ status = "Loading"
  /\ pending_rect' = r
  /\ UNCHANGED <<status, handle, rect, updater_running, tasks>>

\* sync(Show(r)) with the banner elsewhere.
SyncMove(r) ==
  /\ status = "Live" /\ rect # r
  /\ rect' = r
  /\ pending_rect' = r
  /\ updater_running' = TRUE
  /\ \/ updater_running /\ UNCHANGED tasks
     \/ ~updater_running /\ spawn(UpdaterTask(handle))
  /\ UNCHANGED <<status, handle>>

\* Variant: the slot is idle before the banner is gone.
SyncHideEarly ==
  /\ status = "Live"
  /\ status' = "Idle" /\ handle' = None /\ rect' = None
  /\ spawn(HideTask(handle))
  /\ UNCHANGED <<pending_rect, updater_running>>

\* sync(Hide) with a banner; in every other state it does nothing.
SyncHide ==
  /\ status = "Live"
  /\ status' = "Hiding" /\ handle' = None /\ rect' = None
  /\ spawn(HideTask(handle))
  /\ UNCHANGED <<pending_rect, updater_running>>

\* A frame that finds something to do.
Frame ==
  /\ \/ target # Hide /\ (SyncShow(target) \/ SyncLoading(target) \/ SyncMove(target))
     \/ target = Hide /\ SyncHide
  /\ UNCHANGED <<uiVars, last_error, platformVars>>
-----------------------------------------------------------------------------
(* The tasks.                                                              *)

Become(i, task) == tasks' = [tasks EXCEPT ![i] = task]
At(i, kind, at) == tasks[i] # None /\ tasks[i].kind = kind /\ tasks[i].at = at

\* spawn_show, with a banner: it is the slot's, and what was asked for
\* meanwhile needs an updater.
FinishShow(i) ==
  /\ At(i, "show", "ok")
  /\ status' = "Live" /\ handle' = tasks[i].banner /\ rect' = tasks[i].rect
  /\ last_error' = FALSE
  /\ \/ /\ pending_rect # None /\ ~updater_running
        /\ updater_running' = TRUE
        /\ Become(i, UpdaterTask(tasks[i].banner))
     \/ /\ pending_rect = None \/ updater_running
        /\ Become(i, None)
        /\ UNCHANGED updater_running
  /\ UNCHANGED <<uiVars, pending_rect, platformVars>>

\* spawn_show, without one.
FailShow(i) ==
  /\ At(i, "show", "err")
  /\ last_error' = TRUE
  /\ status' = "Idle"
  /\ pending_rect' = None
  /\ Become(i, None)
  /\ UNCHANGED <<uiVars, handle, rect, updater_running, platformVars>>

\* spawn_hide.
FinishHide(i) ==
  /\ At(i, "hide", "ok") \/ At(i, "hide", "err")
  /\ last_error' = (tasks[i].at = "err")
  /\ status' = "Idle"
  /\ Become(i, None)
  /\ UNCHANGED <<uiVars, handle, rect, pending_rect, updater_running, platformVars>>

\* run_updater_loop takes the latest rectangle, or ends.
TakePending(i) ==
  /\ At(i, "updater", "take")
  /\ \/ /\ pending_rect = None
        /\ updater_running' = FALSE
        /\ Become(i, None)
        /\ UNCHANGED pending_rect
     \/ /\ pending_rect # None
        /\ Become(i, [tasks[i] EXCEPT !.at = "call", !.rect = pending_rect])
        /\ pending_rect' = None
        /\ UNCHANGED updater_running
  /\ UNCHANGED <<uiVars, status, handle, rect, last_error, platformVars>>

\* ... and goes on when it was sent, or gives up.
FinishUpdate(i) ==
  /\ \/ /\ At(i, "updater", "ok")
        /\ last_error' = FALSE
        /\ Become(i, [tasks[i] EXCEPT !.at = "take", !.rect = None])
        /\ UNCHANGED <<pending_rect, updater_running>>
     \/ /\ At(i, "updater", "err")
        /\ last_error' = TRUE
        /\ pending_rect' = None
        /\ updater_running' = FALSE
        /\ Become(i, None)
  /\ UNCHANGED <<uiVars, status, handle, rect, platformVars>>
-----------------------------------------------------------------------------
(* The platform.                                                           *)

\* show_banner creates a banner, or there is no ad.
PlatformShows(i) ==
  /\ At(i, "show", "call")
  /\ \/ /\ shown < MaxBanners
        /\ shown' = shown + 1
        /\ banners' = [banners EXCEPT ![shown'] = tasks[i].rect]
        /\ Become(i, [tasks[i] EXCEPT !.at = "ok", !.banner = shown'])
     \/ /\ Become(i, [tasks[i] EXCEPT !.at = "err"])
        /\ UNCHANGED platformVars
  /\ UNCHANGED <<uiVars, slotVars>>

\* update_banner moves it, or does nothing if it is not there, with or without
\* an error.
PlatformMoves(i) ==
  /\ At(i, "updater", "call")
  /\ LET b == tasks[i].banner IN
     \/ /\ banners[b] # None
        /\ banners' = [banners EXCEPT ![b] = tasks[i].rect]
        /\ Become(i, [tasks[i] EXCEPT !.at = "ok"])
     \/ /\ banners[b] = None
        /\ \E at \in {"ok", "err"} : Become(i, [tasks[i] EXCEPT !.at = at])
        /\ UNCHANGED banners
  /\ UNCHANGED <<uiVars, slotVars, shown>>

\* hide_banner removes it, also when it reports an error afterwards.
PlatformHides(i) ==
  /\ At(i, "hide", "call")
  /\ banners' = [banners EXCEPT ![tasks[i].banner] = None]
  /\ \E at \in {"ok", "err"} : Become(i, [tasks[i] EXCEPT !.at = at])
  /\ UNCHANGED <<uiVars, slotVars, shown>>
-----------------------------------------------------------------------------
TaskStep(i) ==
  \/ FinishShow(i) \/ FailShow(i) \/ FinishHide(i) \/ TakePending(i) \/ FinishUpdate(i)
  \/ PlatformShows(i) \/ PlatformMoves(i) \/ PlatformHides(i)

Next ==
  \/ \E t \in Rects \cup {Hide} : Retarget(t)
  \/ Frame
  \/ \E i \in Tasks : TaskStep(i)

Spec == Init /\ [][Next]_vars

\* Tasks run, the platform answers, and there is always another frame.
FairSpec == Spec /\ WF_vars(Frame) /\ \A i \in Tasks : WF_vars(TaskStep(i))
-----------------------------------------------------------------------------
(* Properties.                                                             *)

Alive(kind) == {i \in Tasks : tasks[i] # None /\ tasks[i].kind = kind}

\* A slot never has two banners on the screen, however its tasks interleave.
OneBanner == Cardinality({b \in Banners : banners[b] # None}) <= 1

\* There is one updater at most, so that an older rectangle cannot overtake a
\* newer one.  (tests/admob_slot.rs: "rapid_rect_changes_coalesce_to_the_
\* latest_via_one_updater_task")
OneUpdater == Cardinality(Alive("updater")) <= 1

\* A rectangle is not left pending beside a banner without an updater to send
\* it.
PendingIsServed == status = "Live" /\ pending_rect # None => Alive("updater") # {}

\* The slot gets out of its intermediate states, with an ad or without.
\* (FairSpec)
SlotSettles == status \in {"Loading", "Hiding"} ~> status \in {"Idle", "Live"}

\* An interface that has settled on hiding the banner gets it hidden, even if
\* it was loading, moving or coming back at the time.  (FairSpec)
HiddenInTheEnd ==
  <>[](target = Hide) => <>[](\A b \in Banners : banners[b] = None)

\* When nothing is left to do, the banner is where the interface wants it,
\* unless an error is on record.  (tests/admob_slot.rs: "coalesced update
\* should carry latest rect only")
LatestRectShown ==
  /\ \A i \in Tasks : tasks[i] = None
  /\ status = "Live" /\ target = rect /\ ~last_error
  => banners[handle] = target

\* The variables have their types, and one updater serves what is pending.
UpdatesServed == TypeOK /\ OneUpdater /\ PendingIsServed

\* The slot ends up where the interface wants it, whatever the platform
\* answers meanwhile.  (FairSpec)
SlotFollows == SlotSettles /\ HiddenInTheEnd
=============================================================================
