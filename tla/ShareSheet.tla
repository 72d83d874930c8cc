------------------------------ MODULE ShareSheet ------------------------------
(***************************************************************************)
(* The sending half of the share plugin (plugins/share): calls of share()  *)
(* that check a request, stage its files and put up the platform's share   *)
(* sheet, and what becomes of them while the user, the platform and the    *)
(* callers act.  Windows drives the sheet by messages to a window it has   *)
(* subclassed, macOS by closures on the main queue, iOS by a task on the   *)
(* main actor, Android by an activity that is started for a result.        *)
(* "windows10" is a build that cannot tell that a sheet was dismissed.     *)
(*                                                                         *)
(* One UI thread handles what is queued; each call is a task of its own.   *)
(***************************************************************************)
EXTENDS Naturals, Sequences, FiniteSets

CONSTANTS
  Calls,
  Handles,    \* native windows: Windows' HWNDs
  Platforms,  \* of those named in Desktop and Mobile
  MaxDrops,   \* bound on the calls whose caller goes
  Reuse,      \* Windows gives the handle of a window that is gone to a new one
  None

Windows == {"windows", "windows10"}
Desktop == Windows \cup {"macos", "linux"}
Mobile == {"ios", "android"}

\* Platforms that cannot send, and those whose sheets can be dismissed.
Unsupported == {"linux"}
Dismissing == {"macos", "ios"}

Requests == {"empty", "unnamed", "link", "path", "bytes"}
Outcomes == {"shared", "chosen", "dismissed", "unknown"}
Errors == {"unsupported", "invalid", "not_found", "no_presenter", "busy", "io", "backend"}
Answers == Outcomes \cup Errors \cup {"cancelled"}

ShareSheetAssumption ==
  /\ Reuse \in BOOLEAN /\ MaxDrops \in Nat /\ Platforms \subseteq Desktop \cup Mobile
  /\ None \notin Calls \cup Handles \cup Answers \cup {"closed", "result"}

VARIABLES
  platform,
  request, call, answer,  \* what a call shares, where it is and how it ended
  cancelled,              \* calls whose caller has gone
  busy,                   \* a sheet is said to be open
  window, registered,     \* native windows, and those the registry knows
  hooked, subclassed,     \* Windows: Hooks.hooked, and who has the subclass procedure
  target,                 \* the window of a call
  staged,                 \* calls whose in-memory file is on disk
  jobs,                   \* Windows: the table of jobs
  queue,                  \* what the UI thread has yet to handle
  sheet,                  \* what is on the screen for a call
  reply,                  \* the channel, or continuation, a call waits on
  active,                 \* macOS: ACTIVE; Android: pendingResult
  timers,                 \* macOS: timeouts of silent services
  chosen, late,           \* Android: the reported target, and reports on their way
  results, taken,         \* Android: results to deliver, the continuation being resumed
  did                     \* what the user did on the sheet of a call

callVars == <<request, call, answer, cancelled, busy>>
windowVars == <<window, registered, hooked, subclassed, target>>
screenVars == <<sheet, reply, active, did>>
androidVars == <<chosen, late, results, taken>>
vars == <<platform, callVars, windowVars, staged, jobs, queue, screenVars, timers, androidVars>>

Messages == [kind : {"show", "close"}, call : Calls]

TypeOK ==
  /\ platform \in Platforms /\ busy \in BOOLEAN
  /\ \A c \in Calls :
       /\ request[c] \in Requests \cup {None} /\ answer[c] \in Answers \cup {None}
       /\ call[c] \in {"new", "staging", "present", "waiting", "closing", "grace", "cancelling", "done"}
       /\ (answer[c] # None) <=> (call[c] = "done")
       /\ target[c] \in Handles \cup {None} /\ sheet[c] \in {"none", "up", "chosen", "left"}
       /\ reply[c] \in Answers \cup {None, "closed", "result"}
       /\ did[c] \subseteq {"shared", "chosen", "left"}
  /\ \A h \in Handles : window[h] \in {"none", "open", "gone"}
  /\ registered \subseteq Handles /\ hooked \subseteq Handles
  /\ subclassed \subseteq {h \in hooked : window[h] = "open"}
  /\ cancelled \cup staged \cup jobs \cup timers \cup late \cup results \subseteq Calls
  /\ {active, chosen, taken} \subseteq Calls \cup {None}
  /\ queue \in Seq(Messages)

Init ==
  /\ platform \in Platforms
  /\ request = [c \in Calls |-> None] /\ call = [c \in Calls |-> "new"]
  /\ answer = [c \in Calls |-> None] /\ cancelled = {} /\ busy = FALSE
  /\ window = [h \in Handles |-> "none"] /\ registered = {} /\ hooked = {} /\ subclassed = {}
  /\ target = [c \in Calls |-> None] /\ staged = {} /\ jobs = {} /\ queue = <<>>
  /\ sheet = [c \in Calls |-> "none"] /\ reply = [c \in Calls |-> None]
  /\ active = None /\ timers = {} /\ chosen = None /\ late = {} /\ results = {} /\ taken = None
  /\ did = [c \in Calls |-> {}]
-----------------------------------------------------------------------------
(* The application's windows.  On macOS it keeps a window for as long as   *)
(* it is registered, which show() relies on.                               *)

windowsOnly == UNCHANGED <<platform, callVars, target, staged, jobs, screenVars, timers, androidVars>>

OpenWindow(h) ==
  /\ platform \in Desktop /\ window[h] \in (IF Reuse THEN {"none", "gone"} ELSE {"none"})
  /\ window' = [window EXCEPT ![h] = "open"]
  /\ UNCHANGED <<registered, hooked, subclassed, queue>> /\ windowsOnly

\* A handle in the table is taken for subclassed.  Registered from a thread
\* that is not the window's, it is refused, and the registry leaves it out.
Register(h) ==
  /\ platform \in Desktop /\ window[h] = "open"
  /\ IF platform \notin Windows \/ h \in hooked
       THEN registered' = registered \cup {h} /\ UNCHANGED <<hooked, subclassed>>
       ELSE \/ /\ registered' = registered \cup {h}
               /\ hooked' = hooked \cup {h} /\ subclassed' = subclassed \cup {h}
            \/ registered' = registered \ {h} /\ UNCHANGED <<hooked, subclassed>>
  /\ UNCHANGED <<window, queue>> /\ windowsOnly

\* The hook stays.
Unregister(h) ==
  /\ h \in registered /\ registered' = registered \ {h}
  /\ UNCHANGED <<window, hooked, subclassed, queue>> /\ windowsOnly

\* WM_NCDESTROY takes the subclass procedure away, not the entry in hooked, for
\* which there will be none again: what was posted to the window finds nobody.
Destroy(h) ==
  /\ platform \in Windows /\ window[h] = "open"
  /\ window' = [window EXCEPT ![h] = "gone"] /\ subclassed' = subclassed \ {h}
  /\ UNCHANGED <<registered, hooked, queue>> /\ windowsOnly
-----------------------------------------------------------------------------
(* A call, up to the sheet.                                                *)

Goes(c, step) == call' = [call EXCEPT ![c] = step] /\ UNCHANGED answer
Ends(c, with) == call' = [call EXCEPT ![c] = "done"] /\ answer' = [answer EXCEPT ![c] = with]

\* The guard is dropped with the call.
Returns(c, with) == Ends(c, with) /\ busy' = FALSE

nothingShown == UNCHANGED <<windowVars, jobs, queue, screenVars, timers, androidVars>>

\* validate() of desktop; the phones call an unnamed file "shared".
Invalid == IF platform \in Desktop THEN {"empty", "unnamed"} ELSE {"empty"}

Start(c) ==
  /\ call[c] = "new"
  /\ \E r \in Requests :
       /\ request' = [request EXCEPT ![c] = r]
       /\ CASE r \in Invalid -> Ends(c, "invalid") /\ UNCHANGED busy
            [] r \notin Invalid /\ platform \in Unsupported -> Ends(c, "unsupported") /\ UNCHANGED busy
            [] r \notin Invalid /\ platform \notin Unsupported /\ busy -> Ends(c, "busy") /\ UNCHANGED busy
            [] OTHER -> Goes(c, "staging") /\ busy' = TRUE
  /\ UNCHANGED <<platform, cancelled, staged>> /\ nothingShown

resolve_window == IF platform \in Desktop THEN registered ELSE {None}

\* A path has to be a file; bytes are written to one.
stage(c) ==
  \/ request[c] = "path" /\ Returns(c, "not_found") /\ UNCHANGED staged
  \/ request[c] \in {"bytes", "unnamed"} /\ Returns(c, "io") /\ UNCHANGED staged
  \/ /\ Goes(c, "present") /\ UNCHANGED busy
     /\ staged' = IF request[c] \in {"bytes", "unnamed"} THEN staged \cup {c} ELSE staged

Stage(c) ==
  /\ call[c] = "staging"
  /\ \/ resolve_window = {} /\ Returns(c, "no_presenter") /\ UNCHANGED <<staged, target>>
     \/ \E w \in resolve_window : target' = [target EXCEPT ![c] = w] /\ stage(c)
  /\ UNCHANGED <<platform, request, cancelled, window, registered, hooked, subclassed, jobs, queue,
                 screenVars, timers, androidVars>>

\* Deletes what was staged for any share, the one on the screen included.
purge_staged ==
  /\ platform \in Desktop /\ staged # {} /\ staged' = {}
  /\ UNCHANGED <<platform, callVars>> /\ nothingShown

\* The caller drops the future of its call.
Cancel(c) ==
  /\ call[c] \notin {"new", "done"} /\ c \notin cancelled
  /\ Cardinality(cancelled) < MaxDrops
  /\ cancelled' = cancelled \cup {c}
  /\ UNCHANGED <<platform, request, call, answer, busy, staged>> /\ nothingShown

presents(c) ==
  call[c] = "present" /\ UNCHANGED <<platform, request, cancelled, windowVars, staged>>

post(m) == queue' = Append(queue, m)
Show(c) == [kind |-> "show", call |-> c]
Close(c) == [kind |-> "close", call |-> c]
HandlesOf(ps, kind) == platform \in ps /\ queue # <<>> /\ Head(queue).kind = kind /\ queue' = Tail(queue)

\* A file that was staged is there to be opened.
FilesThere(c) == request[c] \in {"bytes", "unnamed"} => c \in staged

\* The channel holds one answer; a send waits for room, or for the receiver to go.
Sends(c, what) ==
  /\ call[c] = "done" \/ reply[c] = None
  /\ reply' = IF call[c] = "done" THEN reply ELSE [reply EXCEPT ![c] = what]

Screen(c, state) == sheet' = [sheet EXCEPT ![c] = state]
UserDid(c, what) == did' = [did EXCEPT ![c] = @ \cup {what}]

Received(c, with) ==
  /\ Returns(c, with) /\ reply' = [reply EXCEPT ![c] = None]
  /\ UNCHANGED <<platform, request, cancelled, windowVars, staged, sheet, did, timers>>

Await(c) ==
  /\ platform # "android" /\ call[c] \in {"waiting", "closing"} /\ reply[c] # None
  /\ Received(c, IF reply[c] = "closed" THEN "backend" ELSE reply[c])
  /\ UNCHANGED <<jobs, queue, active, androidVars>>

\* An answer that is there comes first.
until_cancelled(c) ==
  /\ platform \in Desktop /\ call[c] = "waiting" /\ c \in cancelled /\ reply[c] = None
  /\ Goes(c, "cancelling")
  /\ UNCHANGED <<platform, request, cancelled, busy, staged>> /\ nothingShown

\* Variant: the job stays in the table.
KeepJob(c) ==
  /\ platform \in Desktop /\ call[c] = "cancelling" /\ Received(c, "dismissed")
  /\ IF platform = "macos" THEN post(Close(c)) ELSE UNCHANGED queue
  /\ UNCHANGED <<jobs, active, androidVars>>

\* Windows takes the job back, macOS asks for the picker to be closed.
EndCancelled(c) ==
  /\ platform \in Desktop /\ call[c] = "cancelling" /\ Received(c, "dismissed")
  /\ IF platform = "macos" THEN post(Close(c)) /\ UNCHANGED jobs
                           ELSE jobs' = jobs \ {c} /\ UNCHANGED queue
  /\ UNCHANGED <<active, androidVars>>
-----------------------------------------------------------------------------
(* Windows.                                                                *)

\* A link has to parse.
prepare(c) == request[c] = "link" /\ Returns(c, "invalid") /\ UNCHANGED <<jobs, queue>>

present_windows(c) ==
  /\ platform \in Windows /\ presents(c)
  /\ IF target[c] \notin hooked
       THEN Returns(c, "no_presenter") /\ UNCHANGED <<jobs, queue>>
       ELSE \/ prepare(c)
            \/ Returns(c, "backend") /\ UNCHANGED <<jobs, queue>>
            \/ /\ window[target[c]] = "open"
               /\ Goes(c, "waiting") /\ jobs' = jobs \cup {c} /\ post(Show(c)) /\ UNCHANGED busy
  /\ UNCHANGED <<screenVars, timers, androidVars>>

\* Data are asked for while the sheet is put up; when they cannot be given,
\* whoever held the channel is gone.
show_windows(c) ==
  \/ Sends(c, "backend") /\ UNCHANGED sheet
  \/ Sends(c, "closed") /\ UNCHANGED sheet
  \/ /\ FilesThere(c) /\ Screen(c, "up")
     /\ IF platform = "windows10" THEN Sends(c, "unknown") ELSE UNCHANGED reply

\* The message finds its job, or nothing to do.
subclass_proc ==
  /\ HandlesOf(Windows, "show")
  /\ LET c == Head(queue).call IN
     IF target[c] \notin subclassed \/ c \notin jobs
       THEN UNCHANGED <<jobs, sheet, reply>>
       ELSE jobs' = jobs \ {c} /\ show_windows(c)
  /\ UNCHANGED <<platform, callVars, windowVars, staged, active, did, timers, androidVars>>

elsewhere == UNCHANGED <<platform, callVars, windowVars, staged, jobs, queue>>

ShareCompleted(c) ==
  /\ platform \in Windows /\ sheet[c] = "up"
  /\ Screen(c, "left") /\ UserDid(c, "shared") /\ Sends(c, "shared")
  /\ elsewhere /\ UNCHANGED <<active, timers, androidVars>>

ShareCanceled(c) ==
  /\ platform \in Windows /\ sheet[c] = "up"
  /\ Screen(c, "left") /\ UserDid(c, "left")
  /\ IF platform = "windows" THEN Sends(c, "dismissed") ELSE UNCHANGED reply
  /\ elsewhere /\ UNCHANGED <<active, timers, androidVars>>
-----------------------------------------------------------------------------
(* macOS.  The picker and its delegate live in ACTIVE; a delegate that is  *)
(* replaced there is gone, and hears nothing any more.                     *)

present_macos(c) ==
  /\ platform = "macos" /\ presents(c)
  /\ Goes(c, "waiting") /\ post(Show(c))
  /\ UNCHANGED <<busy, jobs, screenVars, timers, androidVars>>

\* A link that does not parse, a file that is not there any more.
build_items_fails(c) ==
  \/ request[c] = "link" /\ Sends(c, "invalid")
  \/ (request[c] = "path" \/ ~FilesThere(c)) /\ Sends(c, "not_found")

show_macos ==
  /\ HandlesOf({"macos"}, "show")
  /\ LET c == Head(queue).call IN
     \/ build_items_fails(c) /\ UNCHANGED <<sheet, active>>
     \/ FilesThere(c) /\ Screen(c, "up") /\ active' = c /\ UNCHANGED reply
  /\ UNCHANGED <<platform, callVars, windowVars, staged, jobs, did, timers, androidVars>>

finish(c, outcome) == Sends(c, outcome) /\ active' = None /\ Screen(c, "left")

\* Closes the picker that is up now; one whose service was chosen is closed already.
close_macos ==
  /\ HandlesOf({"macos"}, "close")
  /\ IF active # None /\ sheet[active] = "up"
       THEN finish(active, "dismissed") ELSE UNCHANGED <<reply, active, sheet>>
  /\ UNCHANGED <<platform, callVars, windowVars, staged, jobs, did, timers, androidVars>>

\* Variant: a service may be silent for ever.
ChooseUntimed(c) ==
  /\ platform = "macos" /\ active = c /\ sheet[c] = "up"
  /\ \/ UserDid(c, "chosen") /\ Screen(c, "chosen") /\ UNCHANGED <<reply, active>>
     \/ UserDid(c, "left") /\ finish(c, "dismissed")
  /\ elsewhere /\ UNCHANGED <<timers, androidVars>>

did_choose(c) ==
  /\ platform = "macos" /\ active = c /\ sheet[c] = "up"
  /\ \/ /\ UserDid(c, "chosen") /\ Screen(c, "chosen") /\ timers' = timers \cup {c}
        /\ UNCHANGED <<reply, active>>
     \/ UserDid(c, "left") /\ finish(c, "dismissed") /\ UNCHANGED timers
  /\ elsewhere /\ UNCHANGED androidVars

did_share(c) ==
  /\ platform = "macos" /\ active = c /\ sheet[c] = "chosen"
  /\ UserDid(c, "shared") /\ finish(c, "shared")
  /\ elsewhere /\ UNCHANGED <<timers, androidVars>>

\* The user backs out of the service, or the service fails.
did_fail(c) ==
  /\ platform = "macos" /\ active = c /\ sheet[c] = "chosen"
  /\ \/ UserDid(c, "left") /\ finish(c, "dismissed")
     \/ finish(c, "backend") /\ UNCHANGED did
  /\ elsewhere /\ UNCHANGED <<timers, androidVars>>

\* Variant: the timeout ends whatever sheet is up.
AnyGeneration(c) ==
  /\ c \in timers /\ timers' = timers \ {c}
  /\ IF active # None
       THEN finish(active, IF sheet[active] = "chosen" THEN "chosen" ELSE "unknown")
       ELSE UNCHANGED <<reply, active, sheet>>
  /\ elsewhere /\ UNCHANGED <<did, androidVars>>
\* The timeout is for the sheet of its generation.
schedule_service_timeout(c) ==
  /\ c \in timers /\ timers' = timers \ {c}
  /\ IF active = c THEN finish(c, "chosen") ELSE UNCHANGED <<reply, active, sheet>>
  /\ elsewhere /\ UNCHANGED <<did, androidVars>>
-----------------------------------------------------------------------------
(* iOS.  A task cancelled before it presents posts its dismissal and ends  *)
(* at once; the continuation is resumed once, by whoever comes first.      *)

once(c, what) == reply' = IF call[c] # "done" /\ reply[c] = None THEN [reply EXCEPT ![c] = what] ELSE reply

present_ios(c) ==
  /\ platform = "ios" /\ presents(c)
  /\ \/ request[c] = "link" /\ Returns(c, "invalid") /\ UNCHANGED <<queue, sheet, reply>>
     \/ Returns(c, "no_presenter") /\ UNCHANGED <<queue, sheet, reply>>
     \/ /\ c \notin cancelled /\ Goes(c, "waiting") /\ Screen(c, "up")
        /\ UNCHANGED <<busy, queue, reply>>
     \/ /\ c \in cancelled /\ Goes(c, "closing") /\ once(c, "dismissed") /\ post(Close(c))
        /\ UNCHANGED <<busy, sheet>>
  /\ UNCHANGED <<jobs, active, did, timers, androidVars>>

onCancel(c) ==
  /\ platform = "ios" /\ call[c] = "waiting" /\ c \in cancelled
  /\ Goes(c, "closing") /\ post(Close(c))
  /\ UNCHANGED <<platform, request, cancelled, busy, windowVars, staged, jobs, screenVars, timers, androidVars>>

dismiss ==
  /\ HandlesOf({"ios"}, "close")
  /\ LET c == Head(queue).call IN
     once(c, "dismissed") /\ IF sheet[c] = "up" THEN Screen(c, "left") ELSE UNCHANGED sheet
  /\ UNCHANGED <<platform, callVars, windowVars, staged, jobs, active, did, timers, androidVars>>

completionWithItemsHandler(c) ==
  /\ platform = "ios" /\ sheet[c] = "up" /\ Screen(c, "left")
  /\ \/ UserDid(c, "shared") /\ once(c, "shared")
     \/ UserDid(c, "left") /\ once(c, "dismissed")
     \/ UNCHANGED did /\ once(c, "backend")
  /\ elsewhere /\ UNCHANGED <<active, timers, androidVars>>
-----------------------------------------------------------------------------
(* Android.  The continuation is in a plain field that the task sets, the  *)
(* callback of the activity reads and clears, and a cancellation clears.   *)

\* A continuation that is cancelled already is forgotten before the launch.
present_android(c) ==
  /\ platform = "android" /\ presents(c) /\ chosen' = None
  /\ \/ active' = None /\ Returns(c, "backend") /\ UNCHANGED sheet
     \/ /\ Screen(c, "up") /\ UNCHANGED busy
        /\ IF c \in cancelled THEN active' = None /\ Goes(c, "cancelling")
                              ELSE active' = c /\ Goes(c, "waiting")
  /\ UNCHANGED <<jobs, queue, reply, did, timers, late, results, taken>>

\* The chooser is left, with or without a target.  Which target it was comes
\* as a broadcast, the result when the activity resumes.
LeaveChooser(c) ==
  /\ platform = "android" /\ sheet[c] = "up" /\ Screen(c, "left")
  /\ results' = results \cup {c}
  /\ \/ UserDid(c, "chosen") /\ late' = late \cup {c}
     \/ UserDid(c, "left") /\ UNCHANGED late
  /\ elsewhere /\ UNCHANGED <<reply, active, timers, chosen, taken>>

onReceive(c) ==
  /\ c \in late /\ late' = late \ {c} /\ chosen' = c
  /\ elsewhere /\ UNCHANGED <<screenVars, timers, results, taken>>

chooserResult(c) ==
  /\ c \in results /\ taken = None /\ results' = results \ {c} /\ taken' = active
  /\ elsewhere /\ UNCHANGED <<screenVars, timers, chosen, late>>

\* Resuming a continuation that was cancelled does nothing.
chooserResume ==
  /\ taken # None /\ taken' = None /\ active' = None
  /\ reply' = IF call[taken] = "waiting" THEN [reply EXCEPT ![taken] = "result"] ELSE reply
  /\ UNCHANGED <<platform, callVars, windowVars, staged, jobs, queue, sheet, did, timers, chosen, late, results>>

Resumed(c) ==
  /\ platform = "android" /\ call[c] = "waiting" /\ reply[c] = "result"
  /\ Goes(c, "grace") /\ reply' = [reply EXCEPT ![c] = None]
  /\ UNCHANGED <<platform, request, cancelled, busy, windowVars, staged, jobs, queue, sheet, active, did, timers, androidVars>>

\* The target is there, or half a second has passed.
awaitChosen(c) ==
  /\ call[c] = "grace" /\ Received(c, IF chosen = None THEN "unknown" ELSE "chosen")
  /\ UNCHANGED <<jobs, queue, active, androidVars>>

\* A coroutine that is cancelled ends where it waits.
cancelCoroutine(c) ==
  /\ platform = "android" /\ c \in cancelled
  /\ \/ call[c] \in {"staging", "grace"} /\ UNCHANGED active
     \/ call[c] = "waiting" /\ reply[c] = "result" /\ UNCHANGED active
     \/ call[c] = "waiting" /\ reply[c] = None /\ active' = None
  /\ Goes(c, "cancelling")
  /\ UNCHANGED <<platform, request, cancelled, busy, windowVars, staged, jobs, queue, sheet, reply, did, timers, androidVars>>

unlock(c) ==
  /\ platform = "android" /\ call[c] = "cancelling" /\ Received(c, "cancelled")
  /\ UNCHANGED <<jobs, queue, active, androidVars>>
-----------------------------------------------------------------------------
Present(c) == present_windows(c) \/ present_macos(c) \/ present_ios(c) \/ present_android(c)

\* What the code does once a call has begun.
Runs(c) ==
  \/ Stage(c) \/ Present(c) \/ Await(c) \/ until_cancelled(c) \/ EndCancelled(c) \/ onCancel(c)
  \/ Resumed(c) \/ awaitChosen(c) \/ cancelCoroutine(c) \/ unlock(c)

Handled == subclass_proc \/ show_macos \/ close_macos \/ dismiss \/ chooserResume

\* What the user and the platform do with a sheet.
Leaves(c) ==
  \/ ShareCompleted(c) \/ ShareCanceled(c) \/ did_choose(c)
  \/ completionWithItemsHandler(c) \/ LeaveChooser(c)

Next ==
  \/ \E h \in Handles : OpenWindow(h) \/ Register(h) \/ Unregister(h) \/ Destroy(h)
  \/ purge_staged \/ Handled
  \/ \E c \in Calls :
       \/ Start(c) \/ Cancel(c) \/ Runs(c) \/ Leaves(c) \/ did_share(c) \/ did_fail(c)
       \/ schedule_service_timeout(c) \/ onReceive(c) \/ chooserResult(c)

\* Tasks and the UI thread go on, timeouts pass, the activity resumes, and the
\* user leaves every sheet.
GoesOn ==
  \/ Handled
  \/ \E c \in Calls :
       Runs(c) \/ Leaves(c) \/ schedule_service_timeout(c) \/ chooserResult(c)

\* A call takes finitely many of these steps: none can be put off for ever by the
\* others, and one condition does for all.
Fairness == WF_vars(GoesOn)

Spec == Init /\ [][Next]_vars /\ Fairness
-----------------------------------------------------------------------------
\* Where a sheet can be dismissed there is one at a time, and one whose call
\* was answered is about to be closed.  macOS closes whatever picker is up, which
\* is that of the call that asked.
SheetsFollowCalls ==
  /\ TypeOK
  /\ platform \in Dismissing =>
       /\ \A c, d \in Calls : sheet[c] = "up" /\ sheet[d] = "up" => c = d
       /\ \A c \in Calls : sheet[c] = "up" /\ call[c] = "done" => \E i \in DOMAIN queue : queue[i] = Close(c)
  /\ platform = "macos" /\ active # None /\ sheet[active] = "up" /\ queue # <<>> /\ Head(queue).kind = "close"
       => active = Head(queue).call

\* A call is told what the user did on its own sheet: not on an earlier one that
\* was dropped, and not by the timeout of an earlier one.  Android's choosers
\* report to one place, where the target of an earlier one may arrive late.
OwnOutcome ==
  \A c \in Calls :
    /\ answer[c] = "shared" => "shared" \in did[c]
    /\ answer[c] = "chosen" /\ platform # "android" => "chosen" \in did[c]
    /\ answer[c] = "dismissed" => "left" \in did[c] \/ c \in cancelled
    /\ answer[c] = "unknown" => platform \in {"windows10", "android"}

\* No sheet appears for a call that was answered.  On macOS it may, to be closed
\* right after.
NoLateSheet ==
  [][\A c \in Calls : sheet'[c] = "up" /\ sheet[c] # "up" =>
       call[c] # "done" \/ platform = "macos"]_vars

\* On Android a chooser that outlives its call takes part in the next one.
Overlaps == platform = "android" /\ cancelled # {}

\* Again and again a time comes when every call that was begun has ended, if the
\* users leave their sheets: cancelled or not, shown or not, with a service that
\* never reports.  A window that is destroyed takes the job posted to it away.
Settles ==
  []<>(\A c \in Calls :
         \/ call[c] \in {"new", "done"} \/ Overlaps
         \/ target[c] # None /\ window[target[c]] = "gone")

\* What does not hold: one sheet at a time everywhere, as a dropped one stays where it
\* cannot be dismissed; the target of an earlier chooser is never reported; purging
\* spares the sheet that is up; and every call ends, as one may wait for a window that
\* is gone, or for a result that another chooser's callback has cleared.
OneSheet == \A c, d \in Calls : sheet[c] = "up" /\ sheet[d] = "up" => c = d
OwnTarget == \A c \in Calls : answer[c] = "chosen" => "chosen" \in did[c]
FilesStay == \A c \in Calls : sheet[c] = "up" /\ call[c] # "done" => FilesThere(c)
AlwaysSettles == []<>(\A c \in Calls : call[c] \in {"new", "done"})
=============================================================================
