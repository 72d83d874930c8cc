--------------------------- MODULE ServiceLifecycle ---------------------------
(***************************************************************************)
(* The adapter #[istmo::service] generates (crates/macros/src/service.rs)  *)
(* around a service, and the ServiceContext its body is given              *)
(* (crates/plugins/src/service.rs).  WakeLocks has the locks it may take.  *)
(*                                                                         *)
(* on_start and on_stop are hosted calls, each on a thread of its own.     *)
(* on_start spawns a watcher of its cancellation token and a thread for    *)
(* the body, and only then takes the adapter's mutex, behind which the     *)
(* previous service is told to stop and joined.  on_stop takes the state   *)
(* out of the mutex and joins outside it.                                  *)
(***************************************************************************)
EXTENDS Naturals, FiniteSets

CONSTANTS
  Starts,    \* calls of on_start; each names the service it starts
  Stops,     \* calls of on_stop
  Waiters,   \* tasks of one body that await stopped()
  MaxDrops,  \* bound on the calls of on_start that are cancelled
  None

ServiceLifecycleAssumption ==
  /\ Starts \cap Stops = {}
  /\ None \notin Starts \cup Stops
  /\ MaxDrops \in Nat

Calls == Starts \cup Stops

VARIABLES
  state,    \* __state: the service that can be stopped
  guard,    \* who holds the mutex of state across steps
  pc,       \* how far the dispatch of a call is
  taken,    \* the service a call has taken out of state
  tripped,  \* tokens that are cancelled
  dropped,  \* calls of on_start whose caller has cancelled them
  answer,   \* what the caller of on_start gets
  stop,     \* the stop channel holds its one message
  watcher,  \* the thread that turns a cancelled token into a stop message
  body,     \* the thread of the service
  task,     \* its tasks, while the body runs
  stopped   \* stopped_flag of its context

callVars == <<state, guard, pc, taken, dropped, answer>>
bodyVars == <<body, task, stopped>>
vars == <<callVars, tripped, stop, watcher, bodyVars>>

TypeOK ==
  /\ state \in Starts \cup {None} /\ guard \in Starts \cup {None}
  /\ pc \in [Calls -> {"idle", "spawned", "signal", "cancel", "join", "hook",
                       "stored", "done"}]
  /\ taken \in [Calls -> Starts \cup {None}]
  /\ tripped \subseteq Starts /\ stop \subseteq Starts /\ stopped \subseteq Starts
  /\ dropped \subseteq Starts
  /\ answer \in [Starts -> {"none", "ok", "error", "discarded"}]
  /\ watcher \in [Starts -> {"none", "waits", "ended"}]
  /\ body \in [Starts -> {"none", "runs", "ended"}]
  /\ task \in [Starts \X Waiters -> {"works", "waits", "told", "woken"}]

Init ==
  /\ state = None /\ guard = None
  /\ pc = [k \in Calls |-> "idle"] /\ taken = [k \in Calls |-> None]
  /\ tripped = {} /\ dropped = {} /\ stop = {} /\ stopped = {}
  /\ answer = [s \in Starts |-> "none"]
  /\ watcher = [s \in Starts |-> "none"]
  /\ body = [s \in Starts |-> "none"]
  /\ task = [t \in Starts \X Waiters |-> "works"]
-----------------------------------------------------------------------------
(* StopNotifier and CancelToken. *)

\* try_send on a channel of one: a second message is dropped, and so is one for
\* a body whose context is gone.
signal(s) == stop' = IF body[s] = "runs" THEN stop \cup {s} ELSE stop

cancelToken(s) == tripped' = tripped \cup {s}
-----------------------------------------------------------------------------
(* on_start and on_stop. *)

\* A payload that does not decode, or no runtime: nothing has happened yet.
OnStartRefused(s) ==
  /\ pc[s] = "idle"
  /\ pc' = [pc EXCEPT ![s] = "done"]
  /\ answer' = [answer EXCEPT ![s] = "error"]
  /\ UNCHANGED <<state, guard, taken, dropped, tripped, stop, watcher, bodyVars>>

\* The watcher and the body run before the previous service is looked at.
OnStart(s) ==
  /\ pc[s] = "idle"
  /\ pc' = [pc EXCEPT ![s] = "spawned"]
  /\ watcher' = [watcher EXCEPT ![s] = "waits"]
  /\ body' = [body EXCEPT ![s] = "runs"]
  /\ UNCHANGED <<state, guard, taken, dropped, answer, tripped, stop, task, stopped>>

\* With no previous service the mutex is held for this step alone.
LockState(s) ==
  /\ pc[s] = "spawned" /\ guard = None
  /\ IF state = None
     THEN /\ state' = s
          /\ pc' = [pc EXCEPT ![s] = "stored"]
          /\ UNCHANGED <<guard, taken>>
     ELSE /\ guard' = s
          /\ taken' = [taken EXCEPT ![s] = state]
          /\ state' = None
          /\ pc' = [pc EXCEPT ![s] = "signal"]
  /\ UNCHANGED <<dropped, answer, tripped, stop, watcher, bodyVars>>

OnStop(p) ==
  /\ pc[p] = "idle" /\ guard = None
  /\ taken' = [taken EXCEPT ![p] = state]
  /\ state' = None
  /\ pc' = [pc EXCEPT ![p] = IF state = None THEN "hook" ELSE "signal"]
  /\ UNCHANGED <<guard, dropped, answer, tripped, stop, watcher, bodyVars>>

\* Both then tell the service they took, first through its channel ...
SignalTaken(k) ==
  /\ pc[k] = "signal"
  /\ signal(taken[k])
  /\ pc' = [pc EXCEPT ![k] = "cancel"]
  /\ UNCHANGED <<state, guard, taken, dropped, answer, tripped, watcher, bodyVars>>

\* ... then through the token of the call that started it.
CancelTaken(k) ==
  /\ pc[k] = "cancel"
  /\ cancelToken(taken[k])
  /\ pc' = [pc EXCEPT ![k] = "join"]
  /\ UNCHANGED <<state, guard, taken, dropped, answer, stop, watcher, bodyVars>>

\* Variant: the new service is stored without waiting for the previous one.
JoinTakenSkipped(k) ==
  /\ pc[k] = "join"
  /\ IF k \in Starts
     THEN /\ state' = k /\ guard' = None
          /\ pc' = [pc EXCEPT ![k] = "stored"]
     ELSE /\ body[taken[k]] = "ended"
          /\ pc' = [pc EXCEPT ![k] = "hook"]
          /\ UNCHANGED <<state, guard>>
  /\ UNCHANGED <<taken, dropped, answer, tripped, stop, watcher, bodyVars>>

\* on_start joins behind the mutex and stores itself, on_stop goes on to the hook.
JoinTaken(k) ==
  /\ pc[k] = "join" /\ body[taken[k]] = "ended"
  /\ IF k \in Starts
     THEN /\ state' = k /\ guard' = None
          /\ pc' = [pc EXCEPT ![k] = "stored"]
     ELSE /\ pc' = [pc EXCEPT ![k] = "hook"]
          /\ UNCHANGED <<state, guard>>
  /\ UNCHANGED <<taken, dropped, answer, tripped, stop, watcher, bodyVars>>

\* The service's own on_stop, then the answer.
RunHook(p) ==
  /\ pc[p] = "hook"
  /\ pc' = [pc EXCEPT ![p] = "done"]
  /\ UNCHANGED <<state, guard, taken, dropped, answer, tripped, stop, watcher, bodyVars>>

\* The runtime discards the answer of a call whose token is cancelled by now.
Respond(s) ==
  /\ pc[s] = "stored"
  /\ pc' = [pc EXCEPT ![s] = "done"]
  /\ answer' = [answer EXCEPT ![s] = IF s \in tripped THEN "discarded" ELSE "ok"]
  /\ UNCHANGED <<state, guard, taken, dropped, tripped, stop, watcher, bodyVars>>

\* A Cancel for a call of on_start that is not answered yet.
CancelStart(s) ==
  /\ pc[s] \in {"spawned", "signal", "cancel", "join", "stored"}
  /\ s \notin dropped /\ Cardinality(dropped) < MaxDrops
  /\ dropped' = dropped \cup {s}
  /\ cancelToken(s)
  /\ UNCHANGED <<state, guard, pc, taken, answer, stop, watcher, bodyVars>>

\* Variant: the watcher ends without a message.
WatchSilently(s) ==
  /\ watcher[s] = "waits" /\ s \in tripped
  /\ watcher' = [watcher EXCEPT ![s] = "ended"]
  /\ UNCHANGED <<callVars, tripped, stop, bodyVars>>
-----------------------------------------------------------------------------
(* The body and its context. *)

\* The watcher thread turns a cancelled token into a stop message, and ends.
Watch(s) ==
  /\ watcher[s] = "waits" /\ s \in tripped
  /\ watcher' = [watcher EXCEPT ![s] = "ended"]
  /\ signal(s)
  /\ UNCHANGED <<callVars, tripped, bodyVars>>

Told(s, w, how) ==
  /\ stopped' = stopped \cup {s}
  /\ task' = [task EXCEPT ![<<s, w>>] = how]

\* Neither sender of the channel is dropped while the body runs.
is_stopped(s) == s \in stopped \/ s \in tripped \/ s \in stop

\* stopped(), or a loop over is_stopped(): a task that asks again later works on.
AsksStopped(s, w) ==
  /\ body[s] = "runs" /\ task[<<s, w>>] = "works"
  /\ IF is_stopped(s) THEN Told(s, w, "told")
     ELSE /\ task' = [task EXCEPT ![<<s, w>>] = "waits"]
          /\ UNCHANGED stopped
  /\ UNCHANGED <<callVars, tripped, stop, watcher, body>>

\* Only a message wakes a task that waits, and it wakes one.
StopReceived(s, w) ==
  /\ body[s] = "runs" /\ task[<<s, w>>] = "waits"
  /\ s \in stop
  /\ stop' = stop \ {s}
  /\ Told(s, w, "woken")
  /\ UNCHANGED <<callVars, tripped, watcher, body>>

\* A body ends once its tasks were told to stop, or earlier, by itself; its
\* context goes with it.
BodyEnds(s) ==
  /\ body[s] = "runs"
  /\ body' = [body EXCEPT ![s] = "ended"]
  /\ stop' = stop \ {s}
  /\ task' = [t \in Starts \X Waiters |-> IF t[1] = s THEN "works" ELSE task[t]]
  /\ stopped' = stopped \ {s}
  /\ UNCHANGED <<callVars, tripped, watcher>>

AllTold(s) == \A w \in Waiters : task[<<s, w>>] \in {"told", "woken"}
-----------------------------------------------------------------------------
Serve(k) == SignalTaken(k) \/ CancelTaken(k) \/ JoinTaken(k)
StartGoesOn(s) == LockState(s) \/ Respond(s)

Next ==
  \/ \E s \in Starts : OnStart(s) \/ OnStartRefused(s) \/ CancelStart(s)
                       \/ StartGoesOn(s) \/ Watch(s)
  \/ \E p \in Stops : OnStop(p) \/ RunHook(p)
  \/ \E k \in Calls : Serve(k)
  \/ \E s \in Starts, w \in Waiters : AsksStopped(s, w) \/ StopReceived(s, w)
  \/ \E s \in Starts : BodyEnds(s)

\* The threads of the adapter run, a mutex is handed on, and a body asks whether
\* it is to stop and ends when each of its tasks was told.  Nobody has to start,
\* stop or cancel anything.
GoesOn ==
  \/ \E s \in Starts : StartGoesOn(s) \/ Watch(s) \/ (AllTold(s) /\ BodyEnds(s))
  \/ \E p \in Stops : RunHook(p)
  \/ \E k \in Calls : Serve(k)
  \/ \E s \in Starts, w \in Waiters : AsksStopped(s, w) \/ StopReceived(s, w)

\* Of one call or service each of these steps is taken once: none can be put off
\* for ever by the others, and one condition does for all.
Fairness == WF_vars(GoesOn)

Spec == Init /\ [][Next]_vars /\ Fairness
-----------------------------------------------------------------------------
(* What holds. *)

Serving(k) == pc[k] \in {"signal", "cancel", "join"}

\* No body is out of reach: it is stored, its on_start is still going to store
\* it, or somebody who took it is about to join it.  (A state overwritten or
\* taken without a join would leave a thread nobody can stop.)
BodiesOwned ==
  \A s \in Starts :
    body[s] = "runs" =>
      \/ s = state
      \/ pc[s] = "spawned" \/ Serving(s)
      \/ \E k \in Calls : taken[k] = s /\ Serving(k)

\* A body is told to stop, and the answer of its on_start thrown away, only when
\* its caller cancelled it or somebody took it out of the state.
StoppedIfAsked ==
  \A s \in Starts :
    (s \in stopped \cup stop \cup tripped \/ answer[s] = "discarded") =>
      s \in dropped \/ \E k \in Calls : taken[k] = s

\* Who took a service goes past the join only when its body has ended.
TakenHasEnded ==
  \A k \in Calls :
    (taken[k] # None /\ ~Serving(k)) =>
      body[taken[k]] = "ended"

\* Two calls never take the same service.
TakenOnce ==
  \A j, k \in Calls : (taken[j] # None /\ taken[j] = taken[k]) => j = k

StopsAreExact == StoppedIfAsked /\ TakenHasEnded /\ TakenOnce

\* The message woke one task, and another that waited as well has none to come.
Unheard(s) ==
  /\ body[s] = "runs" /\ s \notin stop
  /\ \E w \in Waiters : task[<<s, w>>] = "woken"
  /\ \E w \in Waiters : task[<<s, w>>] = "waits"

Joined(s) == \E k \in Calls : pc[k] = "join" /\ taken[k] = s

\* A service told to stop ends, whichever of channel and token its tasks listen to,
\* unless two of them waited at once and one was woken alone.  Every on_start and
\* on_stop that was called comes to its end, unless such a service is joined, behind
\* the mutex or not, and never ends.
ServicesSettle ==
  /\ \A s \in Starts :
       []<>(s \in tripped \cup stop => body[s] = "ended") \/ <>[]Unheard(s)
  /\ \/ []<>(\A k \in Calls : pc[k] \in {"idle", "done"})
     \/ <>[](\E s \in Starts : Unheard(s) /\ Joined(s))
-----------------------------------------------------------------------------
(* What a reader of the documentation would expect, and does not hold.     *)

\* docs/.../cancellation.md:143: a subsequent on_start cancels the previous
\* instance cleanly.  The new body runs before the old one has ended.
OneBody == Cardinality({s \in Starts : body[s] = "runs"}) <= 1

\* An on_start whose caller has not cancelled it is answered.  A second on_start,
\* or an on_stop, that takes the service before the answer is sent has it discarded.
AnsweredUnlessCancelled ==
  \A s \in Starts : answer[s] = "discarded" => s \in dropped

\* docs/.../cancellation.md:139: stopped() resolves when the service is stopped or its
\* call cancelled.  With the watcher gone nothing more is sent: a task waits, the body
\* does not end, and who joins it holds, in on_start, the mutex of all later calls.
StoppedResolves ==
  \A s \in Starts : watcher[s] = "ended" /\ Joined(s) => ~Unheard(s)
=============================================================================
