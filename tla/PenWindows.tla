------------------------------ MODULE PenWindows ------------------------------
(***************************************************************************)
(* The registry of native windows (crates/window), its listeners, and the  *)
(* pen publisher among them (plugins/istmo-pen), which keeps a WindowState *)
(* with two channels per window id and binds it to the native window: in a *)
(* table keyed by the native window on Windows and macOS, by a pump thread *)
(* of its own on X11 and Wayland.  Pen clients take the receivers of the   *)
(* state their window has when they are created.                           *)
(*                                                                         *)
(* Every mutex is held for one step; a thread's remaining steps are its    *)
(* todo list, which the step at its head may extend.                       *)
(***************************************************************************)
EXTENDS Naturals, Sequences, FiniteSets, Functions

CONSTANTS
  Ids,        \* window ids
  NativesOf,  \* for each id the native windows it is registered with
  Threads,    \* threads of the app that use the registry
  PenClients, \* pen clients
  Targets,    \* "windows", "macos", "x11", "wayland"
  Overlap,    \* whether two threads may work on one id at a time
  MaxStates,  \* WindowStates that are ever made
  MaxOps,     \* operations of the app
  None

Natives == UNION {NativesOf[i] : i \in Ids}

PenWindowsAssumption ==
  /\ Overlap \in BOOLEAN /\ MaxStates \in Nat /\ MaxOps \in Nat
  /\ Ids \subseteq Nat /\ IsFiniteSet(Ids)
  /\ Targets \subseteq {"windows", "macos", "x11", "wayland"}
  /\ \A i, j \in Ids : i # j => NativesOf[i] \cap NativesOf[j] = {}
  /\ None \notin Natives /\ None \notin Ids /\ None \notin 1..MaxStates

Pen == "pen"      \* the listener that is the publisher
Other == "other"  \* any other, which may refuse a window

VARIABLES
  target,     \* the platform
  windows,    \* WindowRegistry::windows
  listeners,  \* WindowRegistry::listeners
  known,      \* the windows the other listener was told of and not told to forget
  states,     \* PenPublisher::windows
  made,       \* WindowStates made so far, numbered from 1
  bound,      \* the attachment of a state: the native window it is bound to
  entries,    \* the table of bindings, or the pumps
  hooked,     \* native windows that carry the subclass (Windows)
  taken,      \* receivers that were handed out: <<state, "events" or "hover">>
  client,     \* the receivers of a client
  todo,       \* what each thread still has to do
  ops,        \* operations the app has begun
  lost        \* states that were replaced or bound anew while they were bound

registryVars == <<windows, listeners, known>>
penVars == <<states, made, bound, entries, hooked, lost>>
clientVars == <<taken, client>>
vars == <<target, registryVars, penVars, clientVars, todo, ops>>

States == 1..MaxStates
Idle == \A t \in Threads : todo[t] = <<>>

TypeOK ==
  /\ target \in Targets
  /\ windows \in [Ids -> Natives \cup {None}]
  /\ listeners \in Seq({Pen, Other}) /\ known \subseteq Ids
  /\ states \in [Ids -> States \cup {None}]
  /\ made \in 0..MaxStates
  /\ bound \in [States -> Natives \cup {None}]
  /\ entries \in Seq(Natives \X States) /\ hooked \subseteq Natives
  /\ taken \subseteq States \X {"events", "hover"}
  /\ ops \in 0..MaxOps /\ lost \subseteq States

Init ==
  /\ target \in Targets
  /\ windows = [i \in Ids |-> None] /\ states = [i \in Ids |-> None]
  /\ listeners = <<>> /\ known = {}
  /\ made = 0 /\ bound = [s \in States |-> None]
  /\ entries = <<>> /\ hooked = {} /\ lost = {}
  /\ taken = {} /\ client = [c \in PenClients |-> [id |-> None, events |-> None, hover |-> None]]
  /\ todo = [t \in Threads |-> <<>>] /\ ops = 0
-----------------------------------------------------------------------------
(* Steps.  An offer carries the listeners that are told to forget the      *)
(* window when it is refused; None where a refusal is only reported.       *)

Step(do, i, n, l, back, s) ==
  [do |-> do, id |-> i, native |-> n, listener |-> l, back |-> back, state |-> s]

Unlist(i) == Step("remove", i, None, None, None, None)
OfferAll(i, n) == Step("offerAll", i, n, None, None, None)
Offer(l, i, n, back) == Step("offer", i, n, l, back, None)
Insert(i, n) == Step("insert", i, n, None, None, None)
Forget(l, i) == Step("forget", i, None, l, None, None)
Bind(i, n, back, s) == Step("bind", i, n, Pen, back, s)
Put(i, s) == Step("put", i, None, Pen, None, s)
Detach(i, s) == Step("detach", i, None, Pen, None, s)

ForgetAll(ls, i) == [k \in DOMAIN ls |-> Forget(ls[k], i)]
OffersTo(ls, i, n) == [k \in DOMAIN ls |-> Offer(ls[k], i, n, SubSeq(ls, 1, k - 1))]

Now(t, do) == todo[t] # <<>> /\ Head(todo[t]).do = do
Becomes(t, steps) == todo' = [todo EXCEPT ![t] = steps \o Tail(@)]

\* The positions in S from the first to the last.
Ascending(S) ==
  {f \in [1..Cardinality(S) -> S] :
     Range(f) = S /\ \A j, k \in DOMAIN f : j < k => f[j] < f[k]}

\* A refusal ends the registration and has the accepting listeners forget the
\* window, or goes on with the next window of a replay.
Refused(t) ==
  LET step == Head(todo[t]) IN
  IF step.back = None THEN Becomes(t, <<>>)
  ELSE todo' = [todo EXCEPT ![t] = ForgetAll(step.back, step.id)]
-----------------------------------------------------------------------------
(* The app's operations. *)

\* A replay that has not looked the windows up may be about any of them.
Touches(t, i) == \E k \in DOMAIN todo[t] : todo[t][k].id \in {i, None}

Begin(t, steps, on) ==
  /\ todo[t] = <<>> /\ ops < MaxOps
  /\ Overlap \/ \A u \in Threads : \A i \in on : ~Touches(u, i)
  /\ ops' = ops + 1
  /\ todo' = [todo EXCEPT ![t] = steps]

register_native(t, i, n) ==
  /\ Begin(t, <<Unlist(i), OfferAll(i, n)>>, {i})
  /\ UNCHANGED <<target, registryVars, penVars, clientVars>>

unregister(t, i) ==
  /\ Begin(t, <<Unlist(i)>>, {i})
  /\ UNCHANGED <<target, registryVars, penVars, clientVars>>

\* The listener is on the list before the windows it is replayed are looked up.
add_listener(t, l) ==
  /\ l \notin Range(listeners)
  /\ Begin(t, <<Step("replay", None, None, l, None, None)>>, Ids)
  /\ Overlap \/ Idle
  /\ listeners' = Append(listeners, l)
  /\ UNCHANGED <<target, windows, known, penVars, clientVars>>

\* register_window binds past the registry, for windows that are not in it.
register_window(t, i, n) ==
  /\ windows[i] = None
  /\ Begin(t, <<Offer(Pen, i, n, None)>>, {i})
  /\ UNCHANGED <<target, registryVars, penVars, clientVars>>

unregister_window(t, i) ==
  /\ windows[i] = None
  /\ Begin(t, <<Forget(Pen, i)>>, {i})
  /\ UNCHANGED <<target, registryVars, penVars, clientVars>>

register_window_id(t, i) ==
  /\ made < MaxStates
  /\ Begin(t, <<>>, {i})
  /\ made' = made + 1
  /\ states' = [states EXCEPT ![i] = made + 1]
  /\ lost' = IF states[i] = None \/ bound[states[i]] = None THEN lost ELSE lost \cup {states[i]}
  /\ UNCHANGED <<target, registryVars, bound, entries, hooked, clientVars>>
-----------------------------------------------------------------------------
(* The steps of the registry. *)

RemoveWindow(t) ==
  /\ Now(t, "remove")
  /\ LET i == Head(todo[t]).id IN
       /\ Becomes(t, IF windows[i] = None THEN <<>> ELSE ForgetAll(listeners, i))
       /\ windows' = [windows EXCEPT ![i] = None]
  /\ UNCHANGED <<target, listeners, known, penVars, clientVars, ops>>

OfferWindow(t) ==
  /\ Now(t, "offerAll")
  /\ LET step == Head(todo[t]) IN
       Becomes(t, OffersTo(listeners, step.id, step.native) \o <<Insert(step.id, step.native)>>)
  /\ UNCHANGED <<target, registryVars, penVars, clientVars, ops>>

InsertWindow(t) ==
  /\ Now(t, "insert")
  /\ LET step == Head(todo[t]) IN windows' = [windows EXCEPT ![step.id] = step.native]
  /\ Becomes(t, <<>>)
  /\ UNCHANGED <<target, listeners, known, penVars, clientVars, ops>>

Replay(t) ==
  /\ Now(t, "replay")
  /\ \E there \in Ascending({i \in Ids : windows[i] # None}) :
       Becomes(t, [k \in DOMAIN there |->
                     Offer(Head(todo[t]).listener, there[k], windows[there[k]], None)])
  /\ UNCHANGED <<target, registryVars, penVars, clientVars, ops>>

\* Another plugin takes the window, or refuses it.
OtherAnswers(t) ==
  /\ Now(t, "offer") /\ Head(todo[t]).listener = Other
  /\ \/ known' = known \cup {Head(todo[t]).id} /\ Becomes(t, <<>>)
     \/ Refused(t) /\ UNCHANGED known
  /\ UNCHANGED <<target, windows, listeners, penVars, clientVars, ops>>

OtherForgets(t) ==
  /\ Now(t, "forget") /\ Head(todo[t]).listener = Other
  /\ known' = known \ {Head(todo[t]).id}
  /\ Becomes(t, <<>>)
  /\ UNCHANGED <<target, windows, listeners, penVars, clientVars, ops>>
-----------------------------------------------------------------------------
(* The publisher: attach and unregister_window. *)

\* attach looks the state up, and makes one that nobody sees yet if there is none.
FindState(t) ==
  /\ Now(t, "offer") /\ Head(todo[t]).listener = Pen
  /\ LET step == Head(todo[t]) IN
       IF states[step.id] # None
       THEN /\ Becomes(t, <<Bind(step.id, step.native, step.back, states[step.id])>>)
            /\ UNCHANGED made
       ELSE /\ made < MaxStates /\ made' = made + 1
            /\ Becomes(t, <<Bind(step.id, step.native, step.back, made + 1)>>)
  /\ UNCHANGED <<target, registryVars, states, bound, entries, hooked, lost, clientVars, ops>>

\* Binding pushes an entry, and on Windows hooks the native window ...
Push(n, s) == entries' = Append(entries, <<n, s>>)

attach_hwnd(n, s) == target = "windows" /\ Push(n, s) /\ hooked' = hooked \cup {n}

\* ... where macOS has one monitor for all, and Linux starts a pump that is
\* nowhere told to end.
attach_view(n, s) == target = "macos" /\ Push(n, s) /\ UNCHANGED hooked

attach_wayland(n, s) == target = "wayland" /\ Push(n, s) /\ UNCHANGED hooked

attach_window(n, s) == target = "x11" /\ Push(n, s) /\ UNCHANGED hooked

\* The attachment of an earlier binding is overwritten and its entry stays.
BindNative(t) ==
  /\ Now(t, "bind")
  /\ LET step == Head(todo[t]) IN
       /\ \/ attach_hwnd(step.native, step.state) \/ attach_view(step.native, step.state)
          \/ attach_wayland(step.native, step.state) \/ attach_window(step.native, step.state)
       /\ bound' = [bound EXCEPT ![step.state] = step.native]
       /\ lost' = IF bound[step.state] = None THEN lost ELSE lost \cup {step.state}
       /\ Becomes(t, <<Put(step.id, step.state)>>)
  /\ UNCHANGED <<target, registryVars, states, made, clientVars, ops>>

\* Every entry of the native window goes, whichever state is in it.
Unbind(n) ==
  \E kept \in Ascending({k \in DOMAIN entries : entries[k][1] # n}) :
    entries' = [j \in DOMAIN kept |-> entries[kept[j]]]

\* SetWindowSubclass, the view's window or the connection fails: on Windows the
\* entry just pushed goes again, and with it every other of that window.
BindFails(t) ==
  /\ Now(t, "bind")
  /\ IF target = "windows" THEN Unbind(Head(todo[t]).native) ELSE UNCHANGED entries
  /\ lost' = IF bound[Head(todo[t]).state] = None THEN lost ELSE lost \cup {Head(todo[t]).state}
  /\ Refused(t)
  /\ UNCHANGED <<target, registryVars, states, made, bound, hooked, clientVars, ops>>

PutState(t) ==
  /\ Now(t, "put")
  /\ LET step == Head(todo[t]) IN states' = [states EXCEPT ![step.id] = step.state]
  /\ Becomes(t, <<>>)
  /\ UNCHANGED <<target, registryVars, made, bound, entries, hooked, lost, clientVars, ops>>

ForgetState(t) ==
  /\ Now(t, "forget") /\ Head(todo[t]).listener = Pen
  /\ LET i == Head(todo[t]).id IN
       /\ states' = [states EXCEPT ![i] = None]
       /\ Becomes(t, IF states[i] = None THEN <<>> ELSE <<Detach(i, states[i])>>)
  /\ UNCHANGED <<target, registryVars, made, bound, entries, hooked, lost, clientVars, ops>>

\* Variant: the attachment is dropped and not detached.
DetachStateByDrop(t) ==
  /\ Now(t, "detach")
  /\ LET s == Head(todo[t]).state IN bound' = [bound EXCEPT ![s] = None]
  /\ Becomes(t, <<>>)
  /\ UNCHANGED <<target, registryVars, states, made, entries, hooked, lost, clientVars, ops>>

detach_hwnd(n) == target = "windows" /\ Unbind(n) /\ hooked' = hooked \ {n}

detach_view(n) == target = "macos" /\ Unbind(n) /\ UNCHANGED hooked

\* On Windows and macOS the attachment is taken; on Linux nothing stops the pump.
DetachState(t) ==
  /\ Now(t, "detach")
  /\ LET s == Head(todo[t]).state IN
       IF target \in {"windows", "macos"} /\ bound[s] # None
       THEN /\ detach_hwnd(bound[s]) \/ detach_view(bound[s])
            /\ bound' = [bound EXCEPT ![s] = None]
       ELSE UNCHANGED <<entries, hooked, bound>>
  /\ Becomes(t, <<>>)
  /\ UNCHANGED <<target, registryVars, states, made, lost, clientVars, ops>>
-----------------------------------------------------------------------------
(* PenPublisherFactory::create takes one receiver after the other; "closed" *)
(* is a stream that has ended before it began.                             *)

Take(c, i, end) ==
  LET s == states[i] IN
  IF s # None /\ <<s, end>> \notin taken
  THEN /\ taken' = taken \cup {<<s, end>>}
       /\ client' = [client EXCEPT ![c] = [[@ EXCEPT !.id = i] EXCEPT ![end] = s]]
  ELSE /\ client' = [client EXCEPT ![c] = [[@ EXCEPT !.id = i] EXCEPT ![end] = "closed"]]
       /\ UNCHANGED taken

subscribe_events(c, i) ==
  /\ client[c].id = None
  /\ Take(c, i, "events")
  /\ UNCHANGED <<target, registryVars, penVars, todo, ops>>

subscribe_hover(c) ==
  /\ client[c].id # None /\ client[c].hover = None
  /\ Take(c, client[c].id, "hover")
  /\ UNCHANGED <<target, registryVars, penVars, todo, ops>>
-----------------------------------------------------------------------------
Operations(t) ==
  \/ \E i \in Ids : unregister(t, i) \/ unregister_window(t, i) \/ register_window_id(t, i)
  \/ \E i \in Ids : \E n \in NativesOf[i] : register_native(t, i, n) \/ register_window(t, i, n)
  \/ \E l \in {Pen, Other} : add_listener(t, l)

Steps(t) ==
  \/ RemoveWindow(t) \/ OfferWindow(t) \/ InsertWindow(t) \/ Replay(t)
  \/ OtherAnswers(t) \/ OtherForgets(t)
  \/ FindState(t) \/ BindNative(t) \/ BindFails(t) \/ PutState(t)
  \/ ForgetState(t) \/ DetachState(t)

Next ==
  \/ \E t \in Threads : Operations(t) \/ Steps(t)
  \/ \E c \in PenClients : (\E i \in Ids : subscribe_events(c, i)) \/ subscribe_hover(c)

Spec == Init /\ [][Next]_vars
-----------------------------------------------------------------------------
(* What holds. *)

\* Who gets the samples of a native window: the first entry that is found, every
\* pump of the window, or (a Wayland pump does not look at the surface) all pumps.
Hears(n) ==
  LET mine == {k \in DOMAIN entries : entries[k][1] = n}
      heard == CASE target = "windows" -> {k \in mine : n \in hooked /\ \A j \in mine : k <= j}
                 [] target = "macos" -> {k \in mine : \A j \in mine : k <= j}
                 [] target = "x11" -> mine
                 [] target = "wayland" -> DOMAIN entries IN
  {entries[k][2] : k \in heard}

\* Whoever holds a sender keeps the stream of a state open: the publisher's map,
\* the entries, and on Windows the attachment inside the state itself.
HeldOpen(s) ==
  \/ \E i \in Ids : states[i] = s
  \/ \E k \in DOMAIN entries : entries[k][2] = s
  \/ target = "windows" /\ bound[s] # None

\* While nobody works on them, the state a client of an id gets hears the native
\* window it is bound to, on Windows and macOS alone.  A state that was replaced or
\* bound anew while it was bound is the exception: it goes on hearing its first
\* window, and on Windows and macOS keeps it from the next state bound to it.
BoundIsHeard ==
  \A i \in Ids : LET s == states[i] IN
    (Idle /\ s # None) =>
      \/ bound[s] = None
      \/ ({s} \cup Hears(bound[s])) \cap lost # {}
      \/ /\ s \in Hears(bound[s])
         /\ target \in {"windows", "macos"} => Hears(bound[s]) = {s}

\* A state no id has any more is closed, so that the streams of its client end:
\* on Windows and macOS, unless it was lost while it was bound.
GoneIsClosed ==
  (Idle /\ target \in {"windows", "macos"}) =>
    \A s \in 1..made : (\A i \in Ids : states[i] # s) => ~HeldOpen(s) \/ s \in lost

\* The registry and its listeners agree: a listener knows a window exactly if it
\* is registered, except that one which refused it in its replay does not, and
\* that the publisher also has windows of its own.
ListenersAgree ==
  Idle =>
    /\ \A i \in known : windows[i] # None
    /\ \A i \in Ids : states[i] # None /\ Pen \in Range(listeners) /\ windows[i] # None
                        => states[i] \in lost \/ bound[states[i]] \in {windows[i], None}

\* Whatever is attached, bound and closed, the windows, their states and those who
\* listen for them fit together once the threads rest.
WindowsSettled == TypeOK /\ BoundIsHeard /\ GoneIsClosed /\ ListenersAgree
=============================================================================
