---------------------------- MODULE CallRouting ----------------------------
(***************************************************************************)
(* Unary calls through istmo_core::Runtime: the pending table, the         *)
(* dispatch threads of plugins hosted in Rust, the cancel tokens, the      *)
(* bounded outbound channel with its pump, and shutdown.                   *)
(*                                                                         *)
(* Two sides make calls.  Rust code ("local") calls Runtime::call, which   *)
(* is served by a host of this runtime or by the peer (Kotlin, Swift or a  *)
(* second runtime) across the outbound channel.  The peer ("peer") injects *)
(* Call frames served by hosts of this runtime.  Each side numbers its own *)
(* calls.  A call is <<o, i>>: the side that made it and its id.           *)
(*                                                                         *)
(* Payloads are abstracted to the side whose call they answer, the only    *)
(* thing the properties tell apart.                                        *)
(***************************************************************************)
EXTENDS Naturals, Sequences, FiniteSets

CONSTANTS
  MaxId,         \* bound on the ids Runtime::next_id hands out
  PeerIds,       \* the ids the peer gives its calls
  OutboundCap,   \* RuntimeConfig.outbound_capacity
  MayShutDown,   \* whether Runtime::shutdown may be called
  MayPanic,      \* whether a hosted method may panic
  MayWait,       \* whether a hosted method may wait for its token to trip
  None           \* absence of a token, of an answer

Side == {"local", "peer"}
LocalIds == 1..MaxId
Ids == LocalIds \cup PeerIds

\* A call: the side that made it, and its id.
Call == Side \X Ids

\* A token is named after whoever inserted it in `cancelled_hosted`: the
\* dispatch of a call, or a Cancel frame that found no entry.
Token == (Side \cup {"cancel"}) \X Ids

ASSUME CallRoutingAssumption ==
  /\ MaxId \in Nat
  /\ PeerIds \subseteq Nat
  /\ OutboundCap \in Nat \ {0}
  /\ MayShutDown \in BOOLEAN
  /\ MayPanic \in BOOLEAN
  /\ MayWait \in BOOLEAN
  /\ None \notin Token
  /\ None \notin Call

VARIABLES
  next_id,     \* Runtime.next_id
  pending,     \* ids registered in RoutingTables.pending as calls
  cancelled_hosted, \* id -> token
  tripped,     \* tokens whose flag is set
  task,        \* side -> id -> progress of the dispatch thread
  holds,       \* side -> id -> token cloned into the dispatch
  waits,       \* side -> id -> the host returns only once cancelled
  caller,      \* local id -> progress of call() and of its CallHandle
  hosted,      \* local id -> CallHandle.hosted
  result,      \* local id -> the call whose answer its oneshot holds
  fetched,     \* side -> id -> token a cancellation is about to trip
  outbound,    \* frames in the outbound channel
  phase,       \* "up", "cleared" by shutdown, "down": the pump is gone
  peer_call,   \* peer id -> the peer's call
  peer_cancel, \* peer id -> the peer's cancellation of it
  peer_got,    \* peer id -> the call whose answer the peer's caller got
  serving      \* local id -> the peer's work on a call of ours

runtimeVars == <<next_id, pending, cancelled_hosted, tripped, outbound, phase>>
taskVars == <<task, holds, waits>>
callerVars == <<caller, hosted, result>>
peerVars == <<peer_call, peer_cancel, peer_got, serving>>
vars == <<runtimeVars, taskVars, callerVars, fetched, peerVars>>

Frame == [kind : {"Call", "Cancel", "Respond"}, owner : Side, id : Ids]

TaskPhase == {"none", "running", "respond", "deliver", "send", "done",
              "discarded", "panicked"}
CallerPhase == {"idle", "registered", "failed", "waiting", "answered",
                "closed", "dropping", "tripping", "dropped"}

TypeOK ==
  /\ next_id \in 1..(MaxId + 1)
  /\ pending \subseteq LocalIds
  /\ cancelled_hosted \in [Ids -> Token \cup {None}]
  /\ tripped \subseteq Token
  /\ task \in [Side -> [Ids -> TaskPhase]]
  /\ holds \in [Side -> [Ids -> Token \cup {None}]]
  /\ waits \in [Side -> [Ids -> BOOLEAN]]
  /\ caller \in [LocalIds -> CallerPhase]
  /\ hosted \in [LocalIds -> BOOLEAN]
  /\ result \in [LocalIds -> Call \cup {None}]
  /\ fetched \in [Side -> [Ids -> Token \cup {None}]]
  /\ outbound \in Seq(Frame)
  /\ Len(outbound) <= OutboundCap
  /\ phase \in {"up", "cleared", "down"}
  /\ peer_call \in [PeerIds -> {"idle", "called"}]
  /\ peer_cancel \in [PeerIds -> {"none", "fetched", "done"}]
  /\ peer_got \in [PeerIds -> Call \cup {None}]
  /\ serving \in [LocalIds -> {"none", "serving", "cancelled", "answered"}]

Init ==
  /\ next_id = 1
  /\ pending = {}
  /\ cancelled_hosted = [i \in Ids |-> None]
  /\ tripped = {}
  /\ task = [o \in Side |-> [i \in Ids |-> "none"]]
  /\ holds = [o \in Side |-> [i \in Ids |-> None]]
  /\ waits = [o \in Side |-> [i \in Ids |-> FALSE]]
  /\ caller = [i \in LocalIds |-> "idle"]
  /\ hosted = [i \in LocalIds |-> FALSE]
  /\ result = [i \in LocalIds |-> None]
  /\ fetched = [o \in Side |-> [i \in Ids |-> None]]
  /\ outbound = <<>>
  /\ phase = "up"
  /\ peer_call = [i \in PeerIds |-> "idle"]
  /\ peer_cancel = [i \in PeerIds |-> "none"]
  /\ peer_got = [i \in PeerIds |-> None]
  /\ serving = [i \in LocalIds |-> "none"]

-----------------------------------------------------------------------------
(* The outbound channel.                                                   *)

\* flume's bounded send: blocks while the channel is full, fails once the
\* pump has dropped the receiver.
Enqueue(frame) ==
  /\ phase # "down"
  /\ Len(outbound) < OutboundCap
  /\ outbound' = Append(outbound, frame)

SendFails == phase = "down" /\ UNCHANGED outbound

send_outbound(frame) == Enqueue(frame) \/ SendFails

\* cancelled_hosted.entry(id).or_default(), inserting under the name `token`
\* when the entry is vacant; the entry that is there afterwards.
EntryOrDefault(id, token) ==
  IF cancelled_hosted[id] = None THEN token ELSE cancelled_hosted[id]

\* Variant: the dispatch gets a token of its own instead of the entry's.
SpawnDispatchOwnToken(o, i) ==
  /\ cancelled_hosted' = [cancelled_hosted EXCEPT ![i] = EntryOrDefault(i, <<o, i>>)]
  /\ holds' = [holds EXCEPT ![o][i] = <<o, i>>]
  /\ task' = [task EXCEPT ![o][i] = "running"]
  /\ \E w \in {FALSE, MayWait} : waits' = [waits EXCEPT ![o][i] = w]

\* Spawn the thread that serves call <<o, i>>, its token in the dispatch.
SpawnDispatch(o, i) ==
  LET token == EntryOrDefault(i, <<o, i>>) IN
  /\ cancelled_hosted' = [cancelled_hosted EXCEPT ![i] = token]
  /\ holds' = [holds EXCEPT ![o][i] = token]
  /\ task' = [task EXCEPT ![o][i] = "running"]
  /\ \E w \in {FALSE, MayWait} : waits' = [waits EXCEPT ![o][i] = w]

-----------------------------------------------------------------------------
(* Calls made by Rust code, and the handle they return.                    *)

\* Runtime::call, up to register_call and the look-up of the host.
Register(i) ==
  /\ i = next_id
  /\ next_id' = next_id + 1
  /\ pending' = pending \cup {i}
  /\ caller' = [caller EXCEPT ![i] = "registered"]
  /\ \E h \in BOOLEAN : hosted' = [hosted EXCEPT ![i] = h]
  /\ UNCHANGED <<cancelled_hosted, tripped, outbound, phase, taskVars,
                 result, fetched, peerVars>>

\* Runtime::call for a plugin this runtime hosts: dispatch_inbound.
CallHosted(i) ==
  /\ caller[i] = "registered"
  /\ hosted[i]
  /\ SpawnDispatch("local", i)
  /\ caller' = [caller EXCEPT ![i] = "waiting"]
  /\ UNCHANGED <<next_id, pending, tripped, outbound, phase, hosted, result,
                 fetched, peerVars>>

\* Runtime::call for any other plugin: send_outbound, whose error `?` returns
\* with the registration left behind.
CallPeer(i) ==
  /\ caller[i] = "registered"
  /\ ~hosted[i]
  /\ \/ /\ Enqueue([kind |-> "Call", owner |-> "local", id |-> i])
        /\ caller' = [caller EXCEPT ![i] = "waiting"]
     \/ /\ SendFails
        /\ caller' = [caller EXCEPT ![i] = "failed"]
  /\ UNCHANGED <<next_id, pending, cancelled_hosted, tripped, phase, taskVars,
                 hosted, result, fetched, peerVars>>

\* CallHandle::poll / recv_blocking: the oneshot holds a value, or its sender
\* was dropped with the registration.
Await(i) ==
  /\ caller[i] = "waiting"
  /\ \/ /\ result[i] # None
        /\ caller' = [caller EXCEPT ![i] = "answered"]
     \/ /\ result[i] = None
        /\ i \notin pending
        /\ caller' = [caller EXCEPT ![i] = "closed"]
  /\ UNCHANGED <<runtimeVars, taskVars, hosted, result, fetched, peerVars>>

\* Variant: the registration is left to the response.
DropHandleKeepingEntry(i) ==
  /\ caller[i] = "waiting"
  /\ caller' = [caller EXCEPT ![i] = "dropping"]
  /\ UNCHANGED <<runtimeVars, taskVars, hosted, result, fetched, peerVars>>

\* CallHandle::drop, first step of both cancellations: remove_pending.
DropHandle(i) ==
  /\ caller[i] = "waiting"
  /\ pending' = pending \ {i}
  /\ caller' = [caller EXCEPT ![i] = "dropping"]
  /\ UNCHANGED <<next_id, cancelled_hosted, tripped, outbound, phase, taskVars,
                 hosted, result, fetched, peerVars>>

\* cancel_hosted_local_call looks the token up and clones it ...
CancelHostedLocal(i) ==
  /\ caller[i] = "dropping"
  /\ hosted[i]
  /\ fetched' = [fetched EXCEPT !["local"][i] = cancelled_hosted[i]]
  /\ caller' = [caller EXCEPT ![i] =
                  IF cancelled_hosted[i] = None THEN "dropped" ELSE "tripping"]
  /\ UNCHANGED <<runtimeVars, taskVars, hosted, result, peerVars>>

\* ... and trips it after the lock is gone (CancelToken::cancel).
TripLocal(i) ==
  /\ caller[i] = "tripping"
  /\ tripped' = tripped \cup {fetched["local"][i]}
  /\ fetched' = [fetched EXCEPT !["local"][i] = None]
  /\ caller' = [caller EXCEPT ![i] = "dropped"]
  /\ UNCHANGED <<next_id, pending, cancelled_hosted, outbound, phase, taskVars,
                 hosted, result, peerVars>>

\* cancel_call: tell the peer.
CancelPeer(i) ==
  /\ caller[i] = "dropping"
  /\ ~hosted[i]
  /\ send_outbound([kind |-> "Cancel", owner |-> "local", id |-> i])
  /\ caller' = [caller EXCEPT ![i] = "dropped"]
  /\ UNCHANGED <<next_id, pending, cancelled_hosted, tripped, phase, taskVars,
                 hosted, result, fetched, peerVars>>

-----------------------------------------------------------------------------
(* The thread spawned for a hosted call.                                   *)

\* Variant: the entry is removed but its flag is not looked at.
FinishDispatchUnchecked(o, i) ==
  /\ task[o][i] = "running"
  /\ waits[o][i] => holds[o][i] \in tripped
  /\ cancelled_hosted' = [cancelled_hosted EXCEPT ![i] = None]
  /\ task' = [task EXCEPT ![o][i] = "respond"]
  /\ holds' = [holds EXCEPT ![o][i] = None]
  /\ waits' = [waits EXCEPT ![o][i] = FALSE]
  /\ UNCHANGED <<next_id, pending, tripped, outbound, phase,
                 callerVars, fetched, peerVars>>

\* The host's future completes; the thread removes the token from the map
\* and discards the outcome if that token was tripped.
FinishDispatch(o, i) ==
  /\ task[o][i] = "running"
  /\ waits[o][i] => holds[o][i] \in tripped
  /\ cancelled_hosted' = [cancelled_hosted EXCEPT ![i] = None]
  /\ task' = [task EXCEPT ![o][i] =
                IF cancelled_hosted[i] \in tripped THEN "discarded" ELSE "respond"]
  /\ holds' = [holds EXCEPT ![o][i] = None]
  /\ waits' = [waits EXCEPT ![o][i] = FALSE]
  /\ UNCHANGED <<next_id, pending, tripped, outbound, phase,
                 callerVars, fetched, peerVars>>

\* The host's future panics: the thread unwinds before any bookkeeping.
PanicDispatch(o, i) ==
  /\ MayPanic
  /\ task[o][i] = "running"
  /\ task' = [task EXCEPT ![o][i] = "panicked"]
  /\ UNCHANGED <<runtimeVars, holds, waits, callerVars, fetched, peerVars>>

\* send_respond decides on has_pending, whose lock is released ...
RouteRespond(o, i) ==
  /\ task[o][i] = "respond"
  /\ task' = [task EXCEPT ![o][i] = IF i \in pending THEN "deliver" ELSE "send"]
  /\ UNCHANGED <<runtimeVars, holds, waits, callerVars, fetched, peerVars>>

\* Variant: responses are matched to the oldest registration.
deliver_response_in_order(id, owner) ==
  IF pending = {} THEN UNCHANGED <<pending, result>>
  ELSE LET oldest == CHOOSE i \in pending : \A j \in pending : i <= j IN
       /\ pending' = pending \ {oldest}
       /\ result' = [result EXCEPT ![oldest] = <<owner, id>>]

\* Variant: has_pending's verdict is trusted.
deliver_response_unchecked(id, owner) ==
  /\ pending' = pending \ {id}
  /\ result' = [result EXCEPT ![id] = <<owner, id>>]

\* RoutingTables::deliver_response: take the registration, if it is still
\* there, and complete its oneshot.
deliver_response(id, owner) ==
  /\ pending' = pending \ {id}
  /\ result' =
       IF id \in pending THEN [result EXCEPT ![id] = <<owner, id>>] ELSE result

\* ... before the response is delivered locally ...
DeliverRespond(o, i) ==
  /\ task[o][i] = "deliver"
  /\ deliver_response(i, o)
  /\ task' = [task EXCEPT ![o][i] = "done"]
  /\ UNCHANGED <<next_id, cancelled_hosted, tripped, outbound, phase, holds,
                 waits, caller, hosted, fetched, peerVars>>

\* ... or sent to the peer.
SendRespond(o, i) ==
  /\ task[o][i] = "send"
  /\ send_outbound([kind |-> "Respond", owner |-> o, id |-> i])
  /\ task' = [task EXCEPT ![o][i] = "done"]
  /\ UNCHANGED <<next_id, pending, cancelled_hosted, tripped, phase, holds,
                 waits, callerVars, fetched, peerVars>>

-----------------------------------------------------------------------------
(* Frames from the peer: its calls and cancellations, its answers to ours. *)

\* Inbound Call: dispatch_hosted_call.  A plugin without a host is refused
\* on the transport's thread, by the same send_respond.
PeerCall(i) ==
  /\ peer_call[i] = "idle"
  /\ peer_call' = [peer_call EXCEPT ![i] = "called"]
  /\ \/ SpawnDispatch("peer", i)
     \/ /\ task' = [task EXCEPT !["peer"][i] = "respond"]
        /\ UNCHANGED <<cancelled_hosted, holds, waits>>
  /\ UNCHANGED <<next_id, pending, tripped, outbound, phase, callerVars,
                 fetched, peer_cancel, peer_got, serving>>

\* Variant: a Cancel for a call nobody has dispatched yet is ignored.
cancel_hosted_known(i) ==
  /\ peer_cancel[i] = "none"
  /\ fetched' = [fetched EXCEPT !["peer"][i] = cancelled_hosted[i]]
  /\ peer_cancel' = [peer_cancel EXCEPT ![i] =
                       IF cancelled_hosted[i] = None THEN "done" ELSE "fetched"]
  /\ UNCHANGED <<runtimeVars, taskVars, callerVars, peer_call, peer_got, serving>>

\* Inbound Cancel: cancel_hosted inserts a token if there is none, so that a
\* Cancel that overtakes its Call still trips the dispatch ...
cancel_hosted(i) ==
  /\ peer_cancel[i] = "none"
  /\ peer_cancel' = [peer_cancel EXCEPT ![i] = "fetched"]
  /\ LET token == EntryOrDefault(i, <<"cancel", i>>) IN
     /\ cancelled_hosted' = [cancelled_hosted EXCEPT ![i] = token]
     /\ fetched' = [fetched EXCEPT !["peer"][i] = token]
  /\ UNCHANGED <<next_id, pending, tripped, outbound, phase, taskVars,
                 callerVars, peer_call, peer_got, serving>>

\* ... and trips it after the lock is gone.
TripPeer(i) ==
  /\ peer_cancel[i] = "fetched"
  /\ tripped' = tripped \cup {fetched["peer"][i]}
  /\ fetched' = [fetched EXCEPT !["peer"][i] = None]
  /\ peer_cancel' = [peer_cancel EXCEPT ![i] = "done"]
  /\ UNCHANGED <<next_id, pending, cancelled_hosted, outbound, phase, taskVars,
                 callerVars, peer_call, peer_got, serving>>

\* The peer answers a call it was handed: an inbound Respond.
PeerRespond(i) ==
  /\ serving[i] \in {"serving", "cancelled"}
  /\ deliver_response(i, "local")
  /\ serving' = [serving EXCEPT ![i] = "answered"]
  /\ UNCHANGED <<next_id, cancelled_hosted, tripped, outbound, phase, taskVars,
                 caller, hosted, fetched, peer_call, peer_cancel, peer_got>>

\* What the peer does with a frame the pump hands it.  A Respond completes
\* the peer's call with that id, if it has an outstanding one.
PeerReceives(frame) ==
  LET i == frame.id IN
  \/ /\ frame.kind = "Call"
     /\ serving' = [serving EXCEPT ![i] = "serving"]
     /\ UNCHANGED peer_got
  \/ /\ frame.kind = "Cancel"
     /\ serving' = [serving EXCEPT ![i] =
                      IF @ = "serving" THEN "cancelled" ELSE @]
     /\ UNCHANGED peer_got
  \/ /\ frame.kind = "Respond"
     /\ peer_got' =
          IF i \in PeerIds /\ peer_call[i] = "called" /\ peer_got[i] = None
          THEN [peer_got EXCEPT ![i] = <<frame.owner, i>>] ELSE peer_got
     /\ UNCHANGED serving

\* One turn of the transport's pump: receive an envelope, call the peer.
Pump ==
  /\ phase # "down"
  /\ outbound # <<>>
  /\ PeerReceives(Head(outbound))
  /\ outbound' = Tail(outbound)
  /\ UNCHANGED <<next_id, pending, cancelled_hosted, tripped, phase, taskVars,
                 callerVars, fetched, peer_call, peer_cancel>>

\* The transport's shutdown: Runtime::shutdown clears the pending table ...
Shutdown ==
  /\ MayShutDown
  /\ phase = "up"
  /\ phase' = "cleared"
  /\ pending' = {}
  /\ UNCHANGED <<next_id, cancelled_hosted, tripped, outbound, taskVars,
                 callerVars, fetched, peerVars>>

\* ... then the pump is signalled and joined, and its receiver dropped.
StopPump ==
  /\ phase = "cleared"
  /\ phase' = "down"
  /\ outbound' = <<>>
  /\ UNCHANGED <<next_id, pending, cancelled_hosted, tripped, taskVars,
                 callerVars, fetched, peerVars>>

-----------------------------------------------------------------------------
CallerStep(i) ==
  \/ CallHosted(i) \/ CallPeer(i) \/ Await(i)
  \/ CancelHostedLocal(i) \/ TripLocal(i) \/ CancelPeer(i)

TaskStep(o, i) ==
  \/ FinishDispatch(o, i) \/ RouteRespond(o, i)
  \/ DeliverRespond(o, i) \/ SendRespond(o, i)

Next ==
  \/ \E i \in LocalIds : Register(i) \/ DropHandle(i) \/ CallerStep(i)
  \/ \E o \in Side, i \in Ids : TaskStep(o, i) \/ PanicDispatch(o, i)
  \/ \E i \in PeerIds : PeerCall(i) \/ cancel_hosted(i) \/ TripPeer(i)
  \/ \E i \in LocalIds : PeerRespond(i)
  \/ Pump \/ Shutdown \/ StopPump

Spec == Init /\ [][Next]_vars

\* The threads of the process run, a host whose method does not wait for its
\* token returns, the pump drains the channel, a peer that serves a call
\* answers it and finishes a cancellation it began.  Nobody has to make a
\* call, drop a handle, cancel or shut down.
Fairness ==
  /\ \A i \in LocalIds : WF_vars(CallerStep(i))
  /\ \A o \in Side, i \in Ids : WF_vars(TaskStep(o, i))
  /\ \A i \in PeerIds : WF_vars(TripPeer(i))
  /\ \A i \in LocalIds : WF_vars(serving[i] = "serving" /\ PeerRespond(i))
  /\ WF_vars(Pump)
  /\ WF_vars(StopPump)

FairSpec == Spec /\ Fairness
-----------------------------------------------------------------------------
(* Safety.                                                                 *)

\* The two sides never give a call the same id.  istmo-ios keeps it (Swift
\* numbers its calls from 1_000_000_000), istmo-android does not.
DisjointIds == PeerIds \cap LocalIds = {}

\* A caller only ever receives the answer to its own call: no handle of ours
\* resolves with what a host answered to the peer's call of the same id
\* (send_respond consults the pending table by id alone), and no caller of
\* the peer with what a host answered to one of ours.
AnswersMatchCalls ==
  /\ \A i \in LocalIds : result[i] \in {None, <<"local", i>>}
  /\ \A i \in PeerIds : peer_got[i] \in {None, <<"peer", i>>}

\* cancelled_hosted follows the dispatches: while a host runs, its entry is
\* the token the host holds, and for calls made by Rust there is an entry
\* only while the host runs (or after it panicked), however the end of the
\* dispatch and the drop of the handle interleave.
TokensTracked ==
  /\ \A o \in Side, i \in Ids :
       task[o][i] = "running" => holds[o][i] = cancelled_hosted[i]
  /\ \A i \in LocalIds :
       cancelled_hosted[i] # None => task["local"][i] \in {"running", "panicked"}

\* Once a cancellation has returned, the host it was meant for holds a
\* tripped token or has already returned: dropping a handle (TripLocal) and
\* an inbound Cancel, also one dispatched before its Call, never miss it.
CancellationReachesHost ==
  /\ \A i \in LocalIds :
       caller[i] = "dropped" /\ task["local"][i] = "running" =>
         holds["local"][i] \in tripped
  /\ \A i \in PeerIds :
       peer_cancel[i] = "done" /\ task["peer"][i] = "running" =>
         holds["peer"][i] \in tripped

\* A handle reports ChannelClosed only because the runtime was shut down.
ClosedOnlyByShutdown ==
  \A i \in LocalIds : caller[i] = "closed" => phase # "up"

\* A registration outlives its call only when the send that followed it
\* failed: every other entry has a handle, or a call() still running, to
\* remove it.
RegistrationHasHolder ==
  \A i \in pending : caller[i] \in {"registered", "waiting", "failed"}

\* Whatever a host returns after its token was tripped is thrown away: the
\* response is neither delivered to a handle nor sent to the peer.
CancelledIsDiscarded ==
  [][\A o \in Side, i \in Ids :
       task[o][i] = "running" /\ holds[o][i] \in tripped =>
         task'[o][i] \in {"running", "discarded", "panicked"}]_vars

\* The pending table fits its callers: an entry has somebody to remove it, and
\* a caller that waits has its entry until it is answered or shut down.
RegistrationsHeld == TypeOK /\ RegistrationHasHolder /\ ClosedOnlyByShutdown

\* A token in the table is the one its dispatch watches, and a cancellation
\* that returned has tripped it: cancelled_hosted does what it is for, in
\* whatever order calls, cancellations and the ends of dispatches come.
TokensServe == TokensTracked /\ CancellationReachesHost

\* The calls of this model as calls of CallPromise.
callStatus(o, i) ==
  IF o = "local"
  THEN IF caller[i] = "idle" THEN "idle"
       ELSE IF i \in pending THEN "open" ELSE "over"
  ELSE IF peer_call[i] = "idle" THEN "idle"
       ELSE IF peer_got[i] = None THEN "open" ELSE "over"

callAccepted(o, i) ==
  IF o = "local"
  THEN task["local"][i] # "none" \/ serving[i] # "none"
  ELSE task["peer"][i] # "none"

callAnswer(o, i) == IF o = "local" THEN result[i] ELSE peer_got[i]

AllCalls == ({"local"} \X LocalIds) \cup ({"peer"} \X PeerIds)

Promise == INSTANCE CallPromise WITH
  Calls <- AllCalls,
  status <- [c \in AllCalls |-> callStatus(c[1], c[2])],
  accepted <- {c \in AllCalls : callAccepted(c[1], c[2])},
  answer <- [c \in AllCalls |-> callAnswer(c[1], c[2])]

\* The runtime keeps the promise of CallPromise for both sides' calls.
KeepsPromise == Promise!Spec
-----------------------------------------------------------------------------
(* Liveness, under FairSpec.                                               *)

\* A host that waits for its token is the only one that may keep a caller.
HostIsWaiting(o, i) == waits[o][i] /\ holds[o][i] \notin tripped

\* Every call that is awaited ends: with an answer, or closed.
CallsSettle ==
  \A i \in LocalIds :
    caller[i] \in {"registered", "waiting"} ~>
      \/ caller[i] \notin {"registered", "waiting"}
      \/ HostIsWaiting("local", i)

\* A call made before a shutdown ends despite it, like every other.
EarlierCallsSettle ==
  \A i \in LocalIds :
    caller[i] \in {"registered", "waiting"} /\ phase = "up" ~>
      \/ caller[i] \notin {"registered", "waiting"}
      \/ HostIsWaiting("local", i)

\* A host that waits for cancellation returns once its handle is dropped or
\* the peer's Cancel is in.
CancelledHostsReturn ==
  /\ \A i \in LocalIds :
       (/\ caller[i] \in {"dropping", "tripping", "dropped"}
        /\ task["local"][i] = "running") ~> task["local"][i] # "running"
  /\ \A i \in PeerIds :
       (/\ peer_cancel[i] # "none"
        /\ task["peer"][i] = "running") ~> task["peer"][i] # "running"

\* The answer a host gives the peer's call reaches the peer's caller,
\* unless the runtime is shut down first.
PeerCallsAnswered ==
  \A i \in PeerIds :
    task["peer"][i] = "respond" ~> peer_got[i] # None \/ phase # "up"

\* Every call made before a shutdown ends, a cancelled host returns, and the
\* peer gets its answers, through an outbound channel that fills up.
CallsEnd == EarlierCallsSettle /\ CancelledHostsReturn /\ PeerCallsAnswered
=============================================================================
