------------------------------ MODULE SwiftHost ------------------------------
(***************************************************************************)
(* The iOS runtime (IstmoRuntime.swift) and the pump thread that feeds it  *)
(* (crates/ios/src/pump.rs).                                               *)
(*                                                                         *)
(* Every table of the Swift side belongs to one serial queue.  Swift       *)
(* submits its calls from blocks of that queue; the pump hands it what     *)
(* Rust sends, waiting for the queue (queue.sync) where it needs an        *)
(* answer; shutdown occupies the queue while it joins the pump.  The Rust  *)
(* runtime behind the C functions is the one of CallRouting, reduced to    *)
(* what the Swift side can tell.                                           *)
(***************************************************************************)
EXTENDS Naturals, Sequences

CONSTANTS
  Calls,      \* calls Swift makes, each its own call id
  Streams,    \* streams Swift opens, likewise
  Unhosted,   \* those of both that are for a plugin without a host in Rust
  Hosted,     \* calls Rust makes to Swift's handlers
  Capacity    \* of the channel the pump reads

OwnIds == Calls \cup Streams

SwiftHostAssumption ==
  /\ Calls \cap Streams = {} /\ Unhosted \subseteq OwnIds
  /\ Hosted \cap OwnIds = {}
  /\ Capacity \in Nat \ {0}

VARIABLES
  queue,       \* blocks of the serial queue, the running one first
  made,        \* calls and streams Swift has made
  registered,  \* the keys of pending and of streams
  dropped,     \* streams whose consumer is gone
  resumed,     \* how often the continuation of a call was resumed
  hostedTasks, \* the keys of hostedTasks
  task,        \* how far the Task of a hosted call is
  cancelled,   \* tasks that were cancelled
  serving,     \* Swift's calls that a host in Rust is busy with
  refused,     \* those that are answered with an error, not with a stream
  rust,        \* what became of the calls Rust makes
  outbound,    \* the channel to the pump
  pump,        \* the pump thread
  stopping     \* shutdown has dropped the pump's stop channel

swiftVars == <<made, registered, dropped, resumed>>
taskVars == <<hostedTasks, task, cancelled>>
rustVars == <<serving, refused, rust, outbound>>
vars == <<queue, swiftVars, taskVars, rustVars, pump, stopping>>

Block ==
  [kind : {"submit"}, id : OwnIds] \cup [kind : {"respond"}, id : Calls \cup Streams]
  \cup [kind : {"end", "forget"}, id : Streams]
  \cup [kind : {"lookup", "spawn", "cancel", "remove"}, id : Hosted]
  \cup [kind : {"shutdown", "cancelAll"}, id : {"all"}]
Frame ==
  [kind : {"call", "cancel"}, id : Hosted] \cup [kind : {"respond", "end"}, id : OwnIds]

TypeOK ==
  /\ queue \in Seq(Block)
  /\ registered \subseteq made /\ made \subseteq OwnIds
  /\ dropped \subseteq made \cap Streams
  /\ resumed \in [Calls -> 0..2]
  /\ hostedTasks \subseteq Hosted /\ cancelled \subseteq Hosted
  /\ task \in [Hosted -> {"none", "running", "answering", "done"}]
  /\ serving \subseteq OwnIds \ Unhosted /\ refused \subseteq OwnIds
  /\ rust \in [Hosted -> {"idle", "waiting", "answered", "cancelled", "closed"}]
  /\ outbound \in Seq(Frame) /\ Len(outbound) <= Capacity
  /\ pump \in {"idle", "waits", "exited"}
  /\ pump = "exited" => stopping

Init ==
  /\ queue = <<>>
  /\ made = {} /\ registered = {} /\ dropped = {}
  /\ resumed = [c \in Calls |-> 0]
  /\ hostedTasks = {} /\ cancelled = {}
  /\ task = [h \in Hosted |-> "none"]
  /\ serving = {} /\ refused = {}
  /\ rust = [h \in Hosted |-> "idle"]
  /\ outbound = <<>>
  /\ pump = "idle"
  /\ stopping = FALSE

Waiting(kind, id) == [kind |-> kind, id |-> id] \in {queue[i] : i \in DOMAIN queue}
Queued(kind, id) == Append(queue, [kind |-> kind, id |-> id])
AtHead(kind, id) == queue # <<>> /\ Head(queue) = [kind |-> kind, id |-> id]

\* The block at the head of the queue is this one, and it ends.
Runs(kind, id) == AtHead(kind, id) /\ queue' = Tail(queue)

\* Outbound frames wait for room, and fail once the pump is gone.
send_outbound(kind, id) ==
  \/ pump = "exited" /\ UNCHANGED outbound
  \/ /\ pump # "exited" /\ Len(outbound) < Capacity
     /\ outbound' = Append(outbound, [kind |-> kind, id |-> id])

\* A response of Swift ends the call it is for, unless Rust has forgotten it.
Responded(h) == [rust EXCEPT ![h] = IF @ = "waiting" THEN "answered" ELSE @]
-----------------------------------------------------------------------------
(* Swift's calls and streams.  The id is drawn from nextId on the queue;   *)
(* the block that registers and submits follows.                           *)

call(c) ==
  /\ c \notin made
  /\ made' = made \cup {c}
  /\ queue' = Queued("submit", c)
  /\ UNCHANGED <<registered, dropped, resumed, taskVars, rustVars, pump, stopping>>

\* A call to a plugin without a host is answered by the submitting thread.
Submit(c) ==
  /\ Runs("submit", c)
  /\ registered' = registered \cup {c}
  /\ \/ c \notin Unhosted /\ serving' = serving \cup {c} /\ UNCHANGED <<refused, outbound>>
     \/ /\ c \in Unhosted /\ send_outbound("respond", c)
        /\ refused' = refused \cup {c}
        /\ UNCHANGED serving
  /\ UNCHANGED <<made, dropped, resumed, taskVars, rust, pump, stopping>>

\* The host in Rust is done: an answer, the end of a stream, or an error, which
\* is a response for a stream too.
HostAnswers(c) ==
  /\ c \in serving
  /\ serving' = serving \ {c}
  /\ \/ c \in Calls /\ send_outbound("respond", c) /\ UNCHANGED refused
     \/ c \in Streams /\ send_outbound("end", c) /\ UNCHANGED refused
     \/ c \in Streams /\ send_outbound("respond", c) /\ refused' = refused \cup {c}
  /\ UNCHANGED <<queue, swiftVars, taskVars, rust, pump, stopping>>

\* handleRespond: only a call has an entry in pending.
handleRespond(c) ==
  /\ Runs("respond", c)
  /\ IF c \in registered \cap Calls
     THEN registered' = registered \ {c} /\ resumed' = [resumed EXCEPT ![c] = @ + 1]
     ELSE UNCHANGED <<registered, resumed>>
  /\ UNCHANGED <<made, dropped, taskVars, rustVars, pump, stopping>>

handleStreamEnd(c) ==
  /\ Runs("end", c)
  /\ registered' = registered \ {c}
  /\ UNCHANGED <<made, dropped, resumed, taskVars, rustVars, pump, stopping>>

\* The consumer of a stream goes; onTermination removes it on the queue.
Terminate(c) ==
  /\ c \in (made \cap Streams) \ dropped
  /\ dropped' = dropped \cup {c}
  /\ queue' = Queued("forget", c)
  /\ UNCHANGED <<made, registered, resumed, taskVars, rustVars, pump, stopping>>

Forget(c) ==
  /\ Runs("forget", c)
  /\ registered' = registered \ {c}
  /\ UNCHANGED <<made, dropped, resumed, taskVars, rustVars, pump, stopping>>

\* cancel(pluginId): it resumes the calls to every plugin.
cancel ==
  /\ registered \cap Calls # {} /\ ~Waiting("cancelAll", "all")
  /\ queue' = Queued("cancelAll", "all")
  /\ UNCHANGED <<swiftVars, taskVars, rustVars, pump, stopping>>

\* Resume everything in pending.
ResumeAll == resumed' = [c \in Calls |-> resumed[c] + IF c \in registered THEN 1 ELSE 0]

CancelAll ==
  /\ Runs("cancelAll", "all")
  /\ ResumeAll
  /\ registered' = registered \ Calls
  /\ UNCHANGED <<made, dropped, taskVars, rustVars, pump, stopping>>
-----------------------------------------------------------------------------
(* Calls Rust makes to Swift's handlers.                                   *)

\* A call is registered in Rust's tables, and its frame sent.
CallSwift(h) ==
  /\ rust[h] = "idle"
  /\ rust' = [rust EXCEPT ![h] = IF pump = "exited" THEN "closed" ELSE "waiting"]
  /\ send_outbound("call", h)
  /\ UNCHANGED <<queue, swiftVars, taskVars, serving, refused, pump, stopping>>

\* Its handle is dropped.
DropCall(h) ==
  /\ rust[h] = "waiting"
  /\ rust' = [rust EXCEPT ![h] = "cancelled"]
  /\ send_outbound("cancel", h)
  /\ UNCHANGED <<queue, swiftVars, taskVars, serving, refused, pump, stopping>>

\* The pump delivers a frame.  Responses and ends are left on the queue;
\* for a call or a cancel the pump waits until its block has run.
deliver ==
  /\ pump = "idle" /\ outbound # <<>>
  /\ LET frame == Head(outbound) IN
     /\ queue' = Queued(IF frame.kind = "call" THEN "lookup" ELSE frame.kind, frame.id)
     /\ pump' = IF frame.kind \in {"call", "cancel"} THEN "waits" ELSE "idle"
  /\ outbound' = Tail(outbound)
  /\ UNCHANGED <<swiftVars, taskVars, serving, refused, rust, stopping>>

\* The loop ends when it picks the closed stop channel, or finds nothing else.
PumpExits ==
  /\ pump = "idle" /\ stopping
  /\ pump' = "exited"
  /\ UNCHANGED <<queue, swiftVars, taskVars, rustVars, stopping>>

\* handleCall, first block: which handler?  Without one the call fails; with
\* one the pump asks for the second block.
handleCall(h) ==
  /\ AtHead("lookup", h)
  /\ \/ queue' = Tail(queue) /\ pump' = "idle" /\ rust' = Responded(h)
     \/ queue' = Tail(Queued("spawn", h)) /\ UNCHANGED <<pump, rust>>
  /\ UNCHANGED <<swiftVars, taskVars, serving, refused, outbound, stopping>>

\* The second block: the Task starts and is registered.
spawnHosted(h) ==
  /\ Runs("spawn", h)
  /\ task' = [task EXCEPT ![h] = "running"]
  /\ hostedTasks' = hostedTasks \cup {h}
  /\ pump' = "idle"
  /\ UNCHANGED <<swiftVars, cancelled, rustVars, stopping>>

\* The backend returns or throws.  What was cancelled by then says nothing;
\* the Task's removal of itself is queued in any case.
BodyEnds(h) ==
  /\ task[h] = "running"
  /\ \/ h \notin cancelled /\ task' = [task EXCEPT ![h] = "answering"] /\ UNCHANGED queue
     \/ h \in cancelled /\ task' = [task EXCEPT ![h] = "done"] /\ queue' = Queued("remove", h)
  /\ UNCHANGED <<swiftVars, hostedTasks, cancelled, rustVars, pump, stopping>>

\* The response, which may still meet a Cancel.
submitResponse(h) ==
  /\ task[h] = "answering"
  /\ task' = [task EXCEPT ![h] = "done"]
  /\ rust' = Responded(h)
  /\ queue' = Queued("remove", h)
  /\ UNCHANGED <<swiftVars, hostedTasks, cancelled, serving, refused, outbound, pump, stopping>>

Remove(h) ==
  /\ Runs("remove", h)
  /\ hostedTasks' = hostedTasks \ {h}
  /\ UNCHANGED <<swiftVars, task, cancelled, rustVars, pump, stopping>>

\* Variant: the entry goes, the Task is not cancelled.
HandleCancelForgets(h) ==
  /\ Runs("cancel", h)
  /\ hostedTasks' = hostedTasks \ {h}
  /\ pump' = "idle"
  /\ UNCHANGED <<swiftVars, task, cancelled, rustVars, stopping>>

handleCancel(h) ==
  /\ Runs("cancel", h)
  /\ hostedTasks' = hostedTasks \ {h}
  /\ cancelled' = cancelled \cup (hostedTasks \cap {h})
  /\ pump' = "idle"
  /\ UNCHANGED <<swiftVars, task, rustVars, stopping>>
-----------------------------------------------------------------------------
(* Shutdown, once.  Its block first shuts the Rust runtime down and tells  *)
(* the pump to stop; it goes on when the pump has ended.                   *)

shutdown ==
  /\ ~stopping /\ ~Waiting("shutdown", "all")
  /\ queue' = Queued("shutdown", "all")
  /\ UNCHANGED <<swiftVars, taskVars, rustVars, pump, stopping>>

istmo_ios_shutdown ==
  /\ AtHead("shutdown", "all") /\ ~stopping
  /\ rust' = [h \in Hosted |-> IF rust[h] = "waiting" THEN "closed" ELSE rust[h]]
  /\ stopping' = TRUE
  /\ UNCHANGED <<queue, swiftVars, taskVars, serving, refused, outbound, pump>>

\* Once the pump has ended: resume, finish and cancel everything.
ShutdownEnds ==
  /\ pump = "exited" /\ Runs("shutdown", "all")
  /\ ResumeAll
  /\ registered' = {}
  /\ cancelled' = cancelled \cup hostedTasks
  /\ hostedTasks' = {}
  /\ UNCHANGED <<made, dropped, task, rustVars, pump, stopping>>
-----------------------------------------------------------------------------
QueueRuns ==
  \/ \E c \in OwnIds : Submit(c)
  \/ \E c \in OwnIds : handleRespond(c)
  \/ \E c \in Streams : handleStreamEnd(c) \/ Forget(c)
  \/ \E h \in Hosted : handleCall(h) \/ spawnHosted(h) \/ handleCancel(h) \/ Remove(h)
  \/ CancelAll
  \/ istmo_ios_shutdown
  \/ ShutdownEnds

TaskRuns(h) == BodyEnds(h) \/ submitResponse(h)

Next ==
  \/ QueueRuns
  \/ deliver \/ PumpExits
  \/ \E c \in OwnIds : call(c) \/ HostAnswers(c)
  \/ \E c \in Streams : Terminate(c)
  \/ cancel \/ shutdown
  \/ \E h \in Hosted : CallSwift(h) \/ DropCall(h) \/ TaskRuns(h)

\* The queue and the pump run; backends and hosts come to an end.  Nobody
\* has to call, cancel, drop or shut down.
Fairness ==
  /\ WF_vars(QueueRuns)
  /\ WF_vars(deliver \/ PumpExits)
  /\ \A c \in OwnIds : WF_vars(HostAnswers(c))
  /\ \A h \in Hosted : WF_vars(TaskRuns(h))

Spec == Init /\ [][Next]_vars /\ Fairness
-----------------------------------------------------------------------------
\* The two ways the code deadlocks: shutdown holds the queue the pump waits
\* for, or a block that answers a call in place finds the channel full while
\* the pump, which would empty it, waits for the queue.
Deadlocked ==
  /\ pump = "waits"
  /\ \/ AtHead("shutdown", "all")
     \/ Len(outbound) = Capacity /\ \E c \in Unhosted : AtHead("submit", c)

\* No continuation is resumed twice, which traps: a response, cancel and
\* shutdown meet over pending (IstmoRuntime.swift 62-80, 121-129, 187-199).
ResumedOnce == \A c \in Calls : resumed[c] <= 1

\* No continuation is lost: what is made and not resumed is in pending, or
\* its block is still to come.
NothingLost ==
  \A c \in Calls \cap made :
    resumed[c] = 0 => c \in registered \/ Waiting("submit", c)

\* A stream whose consumer went away does not stay in streams: the removal
\* comes after the registration (126-160).
TerminatedAreForgotten ==
  \A c \in dropped : c \in registered => Waiting("forget", c)

\* hostedTasks holds the Tasks that a Cancel can still reach, all of them, and
\* no other for longer than its removal is queued (274-303).
TasksTracked ==
  \A h \in Hosted :
    /\ task[h] \in {"running", "answering"} /\ h \notin cancelled => h \in hostedTasks
    /\ h \in hostedTasks /\ task[h] = "done" => Waiting("remove", h)

\* A cancelled call's Task gets to know: with no Cancel under way and the pump
\* alive it does not go on uncancelled.
CancelReachesTask ==
  \A h \in Hosted :
    /\ rust[h] = "cancelled" /\ task[h] = "running" /\ pump # "exited"
    /\ ~Waiting("cancel", h)
    /\ [kind |-> "cancel", id |-> h] \notin {outbound[i] : i \in DOMAIN outbound}
    => h \in cancelled

\* What Swift submitted before shutdown took effect ends, unless one of the two
\* deadlocks happens.  A stream that its host refuses does not: the refusal is a
\* response, and handleRespond (189-201) knows no streams.
OwnWaits(c) == c \in registered /\ pump # "exited"
OwnEnds(c) == c \notin registered \/ Deadlocked \/ c \in Streams \cap refused

\* What Rust asks of Swift before shutdown ends, with the same exception.
HostedWaits(h) == rust[h] = "waiting" /\ ~stopping
HostedEnds(h) == rust[h] # "waiting" \/ Deadlocked

\* The variables have their types, and every continuation is resumed once or
\* still within reach of an answer, cancel or shutdown.
ContinuationsKept == TypeOK /\ ResumedOnce /\ NothingLost /\ TerminatedAreForgotten

\* hostedTasks is what Cancels need, and they find their Task in it.
TasksReached == TasksTracked /\ CancelReachesTask

\* Calls of both directions end, the deadlocks aside.
CallsSettle ==
  /\ \A c \in OwnIds : OwnWaits(c) ~> OwnEnds(c)
  /\ \A h \in Hosted : HostedWaits(h) ~> HostedEnds(h)
=============================================================================
