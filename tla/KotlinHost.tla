------------------------------ MODULE KotlinHost ------------------------------
(***************************************************************************)
(* The Android runtime (IstmoRuntime.kt) and the pump thread that calls it *)
(* (crates/android/src/pump.rs).                                           *)
(*                                                                         *)
(* Nothing is serialised here: coroutines run on a thread pool, the pump   *)
(* calls into Kotlin from its own thread, and the two tables, jobs and     *)
(* outboundCalls, are concurrent maps.  The Rust runtime behind the native *)
(* functions is the one of CallRouting, reduced to what Kotlin can tell.   *)
(***************************************************************************)
EXTENDS Naturals, Sequences

CONSTANTS
  Own,        \* calls Kotlin makes, each its own call id
  Unhosted,   \* those for a plugin without a host in Rust
  Hosted,     \* calls Rust makes to Kotlin's handlers
  Capacity    \* of the channel the pump reads

KotlinHostAssumption ==
  /\ Unhosted \subseteq Own /\ Hosted \cap Own = {}
  /\ Hosted \cap {"idle", "exited"} = {}
  /\ Capacity \in Nat \ {0}

VARIABLES
  own,            \* the continuation of each of Kotlin's calls
  outboundCalls,  \* the keys of outboundCalls
  submits,        \* nativeSubmitCall, begun and not yet through
  runs,           \* how often a call went through
  serving,        \* how many threads of Rust's hosts are busy with it
  jobs,           \* the keys of jobs
  job,            \* how far the coroutine of a hosted call is
  cancelled,      \* coroutines that were cancelled
  rust,           \* what became of the calls Rust makes
  outbound,       \* the channel to the pump
  pump,           \* "idle", "exited", or the call whose job onCall launched
  phase,          \* how far shutdown is
  visit           \* entries its loop over outboundCalls has yet to see

ownVars == <<own, outboundCalls, submits, runs, serving>>
jobVars == <<jobs, job, cancelled, rust>>
downVars == <<phase, visit>>
vars == <<ownVars, jobVars, outbound, pump, downVars>>

Frame == [kind : {"call", "cancel"}, id : Hosted] \cup [kind : {"respond"}, id : Own]

TypeOK ==
  /\ own \in [Own -> {"idle", "suspended", "resumed", "cancelled"}]
  /\ outboundCalls \subseteq Own /\ visit \subseteq Own
  /\ submits \in [Own -> 0..2] /\ runs \in [Own -> 0..2] /\ serving \in [Own -> 0..2]
  /\ jobs \subseteq Hosted /\ cancelled \subseteq Hosted
  /\ job \in [Hosted -> {"none", "launched", "running", "responded", "ended", "endedEarly"}]
  /\ rust \in [Hosted -> {"idle", "waiting", "answered", "cancelled", "closed"}]
  /\ outbound \in Seq(Frame) /\ Len(outbound) <= Capacity
  /\ pump \in {"idle", "exited"} \cup Hosted
  /\ phase \in {"up", "stopping", "cancelling", "down"}

Init ==
  /\ own = [c \in Own |-> "idle"]
  /\ outboundCalls = {} /\ visit = {}
  /\ submits = [c \in Own |-> 0] /\ runs = submits /\ serving = submits
  /\ jobs = {} /\ cancelled = {}
  /\ job = [h \in Hosted |-> "none"]
  /\ rust = [h \in Hosted |-> "idle"]
  /\ outbound = <<>>
  /\ pump = "idle"
  /\ phase = "up"

\* Outbound frames wait for room, and fail once the pump is gone.
send_outbound(kind, id) ==
  \/ pump = "exited" /\ UNCHANGED outbound
  \/ /\ pump # "exited" /\ Len(outbound) < Capacity
     /\ outbound' = Append(outbound, [kind |-> kind, id |-> id])
-----------------------------------------------------------------------------
(* Kotlin's calls.                                                         *)

\* The entry is made and the cancellation handler installed, then the call
\* is submitted.
call(c) ==
  /\ own[c] = "idle"
  /\ own' = [own EXCEPT ![c] = "suspended"]
  /\ outboundCalls' = outboundCalls \cup {c}
  /\ submits' = [submits EXCEPT ![c] = 1]
  /\ UNCHANGED <<runs, serving, jobVars, outbound, pump, downVars>>

\* A call to a plugin without a host is answered by the submitting thread.
nativeSubmitCall(c) ==
  /\ submits[c] > 0
  /\ submits' = [submits EXCEPT ![c] = @ - 1]
  /\ runs' = [runs EXCEPT ![c] = @ + 1]
  /\ \/ c \notin Unhosted /\ serving' = [serving EXCEPT ![c] = @ + 1] /\ UNCHANGED outbound
     \/ c \in Unhosted /\ send_outbound("respond", c) /\ UNCHANGED serving
  /\ UNCHANGED <<own, outboundCalls, jobVars, pump, downVars>>

HostAnswers(c) ==
  /\ serving[c] > 0
  /\ serving' = [serving EXCEPT ![c] = @ - 1]
  /\ send_outbound("respond", c)
  /\ UNCHANGED <<own, outboundCalls, submits, runs, jobVars, pump, downVars>>

\* The pump brings an answer, which may find no entry any more.
onRespond(c) ==
  /\ pump = "idle" /\ outbound # <<>> /\ Head(outbound) = [kind |-> "respond", id |-> c]
  /\ outbound' = Tail(outbound)
  /\ outboundCalls' = outboundCalls \ {c}
  /\ own' = [own EXCEPT ![c] = IF c \in outboundCalls THEN "resumed" ELSE @]
  /\ UNCHANGED <<submits, runs, serving, jobVars, pump, downVars>>

\* A suspended continuation is cancelled.  Its handler takes the entry out and
\* submits the call once more, with an empty payload; a continuation that was
\* resumed or cancelled has no handler to run.
CancelContinuation(c) ==
  IF own[c] = "suspended"
  THEN /\ own' = [own EXCEPT ![c] = "cancelled"]
       /\ outboundCalls' = outboundCalls \ {c}
       /\ submits' = [submits EXCEPT ![c] = @ + 1]
  ELSE UNCHANGED <<own, outboundCalls, submits>>

\* The coroutine that made the call is cancelled.
CancelCaller(c) ==
  /\ own[c] = "suspended"
  /\ CancelContinuation(c)
  /\ UNCHANGED <<runs, serving, jobVars, outbound, pump, downVars>>
-----------------------------------------------------------------------------
(* Calls Rust makes to Kotlin's handlers; creations of instances take the  *)
(* same way (onCreateInstance).                                            *)

CallKotlin(h) ==
  /\ rust[h] = "idle"
  /\ rust' = [rust EXCEPT ![h] = IF pump = "exited" THEN "closed" ELSE "waiting"]
  /\ send_outbound("call", h)
  /\ UNCHANGED <<ownVars, jobs, job, cancelled, pump, downVars>>

DropCall(h) ==
  /\ rust[h] = "waiting"
  /\ rust' = [rust EXCEPT ![h] = "cancelled"]
  /\ send_outbound("cancel", h)
  /\ UNCHANGED <<ownVars, jobs, job, cancelled, pump, downVars>>

\* A response of Kotlin ends the call it is for, unless Rust has forgotten it.
nativeSubmitResponse(h) == rust' = [rust EXCEPT ![h] = IF @ = "waiting" THEN "answered" ELSE @]

\* Without a handler the call fails; with one its job is launched ...
onCall(h) ==
  /\ pump = "idle" /\ outbound # <<>> /\ Head(outbound) = [kind |-> "call", id |-> h]
  /\ outbound' = Tail(outbound)
  /\ \/ nativeSubmitResponse(h) /\ UNCHANGED <<job, pump>>
     \/ job' = [job EXCEPT ![h] = "launched"] /\ pump' = h /\ UNCHANGED rust
  /\ UNCHANGED <<ownVars, jobs, cancelled, downVars>>

\* ... and then put into the table, which it may have left already.
PutJob(h) ==
  /\ pump = h
  /\ jobs' = jobs \cup {h}
  /\ pump' = "idle"
  /\ UNCHANGED <<ownVars, job, cancelled, rust, outbound, downVars>>

\* A job that is cancelled before it runs never does, not even its finally.
JobStarts(h) ==
  /\ job[h] = "launched"
  /\ job' = [job EXCEPT ![h] = IF h \in cancelled THEN "ended" ELSE "running"]
  /\ UNCHANGED <<ownVars, jobs, cancelled, rust, outbound, pump, downVars>>

\* The handler returns, fails or is cancelled: each way a response is
\* submitted.
JobResponds(h) ==
  /\ job[h] = "running"
  /\ job' = [job EXCEPT ![h] = "responded"]
  /\ nativeSubmitResponse(h)
  /\ UNCHANGED <<ownVars, jobs, cancelled, outbound, pump, downVars>>

\* The finally block.
JobEnds(h) ==
  /\ job[h] = "responded"
  /\ jobs' = jobs \ {h}
  /\ job' = [job EXCEPT ![h] = IF pump = h THEN "endedEarly" ELSE "ended"]
  /\ UNCHANGED <<ownVars, cancelled, rust, outbound, pump, downVars>>

onCancel(h) ==
  /\ pump = "idle" /\ outbound # <<>> /\ Head(outbound) = [kind |-> "cancel", id |-> h]
  /\ outbound' = Tail(outbound)
  /\ cancelled' = cancelled \cup (jobs \cap {h})
  /\ jobs' = jobs \ {h}
  /\ UNCHANGED <<ownVars, job, rust, pump, downVars>>
-----------------------------------------------------------------------------
(* Shutdown, once.                                                         *)

Live(h) == job[h] \in {"launched", "running", "responded"}

\* The Rust runtime goes down and the pump is told to stop ...
nativeShutdown ==
  /\ phase = "up"
  /\ phase' = "stopping"
  /\ rust' = [h \in Hosted |-> IF rust[h] = "waiting" THEN "closed" ELSE rust[h]]
  /\ UNCHANGED <<ownVars, jobs, job, cancelled, outbound, pump, visit>>

\* (It may find its stop channel closed before or after the other frames.)
PumpExits ==
  /\ pump = "idle" /\ phase = "stopping"
  /\ pump' = "exited"
  /\ UNCHANGED <<ownVars, jobVars, outbound, downVars>>

\* ... and joined; every coroutine of the scope is cancelled, and the loop
\* over outboundCalls begins.
CancelScope ==
  /\ phase = "stopping" /\ pump = "exited"
  /\ phase' = "cancelling"
  /\ cancelled' = cancelled \cup {h \in Hosted : Live(h)}
  /\ jobs' = {}
  /\ visit' = outboundCalls
  /\ UNCHANGED <<ownVars, job, rust, outbound, pump>>

\* Variant: only calls that went through are cancelled.
CancelSubmitted(c) ==
  /\ phase = "cancelling" /\ c \in visit
  /\ visit' = visit \ {c}
  /\ IF runs[c] > 0 THEN CancelContinuation(c) ELSE UNCHANGED <<own, outboundCalls, submits>>
  /\ UNCHANGED <<runs, serving, jobVars, outbound, pump, phase>>

\* The loop meets every entry it began with; calls made meanwhile it may miss.
CancelPending(c) ==
  /\ phase = "cancelling" /\ c \in visit
  /\ visit' = visit \ {c}
  /\ CancelContinuation(c)
  /\ UNCHANGED <<runs, serving, jobVars, outbound, pump, phase>>

\* Whatever is left is cleared.
ClearPending ==
  /\ phase = "cancelling" /\ visit = {}
  /\ phase' = "down"
  /\ outboundCalls' = {}
  /\ UNCHANGED <<own, submits, runs, serving, jobVars, outbound, pump, visit>>
-----------------------------------------------------------------------------
PumpRuns ==
  \/ \E c \in Own : onRespond(c)
  \/ \E h \in Hosted : onCall(h) \/ PutJob(h) \/ onCancel(h)
  \/ PumpExits

JobRuns(h) == JobStarts(h) \/ JobResponds(h) \/ JobEnds(h)

ShutdownRuns == CancelScope \/ (\E c \in Own : CancelPending(c)) \/ ClearPending

Next ==
  \/ PumpRuns \/ ShutdownRuns \/ nativeShutdown
  \/ \E c \in Own : call(c) \/ nativeSubmitCall(c) \/ HostAnswers(c) \/ CancelCaller(c)
  \/ \E h \in Hosted : CallKotlin(h) \/ DropCall(h) \/ JobRuns(h)

\* Threads and coroutines that can run do, and handlers and hosts come to an
\* end.  Nobody has to call, cancel, drop or shut down.  Submitters that wait
\* for room take turns with the pump: each wakes when it is its turn (SF).
Fairness ==
  /\ WF_vars(PumpRuns) /\ WF_vars(ShutdownRuns)
  /\ \A c \in Own : SF_vars(nativeSubmitCall(c)) /\ SF_vars(HostAnswers(c))
  /\ \A h \in Hosted : WF_vars(JobRuns(h))

Spec == Init /\ [][Next]_vars /\ Fairness
-----------------------------------------------------------------------------
\* A Cancel finds the job it is for: one that runs and was not cancelled is in
\* the table, but for the moment in which the pump itself, the only thread that
\* delivers Cancels, is about to put it there (IstmoRuntime.kt 175-193, 221).
CancelFindsJob ==
  \A h \in Hosted : Live(h) /\ h \notin cancelled /\ job[h] # "responded" =>
    h \in jobs \/ pump = h

\* The table holds no jobs that have ended, but those that ended before they
\* were put there, which stay (187-192).
StaleOnlyIfEarly == \A h \in jobs : job[h] # "ended"

\* Shutdown leaves no coroutine running unaware and no entry in jobs: no call
\* gets into Kotlin once the pump was joined (115-118).
ShutdownReachesAll ==
  phase = "down" => jobs = {} /\ \A h \in Hosted : Live(h) => h \in cancelled

\* Rust executes a call once, and once more only if it was cancelled: the
\* caller's cancellation, shutdown's and the answer meet over one continuation
\* (119-137).
AgainOnlyIfCancelled ==
  \A c \in Own : runs[c] + submits[c] <= IF own[c] = "cancelled" THEN 2 ELSE 1

\* A call that was made before shutdown does not stay suspended.
OwnWaits(c) == own[c] = "suspended" /\ phase = "up"
OwnEnds(c) == own[c] # "suspended"

\* What Rust asks of Kotlin before shutdown ends.
HostedWaits(h) == rust[h] = "waiting" /\ phase = "up"
HostedEnds(h) == rust[h] # "waiting"

\* The variables have their types, and Cancels and shutdown find in jobs what
\* they have to cancel.
JobsTracked == TypeOK /\ CancelFindsJob /\ StaleOnlyIfEarly /\ ShutdownReachesAll

\* Calls of both directions made before shutdown end.
CallsSettle ==
  /\ \A c \in Own : OwnWaits(c) ~> OwnEnds(c)
  /\ \A h \in Hosted : HostedWaits(h) ~> HostedEnds(h)
=============================================================================
