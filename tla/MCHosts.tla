-------------------------------- MODULE MCHosts --------------------------------
(* The runtimes of Swift and of Kotlin, each on its own: part says which.  The  *)
(* bridge to another process is there and at rest.                              *)
EXTENDS RemoteBridge

CONSTANTS Calls, Streams, Unhosted, Hosted, Capacity

VARIABLES
  part,
  queue, made, registered, dropped, resumed, hostedTasks, task, cancelled, hosting, refused,
  rust, outbound, pump, stopping,
  continuation, outboundCalls, submits, runs, busy, jobs, job, jobsCancelled, asked, toKotlin,
  onPump, phase, visit

swiftVars == <<queue, made, registered, dropped, resumed, hostedTasks, task, cancelled, hosting,
               refused, rust, outbound, pump, stopping>>
kotlinVars == <<continuation, outboundCalls, submits, runs, busy, jobs, job, jobsCancelled,
                asked, toKotlin, onPump, phase, visit>>
bothVars == <<part, swiftVars, kotlinVars, vars>>

S == INSTANCE SwiftHost WITH serving <- hosting
K == INSTANCE KotlinHost WITH
  Own <- S!OwnIds, own <- continuation, serving <- busy, cancelled <- jobsCancelled,
  rust <- asked, outbound <- toKotlin, pump <- onPump

ASSUME HostsAssumption == S!SwiftHostAssumption /\ K!KotlinHostAssumption

BothInit == part \in {"swift", "kotlin"} /\ S!Init /\ K!Init /\ Init

Swift(A) == part = "swift" /\ A /\ UNCHANGED <<part, kotlinVars, vars>>
Kotlin(A) == part = "kotlin" /\ A /\ UNCHANGED <<part, swiftVars, vars>>

BothNext == Swift(S!Next) \/ Kotlin(K!Next)

\* The fairness of both modules.  Only one of them runs, so that an action of
\* each can share a condition.
BothFair ==
  /\ WF_bothVars(Swift(S!QueueRuns) \/ Kotlin(K!PumpRuns))
  /\ WF_bothVars(Swift(S!deliver \/ S!PumpExits) \/ Kotlin(K!ShutdownRuns))
  /\ \A h \in Hosted : WF_bothVars(Swift(S!TaskRuns(h)) \/ Kotlin(K!JobRuns(h)))
  /\ \A c \in S!OwnIds :
       /\ WF_bothVars(Swift(S!HostAnswers(c)))
       /\ SF_bothVars(Kotlin(K!nativeSubmitCall(c))) /\ SF_bothVars(Kotlin(K!HostAnswers(c)))

BothSpec == BothInit /\ [][BothNext]_bothVars /\ BothFair
-----------------------------------------------------------------------------
\* In both runtimes every continuation and every task or job of a hosted call is
\* within reach of its answer, cancel or shutdown, and Rust runs a Kotlin call
\* twice only if it was cancelled.
HostsTrack ==
  /\ S!ContinuationsKept /\ S!TasksReached
  /\ K!JobsTracked /\ K!AgainOnlyIfCancelled

\* Calls of both directions made before shutdown end, Swift's deadlocks aside.
HostsSettle ==
  /\ \A c \in S!OwnIds :
       (IF part = "swift" THEN S!OwnWaits(c) ELSE K!OwnWaits(c))
         ~> (IF part = "swift" THEN S!OwnEnds(c) ELSE K!OwnEnds(c))
  /\ \A h \in Hosted :
       (IF part = "swift" THEN S!HostedWaits(h) ELSE K!HostedWaits(h))
         ~> (IF part = "swift" THEN S!HostedEnds(h) ELSE K!HostedEnds(h))
=============================================================================
