------------------------------- MODULE MCPlugins -------------------------------
(* A banner slot, the publishers of the device's state, the life of a service   *)
(* and wake locks, each on its own: part says which.                            *)
EXTENDS BannerSlot

CONSTANTS MaxReadings, MaxNative, Starts, Stops, Waiters, MaxDrops, Locks

VARIABLES
  part,
  os, plugin, samples, now, alive, installed, comparing, of, last, emitted, slot, natives,
  enriched, stream,
  service, mutex, pc, taken, tripped, abandoned, answer, stop, watcher, body, waiting, stopped,
  lock, wire, held, releases, runtime

stateVars == <<os, plugin, samples, now, alive, installed, comparing, of, last, emitted, slot,
               natives, enriched, stream>>
serviceVars == <<service, mutex, pc, taken, tripped, abandoned, answer, stop, watcher, body,
                 waiting, stopped>>
lockVars == <<lock, wire, held, releases, runtime>>
allVars == <<part, vars, stateVars, serviceVars, lockVars>>

P == INSTANCE StatePublishers WITH todo <- comparing
S == INSTANCE ServiceLifecycle WITH
       state <- service, guard <- mutex, dropped <- abandoned, task <- waiting
W == INSTANCE WakeLocks WITH guard <- lock

ASSUME PublishersAssumption == P!StatePublishersAssumption
ASSUME ServicesAssumption == S!ServiceLifecycleAssumption

AllInit ==
  /\ part \in {"banner", "state", "service", "locks"}
  /\ Init /\ S!Init /\ W!Init
  /\ part # "state" => plugin = "lifecycle" /\ os = "ios"
  /\ P!Init

Banner(A) == part = "banner" /\ A /\ UNCHANGED <<part, stateVars, serviceVars, lockVars>>
State(A) == part = "state" /\ A /\ UNCHANGED <<part, vars, serviceVars, lockVars>>
Service(A) == part = "service" /\ A /\ UNCHANGED <<part, vars, stateVars, lockVars>>
Lock(A) == part = "locks" /\ A /\ UNCHANGED <<part, vars, stateVars, serviceVars>>

AllNext == Banner(Next) \/ State(P!Next) \/ Service(S!Next) \/ Lock(W!Next)

\* A slot is drawn again and again, and an app ticks and reads again and again;
\* of a service or a lock nothing is due before somebody has asked for it, so
\* that their fairness can stand as it is.
AllSpec ==
  /\ AllInit /\ [][AllNext]_allVars
  /\ WF_allVars(Banner(Frame)) /\ \A i \in Tasks : WF_allVars(Banner(TaskStep(i)))
  /\ WF_allVars(State(P!install \/ P!tick \/ P!tick_channel))
  /\ WF_allVars(State(\E c \in P!Channels : P!recv(c)))
  /\ S!Fairness /\ W!Fairness
-----------------------------------------------------------------------------
\* A slot has one banner at most, and one updater that serves what is pending.
BannerServed == UpdatesServed /\ OneBanner

\* What clients are told of the device was sampled: formats with their locale,
\* nothing twice in a row, and never instead of something richer.
SamplesAreTold == P!SamplesAreTold

\* A service that runs can be stopped, every stop is answered when its body has
\* ended and not before, and a wake lock that is held is somebody's.
AllOwned == S!TypeOK /\ S!BodiesOwned /\ S!StopsAreExact /\ W!TypeOK /\ W!LocksTracked

\* Slots settle where the interface wants them, who reads the device's state ends
\* up with the one it is in, services told to stop end, or have a task that was not
\* woken beside one that was, and locks that were dropped are given back.
PluginsSettle == SlotFollows /\ P!ClientsCatchUp /\ S!ServicesSettle /\ W!LocksReturned

\* What does not hold of a service, see ServiceLifecycle.
OneBody == S!OneBody
AnsweredUnlessCancelled == S!AnsweredUnlessCancelled
StoppedResolves == S!StoppedResolves
=============================================================================
