----------------------------- MODULE EarlyEvents -----------------------------
(***************************************************************************)
(* Events published before anybody listens: the queue that Kotlin keeps    *)
(* until the native library is loaded, the buffer that                     *)
(* Runtime::submit_early_event keeps until the runtime exists, its replay  *)
(* by Runtime::init, and the PreMainQueue and the LatestValueSlot that     *)
(* keep values for their subscribers.                                      *)
(*                                                                         *)
(* One channel of each kind stands for all.  A value is a pair of its      *)
(* producer and a number, counted up in the order the producer submits.    *)
(***************************************************************************)
EXTENDS Naturals, Sequences, FiniteSets, SequencesExt

CONSTANTS
  Producers,        \* threads of the platform that publish
  Subscribers,      \* receivers of the queue, and of the slot
  Kinds,            \* the channels producers publish on
  MaxEvents,        \* bound on the values published, by all producers
  PreStartCapacity, \* PRE_START_EARLY_EVENT_CAPACITY
  PublishCapacity,  \* of the queue, as its publishers ask for it
  SubscribeCapacity,\* of the queue, as its subscribers ask for it
  StarterModes,     \* whether the runtime starts on a thread of its own
  None

Starter == "starter"
Threads == Producers \cup {Starter}
Values == Producers \X (1..MaxEvents)
Job == [kind : {"queue", "latest"}, value : Values]

ASSUME EarlyEventsAssumption ==
  /\ Starter \notin Producers /\ IsFiniteSet(Producers)
  /\ Kinds \subseteq {"queue", "latest"}
  /\ MaxEvents \in Nat
  /\ PreStartCapacity \in Nat \ {0}
  /\ PublishCapacity \in Nat /\ SubscribeCapacity \in Nat
  /\ StarterModes \subseteq BOOLEAN
  /\ None \notin Threads \cup Nat \cup Values \cup Job

VARIABLES
  pc,          \* thread -> where it is
  job,         \* thread -> the event it submits
  submitted,   \* producer -> values it published
  separate,    \* whether the runtime starts on a thread of its own
  started,     \* progress of IstmoRuntime.start and Runtime::init
  pendingEarlyQueue, \* Kotlin's queue
  kotlin_lock, \* who holds its monitor
  pre_start,   \* PRE_START_EARLY_EVENTS
  pre_lock,    \* who holds its mutex
  pending,     \* what init took from it and has not replayed yet
  capacity,    \* of the PreMainQueue, None until someone asks for it
  buffered,    \* its buffer
  attached,    \* its subscribers, live or not
  slot,        \* value of the LatestValueSlot
  slot_subscribers, \* its subscribers
  receiver,    \* subscriber -> its receiver
  received,    \* subscriber -> what was sent to it
  log,         \* history: values published on the PreMainQueue
  joined,      \* history: subscriber -> Len(log) when it subscribed
  latest,      \* history: producer -> last value it saw published on the slot
  arrived,     \* history: values published on either
  overflowed   \* history: values dropped from a full pre_start

callVars == <<pc, job, submitted>>
kotlinVars == <<pendingEarlyQueue, kotlin_lock>>
preVars == <<pre_start, pre_lock, overflowed>>
queueVars == <<capacity, buffered, attached, log, joined>>
slotVars == <<slot, slot_subscribers, latest>>
subscriberVars == <<receiver, received>>
startVars == <<separate, started>>
vars == <<callVars, startVars, kotlinVars, preVars, pending, queueVars, slotVars,
          subscriberVars, arrived>>

Submitted == {v \in Values : v[2] <= submitted[v[1]]}
Loaded == started # "before"
GlobalSet == started \notin {"before", "loaded"}

TypeOK ==
  /\ pc \in [Threads -> {"idle", "flush", "check", "push", "dispatch"}]
  /\ job \in [Threads -> Job \cup {None}]
  /\ submitted \in [Producers -> 0..MaxEvents]
  /\ separate \in StarterModes
  /\ started \in {"before", "loaded", "set", "replay", "flush", "up"}
  /\ pendingEarlyQueue \in Seq(Values)
  /\ kotlin_lock \in Threads \cup {None}
  /\ pre_start \in Seq(Job) /\ Len(pre_start) <= PreStartCapacity
  /\ pre_lock \in Threads \cup {None}
  /\ pending \in Seq(Job)
  /\ capacity \in {PublishCapacity, SubscribeCapacity, None}
  /\ buffered \in Seq(Values)
  /\ Len(buffered) <= IF capacity = None THEN 0 ELSE capacity
  /\ attached \subseteq Subscribers
  /\ slot \in Values \cup {None}
  /\ slot_subscribers \subseteq Subscribers
  /\ receiver \in [Subscribers -> {"none", "queue", "latest", "dropped"}]
  /\ received \in [Subscribers -> Seq(Values)]
  /\ log \in Seq(Values)
  /\ joined \in [Subscribers -> Nat]
  /\ latest \in [Producers -> 0..MaxEvents]
  /\ arrived \subseteq Values
  /\ overflowed \subseteq Values

Init ==
  /\ pc = [t \in Threads |-> "idle"]
  /\ job = [t \in Threads |-> None]
  /\ submitted = [p \in Producers |-> 0]
  /\ separate \in StarterModes
  /\ started = "before"
  /\ pendingEarlyQueue = <<>>
  /\ kotlin_lock = None
  /\ pre_start = <<>>
  /\ pre_lock = None
  /\ pending = <<>>
  /\ capacity = None
  /\ buffered = <<>>
  /\ attached = {}
  /\ slot = None
  /\ slot_subscribers = {}
  /\ receiver = [s \in Subscribers |-> "none"]
  /\ received = [s \in Subscribers |-> <<>>]
  /\ log = <<>>
  /\ joined = [s \in Subscribers |-> 0]
  /\ latest = [p \in Producers |-> 0]
  /\ arrived = {}
  /\ overflowed = {}

-----------------------------------------------------------------------------
(* The store.                                                              *)

Live == {s \in Subscribers : receiver[s] \in {"queue", "latest"}}

\* EarlyEventStore::queue: the first capacity asked for stays.
QueueCapacity(asked) == IF capacity = None THEN asked ELSE capacity

SendTo(subscribers, value) ==
  received' = [s \in Subscribers |->
                 IF s \in subscribers \cap Live THEN Append(received[s], value)
                                                ELSE received[s]]

\* PreMainQueue::publish: into the buffer if the list of subscribers is
\* empty, else to the subscribers; the send prunes those whose receiver is
\* gone.
PublishQueue(value) ==
  LET cap == QueueCapacity(PublishCapacity) IN
  /\ capacity' = cap
  /\ log' = Append(log, value)
  /\ \/ /\ attached = {}
        /\ buffered' = IF cap = 0 THEN buffered
                       ELSE Append(IF Len(buffered) = cap THEN Tail(buffered) ELSE buffered, value)
        /\ UNCHANGED <<attached, received>>
     \/ /\ attached # {}
        /\ SendTo(attached, value)
        /\ attached' = attached \cap Live
        /\ UNCHANGED buffered
  /\ UNCHANGED <<joined, slotVars, receiver>>

\* LatestValueSlot::publish.
PublishLatest(value) ==
  /\ SendTo(slot_subscribers, value)
  /\ slot_subscribers' = slot_subscribers \cap Live
  /\ slot' = value
  /\ latest' = [latest EXCEPT ![value[1]] = IF @ > value[2] THEN @ ELSE value[2]]
  /\ UNCHANGED <<queueVars, receiver>>

\* dispatch_inbound for Frame::EarlyEvent.
Publish(event) ==
  /\ \/ event.kind = "queue" /\ PublishQueue(event.value)
     \/ event.kind = "latest" /\ PublishLatest(event.value)
  /\ arrived' = arrived \cup {event.value}

-----------------------------------------------------------------------------
(* Submitting.                                                             *)

\* Unless the runtime has a starter thread of its own, the producers are
\* callbacks of the thread that starts it.
ProducerRuns == separate \/ started \in {"before", "loaded", "up"}
StarterRuns == separate \/ \A p \in Producers : pc[p] = "idle"

\* IstmoRuntime.publishEarlyQueue.
publishEarlyQueue(p) ==
  /\ ProducerRuns
  /\ "queue" \in Kinds
  /\ pc[p] = "idle"
  /\ Cardinality(Submitted) < MaxEvents
  /\ kotlin_lock = None
  /\ kotlin_lock' = p
  /\ submitted' = [submitted EXCEPT ![p] = @ + 1]
  /\ pendingEarlyQueue' = Append(pendingEarlyQueue, <<p, submitted'[p]>>)
  /\ pc' = [pc EXCEPT ![p] = "flush"]
  /\ UNCHANGED <<job, startVars, preVars, pending, queueVars, slotVars,
                 subscriberVars, arrived>>

\* nativeSubmitEarlyLatest, once the library is there.
SubmitLatest(p) ==
  /\ ProducerRuns
  /\ "latest" \in Kinds
  /\ Loaded
  /\ pc[p] = "idle"
  /\ Cardinality(Submitted) < MaxEvents
  /\ submitted' = [submitted EXCEPT ![p] = @ + 1]
  /\ job' = [job EXCEPT ![p] = [kind |-> "latest", value |-> <<p, submitted'[p]>>]]
  /\ pc' = [pc EXCEPT ![p] = "check"]
  /\ UNCHANGED <<startVars, kotlinVars, preVars, pending, queueVars, slotVars,
                 subscriberVars, arrived>>

\* flushPendingEarlyQueueLocked: the head is submitted, and removed when that
\* returned; without the library the call throws, and the queue stays.
Flush(t) ==
  /\ pc[t] = "flush"
  /\ \/ /\ pendingEarlyQueue = <<>> \/ ~Loaded
        /\ kotlin_lock' = None
        /\ pc' = [pc EXCEPT ![t] = "idle"]
        /\ UNCHANGED job
     \/ /\ pendingEarlyQueue # <<>> /\ Loaded
        /\ job' = [job EXCEPT ![t] = [kind |-> "queue", value |-> Head(pendingEarlyQueue)]]
        /\ pc' = [pc EXCEPT ![t] = "check"]
        /\ UNCHANGED kotlin_lock
  /\ started' = IF t = Starter /\ pc'[t] = "idle" THEN "up" ELSE started
  /\ UNCHANGED <<separate, submitted, pendingEarlyQueue, preVars, pending,
                 queueVars, slotVars, subscriberVars, arrived>>

\* Variant: the mutex is released between the check and the push.
CheckUnlocking(t) ==
  /\ pc[t] = "check"
  /\ pre_lock = None
  /\ pc' = [pc EXCEPT ![t] = IF GlobalSet THEN "dispatch" ELSE "push"]
  /\ UNCHANGED <<job, submitted, startVars, kotlinVars, preVars, pending,
                 queueVars,
                 slotVars, subscriberVars, arrived>>

\* submit_early_event: it looks for the runtime with the mutex held, and
\* holds on to it if there is none.
Check(t) ==
  /\ pc[t] = "check"
  /\ pre_lock = None
  /\ \/ /\ GlobalSet
        /\ pc' = [pc EXCEPT ![t] = "dispatch"]
        /\ UNCHANGED pre_lock
     \/ /\ ~GlobalSet
        /\ pc' = [pc EXCEPT ![t] = "push"]
        /\ pre_lock' = t
  /\ UNCHANGED <<job, submitted, startVars, kotlinVars, pre_start, overflowed,
                 pending,
                 queueVars, slotVars, subscriberVars, arrived>>

\* The submission returns.
Return(t) ==
  /\ job' = [job EXCEPT ![t] = None]
  /\ \/ /\ job[t].kind = "queue"
        /\ pendingEarlyQueue' = Tail(pendingEarlyQueue)
        /\ pc' = [pc EXCEPT ![t] = "flush"]
     \/ /\ job[t].kind = "latest"
        /\ pc' = [pc EXCEPT ![t] = "idle"]
        /\ UNCHANGED pendingEarlyQueue
  /\ UNCHANGED <<submitted, kotlin_lock>>

\* No runtime: the event is buffered, the oldest one dropped if need be.
Push(t) ==
  /\ pc[t] = "push"
  /\ Return(t)
  /\ \/ /\ Len(pre_start) = PreStartCapacity
        /\ pre_start' = Append(Tail(pre_start), job[t])
        /\ overflowed' = overflowed \cup {Head(pre_start).value}
     \/ /\ Len(pre_start) < PreStartCapacity
        /\ pre_start' = Append(pre_start, job[t])
        /\ UNCHANGED overflowed
  /\ pre_lock' = None
  /\ UNCHANGED <<startVars, pending, queueVars, slotVars, subscriberVars,
                 arrived>>

\* A runtime: the event is dispatched, with the mutex released.
Dispatch(t) ==
  /\ pc[t] = "dispatch"
  /\ Return(t)
  /\ Publish(job[t])
  /\ UNCHANGED <<startVars, preVars, pending>>
-----------------------------------------------------------------------------
(* Starting.                                                               *)

\* System.loadLibrary.
LoadLibrary ==
  /\ StarterRuns
  /\ started = "before"
  /\ started' = "loaded"
  /\ UNCHANGED <<separate, callVars, kotlinVars, preVars, pending, queueVars,
                 slotVars, subscriberVars, arrived>>

\* Runtime::init installs the runtime ...
SetGlobal ==
  /\ StarterRuns
  /\ started = "loaded"
  /\ started' = "set"
  /\ UNCHANGED <<separate, callVars, kotlinVars, preVars, pending, queueVars,
                 slotVars, subscriberVars, arrived>>

\* ... takes the buffer ...
TakePending ==
  /\ started = "set"
  /\ pre_lock = None
  /\ started' = "replay"
  /\ pending' = pre_start
  /\ pre_start' = <<>>
  /\ UNCHANGED <<separate, callVars, kotlinVars, pre_lock, overflowed, queueVars,
                 slotVars, subscriberVars, arrived>>

\* ... and replays it.
Replay ==
  /\ started = "replay"
  /\ pending # <<>>
  /\ Publish(Head(pending))
  /\ pending' = Tail(pending)
  /\ UNCHANGED <<callVars, startVars, kotlinVars, preVars>>

\* Variant: the queue is left for the next event to flush.
StartWithoutFlush ==
  /\ started = "replay"
  /\ pending = <<>>
  /\ started' = "up"
  /\ UNCHANGED <<separate, callVars, kotlinVars, preVars, pending, queueVars,
                 slotVars, subscriberVars, arrived>>

\* IstmoRuntime.start, after nativeStart.
StartFlush ==
  /\ started = "replay"
  /\ pending = <<>>
  /\ kotlin_lock = None
  /\ started' = "flush"
  /\ kotlin_lock' = Starter
  /\ pc' = [pc EXCEPT ![Starter] = "flush"]
  /\ UNCHANGED <<separate, job, submitted, pendingEarlyQueue, preVars, pending,
                 queueVars, slotVars, subscriberVars, arrived>>
-----------------------------------------------------------------------------
(* Subscribing.                                                            *)

\* PreMainQueue::subscribe: the buffer goes to the first subscriber.
SubscribeQueue(s) ==
  /\ GlobalSet
  /\ "queue" \in Kinds
  /\ receiver[s] = "none"
  /\ receiver' = [receiver EXCEPT ![s] = "queue"]
  /\ capacity' = QueueCapacity(SubscribeCapacity)
  /\ received' = [received EXCEPT ![s] = buffered]
  /\ buffered' = <<>>
  /\ attached' = attached \cup {s}
  /\ joined' = [joined EXCEPT ![s] = Len(log)]
  /\ UNCHANGED <<callVars, startVars, kotlinVars, preVars, pending, log,
                 slotVars, arrived>>

\* LatestValueSlot::subscribe: the receiver is primed with the value.
SubscribeLatest(s) ==
  /\ GlobalSet
  /\ "latest" \in Kinds
  /\ receiver[s] = "none"
  /\ receiver' = [receiver EXCEPT ![s] = "latest"]
  /\ received' = IF slot = None THEN received ELSE [received EXCEPT ![s] = <<slot>>]
  /\ slot_subscribers' = slot_subscribers \cup {s}
  /\ UNCHANGED <<callVars, startVars, kotlinVars, preVars, pending, queueVars,
                 slot, latest, arrived>>

\* A receiver is dropped; its sender stays in the list.
DropReceiver(s) ==
  /\ s \in Live
  /\ receiver' = [receiver EXCEPT ![s] = "dropped"]
  /\ received' = [received EXCEPT ![s] = <<>>]
  /\ UNCHANGED <<callVars, startVars, kotlinVars, preVars, pending, queueVars,
                 slotVars, arrived>>
-----------------------------------------------------------------------------
SubmitStep(t) == Flush(t) \/ Check(t) \/ Push(t) \/ Dispatch(t)
StartStep == SetGlobal \/ TakePending \/ Replay \/ StartFlush

Next ==
  \/ \E p \in Producers : publishEarlyQueue(p) \/ SubmitLatest(p)
  \/ \E t \in Threads : SubmitStep(t)
  \/ LoadLibrary \/ StartStep
  \/ \E s \in Subscribers : SubscribeQueue(s) \/ SubscribeLatest(s) \/ DropReceiver(s)

Spec == Init /\ [][Next]_vars

\* The threads run, and once the library is loaded the runtime starts.
FairSpec == Spec /\ (\A t \in Threads : WF_vars(SubmitStep(t))) /\ WF_vars(StartStep)
-----------------------------------------------------------------------------
(* Properties.                                                             *)

Quiet == started = "up" /\ \A t \in Threads : pc[t] = "idle"

\* Once the runtime is up and no submission is on its way, no event is left
\* in a buffer before the runtime: each was published, or dropped from a full
\* pre_start.  (submit_early_event: "The lock must stay held across the
\* GLOBAL check so init cannot drain the buffer between the check and the
\* push.")
NothingStranded ==
  Quiet =>
    /\ pre_start = <<>>
    /\ Submitted = arrived \cup overflowed

\* No event is published twice.
PublishedOnce ==
  \A i, j \in DOMAIN log : log[i] = log[j] => i = j

\* A subscriber of the queue has every value published since it joined, after
\* a backlog that ends with the last value before; a queue nobody has
\* subscribed to has the last values, as many as it holds.
\* (runtime.rs: "Retains up to capacity values; overflow drops the oldest
\* entry.  Late subscribers receive the buffered items in publish order.")
SubscribersMissNothing ==
  /\ \A s \in attached \cap Live :
       /\ IsSuffix(received[s], log)
       /\ Len(received[s]) >= Len(log) - joined[s]
  /\ capacity # None /\ (\A s \in Subscribers : receiver[s] \in {"none", "latest"}) =>
       /\ IsSuffix(buffered, log)
       /\ Len(buffered) = IF Len(log) < capacity THEN Len(log) ELSE capacity

\* Only one subscriber gets the backlog.
BacklogOnce ==
  \A s, t \in attached \cap Live :
    s # t => Len(received[s]) = Len(log) - joined[s]
             \/ Len(received[t]) = Len(log) - joined[t]

\* What a producer submits is published in the order it submitted it.
\* (runtime.rs: "Replayed in order by Runtime::init".)
PublishedInOrder ==
  \A i, j \in DOMAIN log :
    i < j /\ log[i][1] = log[j][1] => log[i][2] < log[j][2]

\* The slot never goes back to an older value of a producer.
\* (early_events.rs: "keeps only the most recent value".)
LatestIsMostRecent ==
  slot # None => slot[2] = latest[slot[1]]

\* When the runtime is started by the thread that publishes, nothing that was
\* buffered before is overtaken, on either channel.
OneThreadKeepsOrder == ~separate => PublishedInOrder /\ LatestIsMostRecent

\* Every subscriber of the slot has seen the value it keeps, as its last.
SlotSubscribersAgree ==
  \A s \in slot_subscribers \cap Live :
    slot # None => received[s] # <<>> /\ Last(received[s]) = slot

\* Once the library is loaded, a time comes when every event submitted so far
\* is published, or was dropped from a full pre_start.  (FairSpec)
EventsArrive == Loaded ~> Submitted = arrived \cup overflowed

\* The variables have their types; each event that was submitted is published
\* once or was dropped by a full buffer; and however they race publications,
\* subscribers get everything since they joined, one of them the backlog, and
\* the slot's value as their last.
NoneLostOrTwice ==
  /\ TypeOK /\ NothingStranded /\ PublishedOnce
  /\ SubscribersMissNothing /\ BacklogOnce /\ SlotSubscribersAgree

\* Both: events are neither lost nor repeated, and those of one thread in order.
EventsKept == NoneLostOrTwice /\ OneThreadKeepsOrder
=============================================================================
