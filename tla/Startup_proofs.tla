--------------------------- MODULE Startup_proofs ---------------------------
(***************************************************************************)
(* However many threads publish and subscribe, and whatever the buffers    *)
(* hold, an early event is published once, or dropped from a full buffer,  *)
(* and its subscribers miss nothing.  And whoever starts the runtime, with *)
(* whatever name, plugins and width of a number, the process comes up once *)
(* and whole, and a frame that crosses to the platform keeps its meaning.  *)
(***************************************************************************)
EXTENDS MCStartup, FiniteSetTheorems, SequenceTheorems, TLAPS

-----------------------------------------------------------------------------
(* Threads and locks.                                                      *)

Submits(t, kind) == job[t] # None /\ job[t].kind = kind

\* A thread that submits an event of Kotlin's queue holds the monitor, one that
\* pushes the mutex.
LockOf(t) ==
  /\ job[t] = None <=> pc[t] \in {"idle", "flush"}
  /\ kotlin_lock = t <=> pc[t] = "flush" \/ Submits(t, "queue")
  /\ pre_lock = t <=> pc[t] = "push"
  /\ Submits(t, "queue") =>
       pendingEarlyQueue # <<>> /\ job[t].value = Head(pendingEarlyQueue)
  /\ Submits(t, "latest") => t \in Producers /\ job[t].value = <<t, submitted[t]>>

Locks == \A t \in Threads : LockOf(t)

\* How far the start is, and what is over by then.
Phases ==
  /\ pc[Starter] # "idle" <=> started = "flush"
  /\ \A t \in Threads :
       /\ pc[t] \in {"check", "push", "dispatch"} => Loaded
       /\ pc[t] = "dispatch" => GlobalSet
       /\ pc[t] = "push" => started \in {"loaded", "set"}
  /\ started \in {"replay", "flush", "up"} => pre_start = <<>>
  /\ started # "replay" => pending = <<>>
  /\ pendingEarlyQueue # <<>> /\ kotlin_lock = None => started \notin {"flush", "up"}
  /\ ~separate /\ started \in {"set", "replay", "flush"} => \A p \in Producers : pc[p] = "idle"

-----------------------------------------------------------------------------
(* The way of an event: submitted, buffered, being replayed, published.     *)

\* Values that come one after the other are never the same; those of a producer
\* are in its order, unless it is free to run while the runtime starts.
Precedes(free, v, w) ==
  /\ v # w
  /\ ~free /\ v[1] = w[1] => v[2] < w[2]

Follow(free, e, f) == e.kind = f.kind => Precedes(free, e.value, f.value)

InOrder(free, s) == \A i, j \in DOMAIN s : i < j => Follow(free, s[i], s[j])
AllFollow(free, E, F) == \A e \in E, f \in F : Follow(free, e, f)

Entry(v) == [kind |-> "queue", value |-> v]
Entries(s) == [i \in DOMAIN s |-> Entry(s[i])]
In(s) == {s[i] : i \in DOMAIN s}

\* Published, being replayed, buffered; handed over: in Kotlin's queue, or held
\* by their threads.
ChainOf(free, P, R, B, K, H) ==
  /\ InOrder(free, P) /\ InOrder(free, R) /\ InOrder(free, B) /\ InOrder(free, K)
  /\ AllFollow(free, In(P), In(R)) /\ AllFollow(free, In(P), In(B))
  /\ AllFollow(free, In(P), In(K)) /\ AllFollow(free, In(P), H)
  /\ AllFollow(free, In(R), In(B))
  /\ AllFollow(free, In(R), In(K)) /\ AllFollow(free, In(R), H)
  /\ AllFollow(free, In(B), In(K)) /\ AllFollow(free, In(B), H)

Held == {job[t] : t \in {u \in Threads : Submits(u, "latest")}}

Chain == ChainOf(separate, Entries(log), pending, pre_start, Entries(pendingEarlyQueue), Held)

\* What is not published on the slot yet is newer than what is.
Newer ==
  /\ \A e \in In(pending) \cup In(pre_start) \cup Held :
       ~separate /\ e.kind = "latest" => latest[e.value[1]] < e.value[2]
  /\ ~separate => LatestIsMostRecent
  /\ \A p \in Producers : latest[p] <= submitted[p]

\* An event is somewhere.
ValuesOf(E) == {e.value : e \in E}

Located ==
  Submitted = ValuesOf(In(pending)) \cup ValuesOf(In(pre_start)) \cup In(pendingEarlyQueue)
                \cup ValuesOf(Held) \cup arrived \cup overflowed

LoggedSubmitted == In(log) \subseteq Submitted

Way == Chain /\ Newer /\ Located /\ LoggedSubmitted

-----------------------------------------------------------------------------
(* Subscribers.                                                            *)

Lists ==
  /\ \A s \in Subscribers :
       /\ receiver[s] = "queue" => s \in attached
       /\ s \in attached => receiver[s] \in {"queue", "dropped"}
       /\ s \in slot_subscribers => receiver[s] \in {"latest", "dropped"}
  /\ attached # {} => buffered = <<>>
  /\ capacity = None => log = <<>> /\ attached = {}

EndsWith(t, s) ==
  /\ Len(s) <= Len(t)
  /\ \A i \in 1..Len(s) : s[i] = t[Len(t) - Len(s) + i]

Sent ==
  /\ EndsWith(log, buffered)
  /\ \A s \in Subscribers : receiver[s] = "queue" =>
       /\ EndsWith(log, received[s])
       /\ joined[s] <= Len(log) /\ Len(received[s]) >= Len(log) - joined[s]
  /\ capacity # None /\ (\A s \in Subscribers : receiver[s] \in {"none", "latest"}) =>
       Len(buffered) = IF Len(log) < capacity THEN Len(log) ELSE capacity

Store == Lists /\ Sent /\ BacklogOnce /\ SlotSubscribersAgree

EventInv == TypeOK /\ Locks /\ Phases /\ Way /\ Store

-----------------------------------------------------------------------------
(* Types.                                                                  *)

LEMMA InitTypeOK == Init => TypeOK
<1> SUFFICES ASSUME Init PROVE TypeOK
  OBVIOUS
<1> USE EarlyEventsAssumption
<1>1. Len(<<>>) = 0
  OBVIOUS
<1> QED
  BY <1>1 DEF Init, TypeOK, Threads

LEMMA NewValue ==
  ASSUME TypeOK, NEW p \in Producers, Cardinality(Submitted) < MaxEvents
  PROVE  submitted[p] + 1 \in 0..MaxEvents /\ <<p, submitted[p] + 1>> \in Values
<1> DEFINE n == submitted[p]  own == {<<p, i>> : i \in 1..n}
<1>1. n \in 0..MaxEvents /\ MaxEvents \in Nat /\ n \in Int /\ MaxEvents \in Int /\ 1 \in Int
  BY EarlyEventsAssumption DEF TypeOK
<1>2. IsFiniteSet(Values)
  <2>1. IsFiniteSet(1..MaxEvents)
    BY <1>1, FS_Interval
  <2>2. IsFiniteSet(Producers)
    BY EarlyEventsAssumption
  <2> QED
    BY <2>1, <2>2, FS_Product DEF Values
<1>3. IsFiniteSet(Submitted)
  BY <1>2, FS_Subset DEF Submitted
<1>4. own \subseteq Submitted
  BY <1>1 DEF Submitted, Values
<1>5. IsFiniteSet(own) /\ Cardinality(own) <= Cardinality(Submitted)
  BY <1>3, <1>4, FS_Subset
<1>6. IsFiniteSet(1..n) /\ Cardinality(1..n) = n
  <2>1. IsFiniteSet(1..n) /\ Cardinality(1..n) = IF 1 > n THEN 0 ELSE n - 1 + 1
    BY <1>1, FS_Interval
  <2> QED
    BY <2>1, <1>1
<1>7. Cardinality(own) = n
  <2> DEFINE f == [i \in 1..n |-> <<p, i>>]
  <2>1. f \in [1..n -> own] /\ \A i, j \in 1..n : f[i] = f[j] => i = j
    OBVIOUS
  <2>2. \A t \in own : \E i \in 1..n : f[i] = t
    OBVIOUS
  <2>3. f \in Injection(1..n, own) /\ f \in Surjection(1..n, own)
    BY <2>1, <2>2 DEF Injection, IsInjective, Surjection
  <2>4. ExistsBijection(1..n, own)
    BY <2>3 DEF ExistsBijection, Bijection
  <2> HIDE DEF own
  <2> QED
    BY <2>4, <1>6, FS_Bijection
<1>8. Cardinality(Submitted) \in Nat
  BY <1>3, FS_CardinalityType
<1> QED
  BY <1>1, <1>5, <1>7, <1>8 DEF Values

\* Appending a value, and taking the tail, of a sequence that is typed.
LEMMA Typed ==
  ASSUME NEW E, NEW s \in Seq(E)
  PROVE  /\ \A e \in E : Append(s, e) \in Seq(E) /\ Len(Append(s, e)) = Len(s) + 1
         /\ s # <<>> => /\ Tail(s) \in Seq(E) /\ Head(s) \in E
                        /\ Len(s) > 0 /\ Len(Tail(s)) = Len(s) - 1
         /\ Len(s) \in Nat
  BY HeadTailProperties, AppendProperties

LEMMA PublishTypeOK ==
  ASSUME TypeOK, NEW event \in Job, Publish(event)
  PROVE  /\ capacity' \in {PublishCapacity, SubscribeCapacity, None}
         /\ buffered' \in Seq(Values)
         /\ Len(buffered') <= IF capacity' = None THEN 0 ELSE capacity'
         /\ attached' \subseteq Subscribers
         /\ slot' \in Values \cup {None}
         /\ slot_subscribers' \subseteq Subscribers
         /\ receiver' \in [Subscribers -> {"none", "queue", "latest", "dropped"}]
         /\ received' \in [Subscribers -> Seq(Values)]
         /\ log' \in Seq(Values)
         /\ joined' \in [Subscribers -> Nat]
         /\ latest' \in [Producers -> 0..MaxEvents]
         /\ arrived' \subseteq Values
<1> DEFINE v == event.value
<1>1. v \in Values /\ v[1] \in Producers /\ v[2] \in 1..MaxEvents /\ arrived' \subseteq Values
  BY DEF Job, Values, Publish, TypeOK
<1>2. None \notin Nat /\ PublishCapacity \in Nat /\ SubscribeCapacity \in Nat /\ MaxEvents \in Nat
  BY EarlyEventsAssumption
<1>3. ASSUME NEW E, SendTo(E, v) PROVE received' \in [Subscribers -> Seq(Values)]
  BY <1>1, <1>3 DEF SendTo, TypeOK
<1>4. CASE event.kind = "queue" /\ PublishQueue(v)
  <2> DEFINE cap == QueueCapacity(PublishCapacity)
  <2>1. UNCHANGED <<joined, slot, slot_subscribers, latest, receiver>>
    BY <1>4 DEF PublishQueue, slotVars
  <2>2. capacity' = cap /\ cap \in {PublishCapacity, SubscribeCapacity, None} \ {None}
        /\ cap \in Nat
    BY <1>4, <1>2 DEF PublishQueue, QueueCapacity, TypeOK
  <2>3. log' \in Seq(Values)
    BY <1>4, <1>1, Typed DEF PublishQueue, TypeOK
  <2>4. attached' \subseteq Subscribers
    BY <1>4 DEF PublishQueue, TypeOK
  <2>5. received' \in [Subscribers -> Seq(Values)]
    BY <1>4, <1>3 DEF PublishQueue, TypeOK
  <2>6. Len(buffered) <= cap /\ Len(buffered) \in Nat /\ buffered \in Seq(Values)
    BY <2>2, Typed DEF TypeOK, QueueCapacity
  <2>7. buffered' \in Seq(Values) /\ Len(buffered') <= cap
    <3> HIDE DEF cap, v
    <3>1. CASE buffered' = buffered
      BY <3>1, <2>6
    <3>2. CASE cap # 0 /\ buffered' = Append(IF Len(buffered) = cap THEN Tail(buffered) ELSE buffered, v)
      <4>1. CASE Len(buffered) = cap
        BY <4>1, <3>2, <2>6, <2>2, <1>1, Typed
      <4>2. CASE Len(buffered) # cap
        BY <4>2, <3>2, <2>6, <2>2, <1>1, Typed
      <4> QED
        BY <4>1, <4>2
    <3> QED
      BY <3>1, <3>2, <1>4 DEF PublishQueue, cap, v
  <2> QED
    BY <1>1, <2>1, <2>2, <2>3, <2>4, <2>5, <2>7 DEF TypeOK
<1>5. CASE event.kind = "latest" /\ PublishLatest(v)
  <2>1. UNCHANGED <<capacity, buffered, attached, log, joined, receiver>>
    BY <1>5 DEF PublishLatest, queueVars
  <2>2. slot' = v /\ slot_subscribers' \subseteq Subscribers
    BY <1>5 DEF PublishLatest, TypeOK
  <2>3. received' \in [Subscribers -> Seq(Values)]
    BY <1>5, <1>3 DEF PublishLatest
  <2>4. latest' \in [Producers -> 0..MaxEvents]
    <3>1. latest' = [latest EXCEPT ![v[1]] = IF @ > v[2] THEN @ ELSE v[2]]
      BY <1>5 DEF PublishLatest
    <3>2. latest[v[1]] \in 0..MaxEvents /\ v[2] \in 0..MaxEvents
      BY <1>1, <1>2 DEF TypeOK
    <3>3. latest \in [Producers -> 0..MaxEvents]
      BY DEF TypeOK
    <3> HIDE DEF v
    <3> QED
      BY <3>1, <3>2, <3>3
  <2> QED
    BY <1>1, <2>1, <2>2, <2>3, <2>4 DEF TypeOK
<1> QED
  BY <1>4, <1>5 DEF Publish

LEMMA EarlyQueueTypeOK ==
  ASSUME TypeOK, NEW p \in Producers, publishEarlyQueue(p)
  PROVE  TypeOK'
<1>1. submitted[p] + 1 \in 0..MaxEvents /\ <<p, submitted[p] + 1>> \in Values
  BY NewValue DEF publishEarlyQueue
<1>2. submitted' = [submitted EXCEPT ![p] = submitted[p] + 1]
  BY DEF publishEarlyQueue
<1>3. submitted'[p] = submitted[p] + 1
  BY <1>2 DEF TypeOK
<1>4. pendingEarlyQueue' \in Seq(Values)
  BY <1>1, <1>3, Typed DEF publishEarlyQueue, TypeOK
<1> QED
  BY <1>1, <1>2, <1>4 DEF publishEarlyQueue, TypeOK, Threads, callVars, kotlinVars, preVars,
     queueVars, slotVars, subscriberVars, startVars, vars

LEMMA LatestTypeOK ==
  ASSUME TypeOK, NEW p \in Producers, SubmitLatest(p)
  PROVE  TypeOK'
<1>1. submitted[p] + 1 \in 0..MaxEvents /\ <<p, submitted[p] + 1>> \in Values
  BY NewValue DEF SubmitLatest
<1>2. submitted' = [submitted EXCEPT ![p] = submitted[p] + 1]
  BY DEF SubmitLatest
<1>3. submitted'[p] = submitted[p] + 1
  BY <1>2 DEF TypeOK
<1>4. [kind |-> "latest", value |-> <<p, submitted'[p]>>] \in Job
  BY <1>1, <1>3 DEF Job
<1>5. submitted' \in [Producers -> 0..MaxEvents]
  BY <1>1, <1>2 DEF TypeOK
<1>6. job' \in [Threads -> Job \cup {None}]
  BY <1>4 DEF SubmitLatest, TypeOK
<1>7. pc' \in [Threads -> {"idle", "flush", "check", "push", "dispatch"}]
  BY DEF SubmitLatest, TypeOK
<1> QED
  BY <1>5, <1>6, <1>7 DEF SubmitLatest, TypeOK, callVars, kotlinVars, preVars, queueVars,
     slotVars, subscriberVars, startVars, vars

LEMMA FlushTypeOK ==
  ASSUME TypeOK, NEW t \in Threads, Flush(t)
  PROVE  TypeOK'
<1>1. job' \in [Threads -> Job \cup {None}]
  <2>1. CASE job' = job
    BY <2>1 DEF TypeOK
  <2>2. CASE pendingEarlyQueue # <<>>
             /\ job' = [job EXCEPT ![t] = [kind |-> "queue", value |-> Head(pendingEarlyQueue)]]
    <3>1. Head(pendingEarlyQueue) \in Values
      BY <2>2, Typed DEF TypeOK
    <3> QED
      BY <2>2, <3>1 DEF TypeOK, Job
  <2> QED
    BY <2>1, <2>2 DEF Flush
<1>2. pc' \in [Threads -> {"idle", "flush", "check", "push", "dispatch"}]
  BY DEF Flush, TypeOK
<1>3. kotlin_lock' \in Threads \cup {None}
      /\ started' \in {"before", "loaded", "set", "replay", "flush", "up"}
  BY DEF Flush, TypeOK
<1> QED
  BY <1>1, <1>2, <1>3 DEF Flush, TypeOK, callVars, kotlinVars, preVars, queueVars, slotVars,
     subscriberVars, startVars, vars

LEMMA CheckTypeOK ==
  ASSUME TypeOK, NEW t \in Threads, Check(t)
  PROVE  TypeOK'
BY DEF Check, TypeOK, callVars, kotlinVars, preVars, queueVars, slotVars, subscriberVars,
   startVars, vars

LEMMA ReturnTypeOK ==
  ASSUME TypeOK, Locks, NEW t \in Threads, pc[t] \in {"push", "dispatch"}, Return(t)
  PROVE  /\ job[t] \in Job
         /\ job' \in [Threads -> Job \cup {None}]
         /\ pc' \in [Threads -> {"idle", "flush", "check", "push", "dispatch"}]
         /\ pendingEarlyQueue' \in Seq(Values)
         /\ UNCHANGED <<submitted, kotlin_lock>>
<1>1. job[t] \in Job
  BY DEF Locks, LockOf, TypeOK
<1>2. job' \in [Threads -> Job \cup {None}]
  BY DEF Return, TypeOK
<1>3. pc' \in [Threads -> {"idle", "flush", "check", "push", "dispatch"}]
  BY DEF Return, TypeOK
<1>4. pendingEarlyQueue' \in Seq(Values)
  <2>1. CASE job[t].kind = "queue"
    <3>1. pendingEarlyQueue # <<>> /\ pendingEarlyQueue' = Tail(pendingEarlyQueue)
      BY <2>1, <1>1, EarlyEventsAssumption DEF Return, Locks, LockOf, Submits
    <3> QED
      BY <3>1, Typed DEF TypeOK
  <2>2. CASE job[t].kind # "queue"
    BY <2>2 DEF Return, TypeOK
  <2> QED
    BY <2>1, <2>2
<1> QED
  BY <1>1, <1>2, <1>3, <1>4 DEF Return

LEMMA PushTypeOK ==
  ASSUME TypeOK, Locks, NEW t \in Threads, Push(t)
  PROVE  TypeOK'
<1>1. /\ job[t] \in Job
      /\ job' \in [Threads -> Job \cup {None}]
      /\ pc' \in [Threads -> {"idle", "flush", "check", "push", "dispatch"}]
      /\ pendingEarlyQueue' \in Seq(Values)
      /\ UNCHANGED <<submitted, kotlin_lock>>
  BY ReturnTypeOK DEF Push
<1>2. pre_start \in Seq(Job) /\ Len(pre_start) <= PreStartCapacity /\ PreStartCapacity \in Nat \ {0}
  BY EarlyEventsAssumption DEF TypeOK
<1>3. pre_start' \in Seq(Job) /\ Len(pre_start') <= PreStartCapacity /\ overflowed' \subseteq Values
  <2>1. CASE Len(pre_start) = PreStartCapacity
    <3>1. pre_start # <<>>
      BY <2>1, <1>2
    <3>2. Tail(pre_start) \in Seq(Job) /\ Head(pre_start) \in Job
          /\ Len(Tail(pre_start)) = Len(pre_start) - 1
      BY <3>1, <1>2, Typed
    <3>3. pre_start' = Append(Tail(pre_start), job[t])
          /\ overflowed' = overflowed \cup {Head(pre_start).value}
      BY <2>1 DEF Push
    <3>4. pre_start' \in Seq(Job) /\ Len(pre_start') = Len(Tail(pre_start)) + 1
      BY <3>2, <3>3, <1>1, Typed
    <3> QED
      BY <3>2, <3>3, <3>4, <2>1, <1>2 DEF TypeOK, Job
  <2>2. CASE Len(pre_start) < PreStartCapacity
    <3>1. pre_start' = Append(pre_start, job[t]) /\ overflowed' = overflowed
      BY <2>2, <1>2 DEF Push
    <3>2. pre_start' \in Seq(Job) /\ Len(pre_start') = Len(pre_start) + 1 /\ Len(pre_start) \in Nat
      BY <3>1, <1>1, <1>2, Typed
    <3> QED
      BY <3>1, <3>2, <2>2, <1>2 DEF TypeOK
  <2> QED
    BY <2>1, <2>2 DEF Push
<1>4. pre_lock' = None
  BY DEF Push
<1>5. UNCHANGED <<separate, started, pending, capacity, buffered, attached, log, joined,
                  slot, slot_subscribers, latest, receiver, received, arrived>>
  BY DEF Push, startVars, queueVars, slotVars, subscriberVars
<1> QED
  BY <1>1, <1>3, <1>4, <1>5 DEF TypeOK

LEMMA DispatchTypeOK ==
  ASSUME TypeOK, Locks, NEW t \in Threads, Dispatch(t)
  PROVE  TypeOK'
<1>1. /\ job[t] \in Job
      /\ job' \in [Threads -> Job \cup {None}]
      /\ pc' \in [Threads -> {"idle", "flush", "check", "push", "dispatch"}]
      /\ pendingEarlyQueue' \in Seq(Values)
      /\ UNCHANGED <<submitted, kotlin_lock>>
  BY ReturnTypeOK DEF Dispatch
<1>2. Publish(job[t])
  BY DEF Dispatch
<1>3. UNCHANGED <<separate, started, pre_start, pre_lock, overflowed, pending>>
  BY DEF Dispatch, startVars, preVars
<1> QED
  BY <1>1, <1>2, <1>3, PublishTypeOK DEF TypeOK

LEMMA LoadLibraryTypeOK ==
  ASSUME TypeOK, LoadLibrary
  PROVE  TypeOK'
BY DEF LoadLibrary, TypeOK, callVars, kotlinVars, preVars, queueVars, slotVars, subscriberVars,
   startVars, vars

LEMMA SetGlobalTypeOK ==
  ASSUME TypeOK, SetGlobal
  PROVE  TypeOK'
BY DEF SetGlobal, TypeOK, callVars, kotlinVars, preVars, queueVars, slotVars, subscriberVars,
   startVars, vars

LEMMA TakePendingTypeOK ==
  ASSUME TypeOK, TakePending
  PROVE  TypeOK'
<1>1. Len(<<>>) = 0 /\ <<>> \in Seq(Job)
  OBVIOUS
<1>2. PreStartCapacity >= 0
  BY EarlyEventsAssumption
<1> QED
  BY <1>1, <1>2 DEF TakePending, TypeOK, callVars, kotlinVars, preVars, queueVars, slotVars,
     subscriberVars, startVars, vars

LEMMA ReplayTypeOK ==
  ASSUME TypeOK, Replay
  PROVE  TypeOK'
<1>1. Head(pending) \in Job /\ pending' \in Seq(Job)
  BY Typed DEF Replay, TypeOK
<1>2. Publish(Head(pending))
  BY DEF Replay
<1>3. UNCHANGED <<pc, job, submitted, separate, started, pendingEarlyQueue, kotlin_lock,
                  pre_start, pre_lock, overflowed>>
  BY DEF Replay, callVars, startVars, kotlinVars, preVars
<1> QED
  BY <1>1, <1>2, <1>3, PublishTypeOK DEF TypeOK

LEMMA StartFlushTypeOK ==
  ASSUME TypeOK, StartFlush
  PROVE  TypeOK'
BY DEF StartFlush, TypeOK, Threads, callVars, kotlinVars, preVars, queueVars, slotVars,
   subscriberVars, startVars, vars

LEMMA SubscribeQueueTypeOK ==
  ASSUME TypeOK, NEW s \in Subscribers, SubscribeQueue(s)
  PROVE  TypeOK'
<1>1. None \notin Nat /\ PublishCapacity \in Nat /\ SubscribeCapacity \in Nat /\ Len(<<>>) = 0
  BY EarlyEventsAssumption
<1>2. capacity' \in Nat /\ capacity' \in {PublishCapacity, SubscribeCapacity}
  BY <1>1 DEF SubscribeQueue, QueueCapacity, TypeOK
<1>3. buffered' = <<>> /\ <<>> \in Seq(Values) /\ Len(buffered') = 0
  BY <1>1 DEF SubscribeQueue
<1>4. Len(buffered') <= IF capacity' = None THEN 0 ELSE capacity'
  BY <1>2, <1>3
<1>5. attached' \subseteq Subscribers
  BY DEF SubscribeQueue, TypeOK
<1>6. received' \in [Subscribers -> Seq(Values)]
  BY DEF SubscribeQueue, TypeOK
<1>7. receiver' \in [Subscribers -> {"none", "queue", "latest", "dropped"}]
  BY DEF SubscribeQueue, TypeOK
<1>8. joined' \in [Subscribers -> Nat]
  BY Typed DEF SubscribeQueue, TypeOK
<1>9. UNCHANGED <<pc, job, submitted, separate, started, pendingEarlyQueue, kotlin_lock,
                  pre_start, pre_lock, overflowed, pending, log, slot, slot_subscribers, latest, arrived>>
  BY DEF SubscribeQueue, callVars, startVars, kotlinVars, preVars, slotVars
<1> QED
  BY <1>2, <1>3, <1>4, <1>5, <1>6, <1>7, <1>8, <1>9 DEF TypeOK

LEMMA SubscribeLatestTypeOK ==
  ASSUME TypeOK, NEW s \in Subscribers, SubscribeLatest(s)
  PROVE  TypeOK'
<1>1. slot = None \/ slot \in Values
  BY DEF TypeOK
<1>2. received' \in [Subscribers -> Seq(Values)]
  BY <1>1 DEF SubscribeLatest, TypeOK
<1>3. receiver' \in [Subscribers -> {"none", "queue", "latest", "dropped"}]
  BY DEF SubscribeLatest, TypeOK
<1>4. slot_subscribers' \subseteq Subscribers
  BY DEF SubscribeLatest, TypeOK
<1> QED
  BY <1>2, <1>3, <1>4 DEF SubscribeLatest, TypeOK, callVars, kotlinVars, preVars, queueVars,
     slotVars, subscriberVars, startVars, vars

LEMMA DropReceiverTypeOK ==
  ASSUME TypeOK, NEW s \in Subscribers, DropReceiver(s)
  PROVE  TypeOK'
<1>1. received' \in [Subscribers -> Seq(Values)]
  BY DEF DropReceiver, TypeOK
<1>2. receiver' \in [Subscribers -> {"none", "queue", "latest", "dropped"}]
  BY DEF DropReceiver, TypeOK
<1> QED
  BY <1>1, <1>2 DEF DropReceiver, TypeOK, callVars, kotlinVars, preVars, queueVars, slotVars,
     subscriberVars, startVars, vars

LEMMA NextTypeOK ==
  ASSUME TypeOK, Locks, [Next]_vars
  PROVE  TypeOK'
<1>1. CASE UNCHANGED vars
  BY <1>1 DEF TypeOK, callVars, kotlinVars, preVars, queueVars, slotVars, subscriberVars,
     startVars, vars
<1>2. CASE Next
  BY <1>2, EarlyQueueTypeOK, LatestTypeOK, FlushTypeOK, CheckTypeOK, PushTypeOK, DispatchTypeOK,
     LoadLibraryTypeOK, SetGlobalTypeOK, TakePendingTypeOK, ReplayTypeOK, StartFlushTypeOK,
     SubscribeQueueTypeOK, SubscribeLatestTypeOK, DropReceiverTypeOK DEF Next, SubmitStep, StartStep
<1> QED
  BY <1>1, <1>2

-----------------------------------------------------------------------------
(* Threads and locks.                                                      *)

LEMMA ThreadFacts == None \notin Threads /\ Starter \in Threads /\ Starter \notin Producers
  BY EarlyEventsAssumption DEF Threads

LEMMA NoneNoJob == None \notin Job
  BY EarlyEventsAssumption

LEMMA EarlyQueueLocks ==
  ASSUME TypeOK, Locks, NEW p \in Producers, publishEarlyQueue(p)
  PROVE  Locks'
<1> SUFFICES ASSUME NEW u \in Threads PROVE LockOf(u)'
  BY DEF Locks
<1> USE ThreadFacts
<1>1. LockOf(u) /\ LockOf(p) /\ p \in Threads
  BY DEF Locks, Threads
<1>2. pc \in [Threads -> {"idle", "flush", "check", "push", "dispatch"}]
      /\ job \in [Threads -> Job \cup {None}] /\ submitted \in [Producers -> 0..MaxEvents]
      /\ pendingEarlyQueue \in Seq(Values)
  BY DEF TypeOK
<1>3. pendingEarlyQueue' # <<>> /\ kotlin_lock = None
  BY <1>2 DEF publishEarlyQueue
<1>8. CASE u = p
  BY <1>8, <1>1, <1>2, <1>3 DEF publishEarlyQueue, LockOf, Submits, callVars, kotlinVars, preVars,
     queueVars, slotVars, subscriberVars, startVars
<1>9. CASE u # p
  BY <1>9, <1>1, <1>2, <1>3 DEF publishEarlyQueue, LockOf, Submits, callVars, kotlinVars, preVars,
     queueVars, slotVars, subscriberVars, startVars
<1> QED
  BY <1>8, <1>9

LEMMA LatestLocks ==
  ASSUME TypeOK, Locks, NEW p \in Producers, SubmitLatest(p)
  PROVE  Locks'
<1> SUFFICES ASSUME NEW u \in Threads PROVE LockOf(u)'
  BY DEF Locks
<1> USE ThreadFacts
<1>1. LockOf(u) /\ LockOf(p) /\ p \in Threads
  BY DEF Locks, Threads
<1>2. pc \in [Threads -> {"idle", "flush", "check", "push", "dispatch"}]
      /\ job \in [Threads -> Job \cup {None}] /\ submitted \in [Producers -> 0..MaxEvents]
      /\ pendingEarlyQueue \in Seq(Values)
  BY DEF TypeOK
<1>3. [kind |-> "latest", value |-> <<p, submitted'[p]>>] # None
  <2>1. submitted'[p] = submitted[p] + 1 /\ <<p, submitted[p] + 1>> \in Values
    BY NewValue, <1>2 DEF SubmitLatest
  <2>2. [kind |-> "latest", value |-> <<p, submitted'[p]>>] \in Job
    BY <2>1 DEF Job
  <2> QED
    BY <2>2, NoneNoJob
<1>8. CASE u = p
  BY <1>8, <1>1, <1>2, <1>3 DEF SubmitLatest, LockOf, Submits, callVars, kotlinVars, preVars,
     queueVars, slotVars, subscriberVars, startVars
<1>9. CASE u # p
  BY <1>9, <1>1, <1>2, <1>3 DEF SubmitLatest, LockOf, Submits, callVars, kotlinVars, preVars,
     queueVars, slotVars, subscriberVars, startVars
<1> QED
  BY <1>8, <1>9

LEMMA FlushLocks ==
  ASSUME TypeOK, Locks, NEW t \in Threads, Flush(t)
  PROVE  Locks'
<1> SUFFICES ASSUME NEW u \in Threads PROVE LockOf(u)'
  BY DEF Locks
<1> USE ThreadFacts
<1>1. LockOf(u) /\ LockOf(t) /\ t \in Threads
  BY DEF Locks, Threads
<1>2. pc \in [Threads -> {"idle", "flush", "check", "push", "dispatch"}]
      /\ job \in [Threads -> Job \cup {None}] /\ submitted \in [Producers -> 0..MaxEvents]
      /\ pendingEarlyQueue \in Seq(Values)
  BY DEF TypeOK
<1>3. pendingEarlyQueue # <<>> => [kind |-> "queue", value |-> Head(pendingEarlyQueue)] \in Job
  BY <1>2, Typed DEF Job
<1>8. CASE u = t
  <2>1. pc[t] = "flush" /\ job[t] = None /\ UNCHANGED <<pre_lock, submitted, pendingEarlyQueue>>
    BY <1>1, <1>2 DEF Flush, LockOf, preVars
  <2>2. CASE kotlin_lock' = None /\ pc' = [pc EXCEPT ![t] = "idle"] /\ UNCHANGED job
    BY <2>1, <2>2, <1>8, <1>1, <1>2 DEF LockOf, Submits
  <2>3. CASE /\ pendingEarlyQueue # <<>>
             /\ job' = [job EXCEPT ![t] = [kind |-> "queue", value |-> Head(pendingEarlyQueue)]]
             /\ pc' = [pc EXCEPT ![t] = "check"]
             /\ UNCHANGED kotlin_lock
    <3>1. job'[t] = [kind |-> "queue", value |-> Head(pendingEarlyQueue)] /\ pc'[t] = "check"
      BY <2>3, <1>2
    <3>2. job'[t] # None
      BY <3>1, <2>3, <1>3, NoneNoJob
    <3> QED
      BY <3>1, <3>2, <2>1, <2>3, <1>8, <1>1 DEF LockOf, Submits
  <2> QED
    BY <2>2, <2>3 DEF Flush
<1>9. CASE u # t
  BY <1>9, <1>1, <1>2, <1>3 DEF Flush, LockOf, Submits, callVars, kotlinVars, preVars, queueVars,
     slotVars, subscriberVars, startVars
<1> QED
  BY <1>8, <1>9

LEMMA CheckLocks ==
  ASSUME TypeOK, Locks, NEW t \in Threads, Check(t)
  PROVE  Locks'
<1> SUFFICES ASSUME NEW u \in Threads PROVE LockOf(u)'
  BY DEF Locks
<1> USE ThreadFacts
<1>1. LockOf(u) /\ LockOf(t) /\ t \in Threads
  BY DEF Locks, Threads
<1>2. pc \in [Threads -> {"idle", "flush", "check", "push", "dispatch"}]
      /\ job \in [Threads -> Job \cup {None}] /\ submitted \in [Producers -> 0..MaxEvents]
      /\ pendingEarlyQueue \in Seq(Values)
  BY DEF TypeOK
<1>8. CASE u = t
  BY <1>8, <1>1, <1>2 DEF Check, LockOf, Submits, callVars, kotlinVars, preVars, queueVars,
     slotVars, subscriberVars, startVars
<1>9. CASE u # t
  BY <1>9, <1>1, <1>2 DEF Check, LockOf, Submits, callVars, kotlinVars, preVars, queueVars,
     slotVars, subscriberVars, startVars
<1> QED
  BY <1>8, <1>9

LEMMA PushLocks ==
  ASSUME TypeOK, Locks, NEW t \in Threads, Push(t)
  PROVE  Locks'
<1> SUFFICES ASSUME NEW u \in Threads PROVE LockOf(u)'
  BY DEF Locks
<1> USE ThreadFacts
<1>1. LockOf(u) /\ LockOf(t) /\ t \in Threads
  BY DEF Locks, Threads
<1>2. pc \in [Threads -> {"idle", "flush", "check", "push", "dispatch"}]
      /\ job \in [Threads -> Job \cup {None}] /\ submitted \in [Producers -> 0..MaxEvents]
      /\ pendingEarlyQueue \in Seq(Values)
  BY DEF TypeOK
<1>3. job[t] \in Job /\ job[t] # None
  BY ReturnTypeOK, <1>1 DEF LockOf, Push
<1>8. CASE u = t
  BY <1>8, <1>1, <1>2, <1>3 DEF Push, Return, LockOf, Submits, callVars, kotlinVars, preVars,
     queueVars, slotVars, subscriberVars, startVars
<1>9. CASE u # t
  BY <1>9, <1>1, <1>2, <1>3 DEF Push, Return, LockOf, Submits, callVars, kotlinVars, preVars,
     queueVars, slotVars, subscriberVars, startVars
<1> QED
  BY <1>8, <1>9

LEMMA DispatchLocks ==
  ASSUME TypeOK, Locks, NEW t \in Threads, Dispatch(t)
  PROVE  Locks'
<1> SUFFICES ASSUME NEW u \in Threads PROVE LockOf(u)'
  BY DEF Locks
<1> USE ThreadFacts
<1>1. LockOf(u) /\ LockOf(t) /\ t \in Threads
  BY DEF Locks, Threads
<1>2. pc \in [Threads -> {"idle", "flush", "check", "push", "dispatch"}]
      /\ job \in [Threads -> Job \cup {None}] /\ submitted \in [Producers -> 0..MaxEvents]
      /\ pendingEarlyQueue \in Seq(Values)
  BY DEF TypeOK
<1>3. job[t] \in Job /\ job[t] # None
  BY ReturnTypeOK, <1>1 DEF LockOf, Dispatch
<1>8. CASE u = t
  BY <1>8, <1>1, <1>2, <1>3 DEF Dispatch, Return, LockOf, Submits, callVars, kotlinVars, preVars,
     queueVars, slotVars, subscriberVars, startVars
<1>9. CASE u # t
  BY <1>9, <1>1, <1>2, <1>3 DEF Dispatch, Return, LockOf, Submits, callVars, kotlinVars, preVars,
     queueVars, slotVars, subscriberVars, startVars
<1> QED
  BY <1>8, <1>9

LEMMA StartFlushLocks ==
  ASSUME TypeOK, Locks, Phases, StartFlush
  PROVE  Locks'
<1> SUFFICES ASSUME NEW u \in Threads PROVE LockOf(u)'
  BY DEF Locks
<1> USE ThreadFacts
<1>1. LockOf(u) /\ LockOf(Starter) /\ Starter \in Threads
  BY DEF Locks, Threads
<1>2. pc \in [Threads -> {"idle", "flush", "check", "push", "dispatch"}]
      /\ job \in [Threads -> Job \cup {None}] /\ submitted \in [Producers -> 0..MaxEvents]
      /\ pendingEarlyQueue \in Seq(Values)
  BY DEF TypeOK
<1>3. pc[Starter] = "idle"
  BY DEF Phases, StartFlush
<1>8. CASE u = Starter
  BY <1>8, <1>1, <1>2, <1>3 DEF StartFlush, LockOf, Submits, callVars, kotlinVars, preVars,
     queueVars, slotVars, subscriberVars, startVars
<1>9. CASE u # Starter
  BY <1>9, <1>1, <1>2, <1>3 DEF StartFlush, LockOf, Submits, callVars, kotlinVars, preVars,
     queueVars, slotVars, subscriberVars, startVars
<1> QED
  BY <1>8, <1>9

LEMMA SameLocks ==
  ASSUME Locks, UNCHANGED <<pc, job, submitted, pendingEarlyQueue, kotlin_lock, pre_lock>>
  PROVE  Locks'
  BY DEF Locks, LockOf, Submits

LEMMA EarlyQueuePhases ==
  ASSUME TypeOK, Locks, Phases, NEW p \in Producers, publishEarlyQueue(p)
  PROVE  Phases'
<1> USE ThreadFacts
<1>1. pc \in [Threads -> {"idle", "flush", "check", "push", "dispatch"}]
      /\ pendingEarlyQueue \in Seq(Values) /\ started \in {"before", "loaded", "set", "replay", "flush", "up"}
  BY DEF TypeOK
<1>2. \A u \in Threads : LockOf(u)
  BY DEF Locks
<1> QED
  BY <1>1, <1>2 DEF publishEarlyQueue, LockOf, Submits, Phases, Loaded, GlobalSet, ProducerRuns,
     Threads, callVars, kotlinVars, preVars, queueVars, slotVars, subscriberVars, startVars

LEMMA LatestPhases ==
  ASSUME TypeOK, Locks, Phases, NEW p \in Producers, SubmitLatest(p)
  PROVE  Phases'
<1> USE ThreadFacts
<1>1. pc \in [Threads -> {"idle", "flush", "check", "push", "dispatch"}]
      /\ pendingEarlyQueue \in Seq(Values) /\ started \in {"before", "loaded", "set", "replay", "flush", "up"}
  BY DEF TypeOK
<1>2. \A u \in Threads : LockOf(u)
  BY DEF Locks
<1> QED
  BY <1>1, <1>2 DEF SubmitLatest, LockOf, Submits, Phases, Loaded, GlobalSet, ProducerRuns,
     Threads, callVars, kotlinVars, preVars, queueVars, slotVars, subscriberVars, startVars

LEMMA FlushPhases ==
  ASSUME TypeOK, Locks, Phases, NEW t \in Threads, Flush(t)
  PROVE  Phases'
<1> USE ThreadFacts
<1>1. pc \in [Threads -> {"idle", "flush", "check", "push", "dispatch"}]
      /\ pendingEarlyQueue \in Seq(Values) /\ started \in {"before", "loaded", "set", "replay", "flush", "up"}
  BY DEF TypeOK
<1>2. \A u \in Threads : LockOf(u)
  BY DEF Locks
<1> QED
  BY <1>1, <1>2 DEF Flush, LockOf, Submits, Phases, Loaded, GlobalSet, ProducerRuns, Threads,
     callVars, kotlinVars, preVars, queueVars, slotVars, subscriberVars, startVars

LEMMA CheckPhases ==
  ASSUME TypeOK, Locks, Phases, NEW t \in Threads, Check(t)
  PROVE  Phases'
<1> USE ThreadFacts
<1>1. pc \in [Threads -> {"idle", "flush", "check", "push", "dispatch"}]
      /\ pendingEarlyQueue \in Seq(Values) /\ started \in {"before", "loaded", "set", "replay", "flush", "up"}
  BY DEF TypeOK
<1>2. \A u \in Threads : LockOf(u)
  BY DEF Locks
<1> QED
  BY <1>1, <1>2 DEF Check, LockOf, Submits, Phases, Loaded, GlobalSet, ProducerRuns, Threads,
     callVars, kotlinVars, preVars, queueVars, slotVars, subscriberVars, startVars

LEMMA PushPhases ==
  ASSUME TypeOK, Locks, Phases, NEW t \in Threads, Push(t)
  PROVE  Phases'
<1> USE ThreadFacts
<1>1. pc \in [Threads -> {"idle", "flush", "check", "push", "dispatch"}]
      /\ pendingEarlyQueue \in Seq(Values) /\ started \in {"before", "loaded", "set", "replay", "flush", "up"}
  BY DEF TypeOK
<1>2. \A u \in Threads : LockOf(u)
  BY DEF Locks
<1> QED
  BY <1>1, <1>2 DEF Push, Return, LockOf, Submits, Phases, Loaded, GlobalSet, ProducerRuns,
     Threads, callVars, kotlinVars, preVars, queueVars, slotVars, subscriberVars, startVars

LEMMA DispatchPhases ==
  ASSUME TypeOK, Locks, Phases, NEW t \in Threads, Dispatch(t)
  PROVE  Phases'
<1> USE ThreadFacts
<1>1. pc \in [Threads -> {"idle", "flush", "check", "push", "dispatch"}]
      /\ pendingEarlyQueue \in Seq(Values) /\ started \in {"before", "loaded", "set", "replay", "flush", "up"}
  BY DEF TypeOK
<1>2. \A u \in Threads : LockOf(u)
  BY DEF Locks
<1> QED
  BY <1>1, <1>2 DEF Dispatch, Return, LockOf, Submits, Phases, Loaded, GlobalSet, ProducerRuns,
     Threads, callVars, kotlinVars, preVars, queueVars, slotVars, subscriberVars, startVars

LEMMA StartFlushPhases ==
  ASSUME TypeOK, Locks, Phases, StartFlush
  PROVE  Phases'
<1> USE ThreadFacts
<1>1. pc \in [Threads -> {"idle", "flush", "check", "push", "dispatch"}]
      /\ pendingEarlyQueue \in Seq(Values) /\ started \in {"before", "loaded", "set", "replay", "flush", "up"}
  BY DEF TypeOK
<1>2. \A u \in Threads : LockOf(u)
  BY DEF Locks
<1> QED
  BY <1>1, <1>2 DEF StartFlush, LockOf, Submits, Phases, Loaded, GlobalSet, ProducerRuns, Threads,
     callVars, kotlinVars, preVars, queueVars, slotVars, subscriberVars, startVars

LEMMA LoadLibraryPhases ==
  ASSUME TypeOK, Locks, Phases, LoadLibrary
  PROVE  Phases'
<1>1. \A u \in Threads : LockOf(u)
  BY DEF Locks
<1> QED
  BY <1>1, ThreadFacts DEF LoadLibrary, LockOf, Phases, Loaded, GlobalSet, StarterRuns, Threads,
     TypeOK, callVars, kotlinVars, preVars, queueVars, slotVars, subscriberVars, startVars

LEMMA SetGlobalPhases ==
  ASSUME TypeOK, Locks, Phases, SetGlobal
  PROVE  Phases'
<1>1. \A u \in Threads : LockOf(u)
  BY DEF Locks
<1> QED
  BY <1>1, ThreadFacts DEF SetGlobal, LockOf, Phases, Loaded, GlobalSet, StarterRuns, Threads,
     TypeOK, callVars, kotlinVars, preVars, queueVars, slotVars, subscriberVars, startVars

LEMMA TakePendingPhases ==
  ASSUME TypeOK, Locks, Phases, TakePending
  PROVE  Phases'
<1>1. \A u \in Threads : LockOf(u)
  BY DEF Locks
<1> QED
  BY <1>1, ThreadFacts DEF TakePending, LockOf, Phases, Loaded, GlobalSet, StarterRuns, Threads,
     TypeOK, callVars, kotlinVars, preVars, queueVars, slotVars, subscriberVars, startVars

LEMMA ReplayPhases ==
  ASSUME TypeOK, Locks, Phases, Replay
  PROVE  Phases'
<1>1. \A u \in Threads : LockOf(u)
  BY DEF Locks
<1> QED
  BY <1>1, ThreadFacts DEF Replay, LockOf, Phases, Loaded, GlobalSet, StarterRuns, Threads,
     TypeOK, callVars, kotlinVars, preVars, queueVars, slotVars, subscriberVars, startVars

LEMMA SamePhases ==
  ASSUME Phases, UNCHANGED <<pc, separate, started, pendingEarlyQueue, kotlin_lock, pre_start, pending>>
  PROVE  Phases'
  BY DEF Phases, Loaded, GlobalSet

-----------------------------------------------------------------------------
(* The way of an event.                                                    *)

LEMMA InAppend ==
  ASSUME NEW E, NEW s \in Seq(E), NEW e \in E
  PROVE  In(Append(s, e)) = In(s) \cup {e}
<1>1. Append(s, e) \in Seq(E) /\ Len(Append(s, e)) = Len(s) + 1 /\ Len(s) \in Nat
  BY Typed
<1>2. DOMAIN s = 1..Len(s) /\ DOMAIN Append(s, e) = 1..Len(s) + 1
  BY <1>1
<1>3. \A i \in 1..Len(s) : Append(s, e)[i] = s[i]
  OBVIOUS
<1>4. Append(s, e)[Len(s) + 1] = e
  OBVIOUS
<1>5. In(Append(s, e)) \subseteq In(s) \cup {e}
  BY <1>1, <1>2, <1>3, <1>4 DEF In
<1>6. In(s) \cup {e} \subseteq In(Append(s, e))
  BY <1>1, <1>2, <1>3, <1>4 DEF In
<1> QED
  BY <1>5, <1>6

LEMMA InTail ==
  ASSUME NEW E, NEW s \in Seq(E), s # <<>>
  PROVE  In(s) = {Head(s)} \cup In(Tail(s)) /\ Head(s) \in In(s)
<1>1. Tail(s) \in Seq(E) /\ Len(Tail(s)) = Len(s) - 1 /\ Len(s) \in Nat /\ Len(s) > 0
  BY Typed
<1>2. DOMAIN s = 1..Len(s) /\ DOMAIN Tail(s) = 1..(Len(s) - 1)
  BY <1>1
<1>3. \A i \in 1..(Len(s) - 1) : Tail(s)[i] = s[i + 1]
  OBVIOUS
<1>4. Head(s) = s[1] /\ 1 \in DOMAIN s
  BY <1>1, <1>2
<1>5. ASSUME NEW i \in DOMAIN s PROVE s[i] \in {Head(s)} \cup In(Tail(s))
  <2>1. CASE i = 1
    BY <2>1, <1>4
  <2>2. CASE i # 1
    <3>1. i - 1 \in 1..(Len(s) - 1) /\ (i - 1) + 1 = i
      BY <2>2, <1>1, <1>2
    <3> QED
      BY <3>1, <1>2, <1>3 DEF In
  <2> QED
    BY <2>1, <2>2
<1>6. ASSUME NEW i \in DOMAIN Tail(s) PROVE Tail(s)[i] \in In(s)
  <2>1. i \in 1..(Len(s) - 1) /\ i + 1 \in DOMAIN s
    BY <1>1, <1>2
  <2> QED
    BY <2>1, <1>3 DEF In
<1> QED
  BY <1>4, <1>5, <1>6 DEF In

LEMMA InEmpty == In(<<>>) = {}
  BY DEF In

LEMMA OrderAppend ==
  ASSUME NEW free, NEW E, NEW s \in Seq(E), NEW e \in E,
         InOrder(free, s), AllFollow(free, In(s), {e})
  PROVE  InOrder(free, Append(s, e))
<1> SUFFICES ASSUME NEW i \in DOMAIN Append(s, e), NEW j \in DOMAIN Append(s, e), i < j
             PROVE  Follow(free, Append(s, e)[i], Append(s, e)[j])
  BY DEF InOrder
<1>1. Append(s, e) \in Seq(E) /\ Len(Append(s, e)) = Len(s) + 1 /\ Len(s) \in Nat
  BY Typed
<1>2. DOMAIN s = 1..Len(s) /\ DOMAIN Append(s, e) = 1..(Len(s) + 1)
  BY <1>1
<1>3. i \in 1..Len(s) /\ Append(s, e)[i] = s[i] /\ s[i] \in In(s)
  BY <1>1, <1>2 DEF In
<1>4. CASE j = Len(s) + 1
  <2>1. Append(s, e)[j] = e
    BY <1>4
  <2> QED
    BY <2>1, <1>3 DEF AllFollow
<1>5. CASE j # Len(s) + 1
  <2>1. j \in 1..Len(s) /\ Append(s, e)[j] = s[j]
    BY <1>1, <1>2, <1>5
  <2> QED
    BY <2>1, <1>2, <1>3 DEF InOrder
<1> QED
  BY <1>4, <1>5

LEMMA OrderTail ==
  ASSUME NEW free, NEW E, NEW s \in Seq(E), s # <<>>, InOrder(free, s)
  PROVE  InOrder(free, Tail(s)) /\ AllFollow(free, {Head(s)}, In(Tail(s)))
<1>1. Tail(s) \in Seq(E) /\ Len(Tail(s)) = Len(s) - 1 /\ Len(s) \in Nat /\ Len(s) > 0
  BY Typed
<1>2. DOMAIN s = 1..Len(s) /\ DOMAIN Tail(s) = 1..(Len(s) - 1)
  BY <1>1
<1>3. \A i \in DOMAIN Tail(s) : Tail(s)[i] = s[i + 1] /\ i + 1 \in DOMAIN s /\ i \in Nat
      /\ 1 < i + 1
  BY <1>1, <1>2
<1>4. Head(s) = s[1] /\ 1 \in DOMAIN s
  BY <1>1, <1>2
<1>5. ASSUME NEW i \in DOMAIN Tail(s), NEW j \in DOMAIN Tail(s), i < j
      PROVE  Follow(free, Tail(s)[i], Tail(s)[j])
  <2>1. i + 1 < j + 1
    BY <1>5, <1>3
  <2> QED
    BY <2>1, <1>3 DEF InOrder
<1>6. ASSUME NEW i \in DOMAIN Tail(s) PROVE Follow(free, Head(s), Tail(s)[i])
  BY <1>3, <1>4 DEF InOrder
<1> QED
  BY <1>5, <1>6 DEF InOrder, AllFollow, In

LEMMA OrderEmpty == ASSUME NEW free PROVE InOrder(free, <<>>)
  BY DEF InOrder

\* Entries of Kotlin's queue, or of the log, are events of the channel.
LEMMA EntriesType ==
  ASSUME NEW s \in Seq(Values)
  PROVE  /\ Entries(s) \in Seq(Job) /\ Len(Entries(s)) = Len(s)
         /\ \A e \in In(Entries(s)) : e.kind = "queue" /\ e.value \in In(s)
         /\ s = <<>> => Entries(s) = <<>>
<1>1. DOMAIN s = 1..Len(s) /\ Len(s) \in Nat
  OBVIOUS
<1>2. Entries(s) \in [1..Len(s) -> Job]
  BY <1>1 DEF Entries, Entry, Job
<1>3. Entries(s) \in Seq(Job) /\ Len(Entries(s)) = Len(s)
  BY <1>1, <1>2
<1>4. \A e \in In(Entries(s)) : e.kind = "queue" /\ e.value \in In(s)
  BY DEF In, Entries, Entry
<1> QED
  BY <1>1, <1>3, <1>4

LEMMA EntriesAppend ==
  ASSUME NEW s \in Seq(Values), NEW v \in Values
  PROVE  Entries(Append(s, v)) = Append(Entries(s), Entry(v)) /\ Entry(v) \in Job
<1>1. Append(s, v) \in Seq(Values) /\ Len(Append(s, v)) = Len(s) + 1 /\ Len(s) \in Nat
  BY Typed
<1>2. Entry(v) \in Job /\ Entries(s) \in Seq(Job) /\ Len(Entries(s)) = Len(s)
  BY EntriesType DEF Entry, Job
<1>3. Append(Entries(s), Entry(v)) \in Seq(Job) /\ Len(Append(Entries(s), Entry(v))) = Len(s) + 1
  BY <1>2, Typed
<1>4. Entries(Append(s, v)) \in Seq(Job) /\ Len(Entries(Append(s, v))) = Len(s) + 1
  BY <1>1, EntriesType
<1>5. ASSUME NEW i \in 1..(Len(s) + 1)
      PROVE  Entries(Append(s, v))[i] = Append(Entries(s), Entry(v))[i]
  <2>1. Entries(Append(s, v))[i] = Entry(Append(s, v)[i])
    BY <1>1 DEF Entries
  <2>2. CASE i = Len(s) + 1
    BY <2>1, <2>2, <1>1, <1>2
  <2>3. CASE i # Len(s) + 1
    <3>1. i \in 1..Len(s)
      BY <2>3, <1>1
    <3>2. Append(s, v)[i] = s[i] /\ Append(Entries(s), Entry(v))[i] = Entries(s)[i]
      BY <3>1, <1>2
    <3> QED
      BY <2>1, <3>1, <3>2 DEF Entries
  <2> QED
    BY <2>2, <2>3
<1> QED
  BY <1>2, <1>3, <1>4, <1>5, SeqEqual

LEMMA EntriesTail ==
  ASSUME NEW s \in Seq(Values), s # <<>>
  PROVE  /\ Entries(Tail(s)) = Tail(Entries(s)) /\ Head(Entries(s)) = Entry(Head(s))
         /\ Entries(s) # <<>>
<1>1. Tail(s) \in Seq(Values) /\ Len(Tail(s)) = Len(s) - 1 /\ Len(s) \in Nat /\ Len(s) > 0
  BY Typed
<1>2. Entries(s) \in Seq(Job) /\ Len(Entries(s)) = Len(s) /\ Entries(s) # <<>>
  <2>1. Entries(s) \in Seq(Job) /\ Len(Entries(s)) = Len(s)
    BY EntriesType
  <2> QED
    BY <2>1, <1>1
<1>3. Tail(Entries(s)) \in Seq(Job) /\ Len(Tail(Entries(s))) = Len(s) - 1
  BY <1>2, Typed
<1>4. Entries(Tail(s)) \in Seq(Job) /\ Len(Entries(Tail(s))) = Len(s) - 1
  BY <1>1, EntriesType
<1>5. ASSUME NEW i \in 1..(Len(s) - 1)
      PROVE  Entries(Tail(s))[i] = Tail(Entries(s))[i]
  <2>1. i + 1 \in 1..Len(s) /\ Tail(s)[i] = s[i + 1] /\ Tail(Entries(s))[i] = Entries(s)[i + 1]
    BY <1>1, <1>2
  <2>2. i \in DOMAIN Tail(s)
    BY <1>1
  <2> QED
    BY <2>1, <2>2 DEF Entries
<1>6. Head(Entries(s)) = Entry(Head(s))
  BY <1>1, <1>2 DEF Entries
<1> QED
  BY <1>2, <1>3, <1>4, <1>5, <1>6, SeqEqual

\* One more event at the end of Kotlin's queue, or held by its thread.
LEMMA ChainSubmit ==
  ASSUME NEW free, NEW P, NEW R, NEW B, NEW K \in Seq(Job), NEW H, NEW e \in Job,
         ChainOf(free, P, R, B, K, H),
         AllFollow(free, In(P) \cup In(R) \cup In(B) \cup In(K), {e})
  PROVE  ChainOf(free, P, R, B, Append(K, e), H) /\ ChainOf(free, P, R, B, K, H \cup {e})
<1>1. In(Append(K, e)) = In(K) \cup {e}
  BY InAppend
<1>2. InOrder(free, Append(K, e))
  <2>1. InOrder(free, K) /\ AllFollow(free, In(K), {e})
    BY DEF ChainOf, AllFollow
  <2> QED
    BY <2>1, OrderAppend
<1> QED
  BY <1>1, <1>2 DEF ChainOf, AllFollow

\* The oldest buffered event is dropped.
LEMMA ChainOverflow ==
  ASSUME NEW free, NEW P, NEW R, NEW B \in Seq(Job), NEW K, NEW H, B # <<>>,
         ChainOf(free, P, R, B, K, H)
  PROVE  ChainOf(free, P, R, Tail(B), K, H)
<1>1. In(Tail(B)) \subseteq In(B)
  BY InTail
<1>2. InOrder(free, Tail(B))
  BY OrderTail DEF ChainOf
<1> QED
  BY <1>1, <1>2 DEF ChainOf, AllFollow

\* An event that was handed over is buffered.
LEMMA ChainPush ==
  ASSUME NEW free, NEW P, NEW R, NEW B \in Seq(Job), NEW K, NEW H, NEW K2, NEW H2, NEW e \in Job,
         ChainOf(free, P, R, B, K, H), InOrder(free, K2),
         e \in In(K) \cup H, In(K2) \subseteq In(K), H2 \subseteq H,
         AllFollow(free, {e}, In(K2) \cup H2)
  PROVE  ChainOf(free, P, R, Append(B, e), K2, H2)
<1>1. In(Append(B, e)) = In(B) \cup {e}
  BY InAppend
<1>2. AllFollow(free, In(B), {e}) /\ AllFollow(free, In(R), {e}) /\ AllFollow(free, In(P), {e})
  BY DEF ChainOf, AllFollow
<1>3. InOrder(free, Append(B, e))
  BY <1>2, OrderAppend DEF ChainOf
<1> QED
  BY <1>1, <1>2, <1>3 DEF ChainOf, AllFollow

\* The buffer is taken.
LEMMA ChainTake ==
  ASSUME NEW free, NEW P, NEW B, NEW K, NEW H,
         ChainOf(free, P, <<>>, B, K, H)
  PROVE  ChainOf(free, P, B, <<>>, K, H)
  BY InEmpty, OrderEmpty DEF ChainOf, AllFollow

\* The first of what was taken is published, on the queue or on the slot.
LEMMA ChainReplay ==
  ASSUME NEW free, NEW P \in Seq(Job), NEW R \in Seq(Job), NEW B, NEW K, NEW H, R # <<>>,
         ChainOf(free, P, R, B, K, H)
  PROVE  /\ ChainOf(free, Append(P, Head(R)), Tail(R), B, K, H)
         /\ ChainOf(free, P, Tail(R), B, K, H)
<1>1. Head(R) \in Job /\ In(R) = {Head(R)} \cup In(Tail(R))
  BY InTail, Typed
<1>2. InOrder(free, Tail(R)) /\ AllFollow(free, {Head(R)}, In(Tail(R)))
  BY OrderTail DEF ChainOf
<1>3. AllFollow(free, In(P), {Head(R)})
  BY <1>1 DEF ChainOf, AllFollow
<1>4. In(Append(P, Head(R))) = In(P) \cup {Head(R)}
  BY <1>1, InAppend
<1>5. InOrder(free, Append(P, Head(R)))
  BY <1>1, <1>3, OrderAppend DEF ChainOf
<1>6. ChainOf(free, P, Tail(R), B, K, H)
  BY <1>1, <1>2 DEF ChainOf, AllFollow
<1>7. ChainOf(free, Append(P, Head(R)), Tail(R), B, K, H)
  BY <1>1, <1>2, <1>4, <1>5 DEF ChainOf, AllFollow
<1> QED
  BY <1>6, <1>7

\* The first of Kotlin's queue is published.
LEMMA ChainDispatch ==
  ASSUME NEW free, NEW P \in Seq(Job), NEW R, NEW B, NEW K \in Seq(Job), NEW H, K # <<>>,
         ChainOf(free, P, R, B, K, H),
         AllFollow(free, {Head(K)}, In(R) \cup In(B) \cup H)
  PROVE  ChainOf(free, Append(P, Head(K)), R, B, Tail(K), H)
<1>1. Head(K) \in Job /\ In(K) = {Head(K)} \cup In(Tail(K))
  BY InTail, Typed
<1>2. InOrder(free, Tail(K)) /\ AllFollow(free, {Head(K)}, In(Tail(K)))
  BY OrderTail DEF ChainOf
<1>3. AllFollow(free, In(P), {Head(K)})
  BY <1>1 DEF ChainOf, AllFollow
<1>4. In(Append(P, Head(K))) = In(P) \cup {Head(K)}
  BY <1>1, InAppend
<1>5. InOrder(free, Append(P, Head(K)))
  BY <1>1, <1>3, OrderAppend DEF ChainOf
<1> QED
  BY <1>1, <1>2, <1>4, <1>5 DEF ChainOf, AllFollow

\* A thread is done with the event it held.
LEMMA ChainLess ==
  ASSUME NEW free, NEW P, NEW R, NEW B, NEW K, NEW H, NEW H2,
         ChainOf(free, P, R, B, K, H), H2 \subseteq H
  PROVE  ChainOf(free, P, R, B, K, H2)
  BY DEF ChainOf, AllFollow

LEMMA HeldFacts ==
  ASSUME TypeOK, Locks, NEW e \in Held
  PROVE  /\ e \in Job /\ e.kind = "latest"
         /\ e.value[1] \in Producers /\ e.value = <<e.value[1], submitted[e.value[1]]>>
<1>1. PICK t \in Threads : Submits(t, "latest") /\ e = job[t]
  BY DEF Held
<1>2. e \in Job /\ e.kind = "latest"
  BY <1>1 DEF Submits, TypeOK
<1>3. t \in Producers /\ e.value = <<t, submitted[t]>>
  BY <1>1 DEF Locks, LockOf
<1> QED
  BY <1>2, <1>3

LEMMA Members ==
  ASSUME TypeOK
  PROVE  /\ \A e \in In(pending) \cup In(pre_start) : e \in Job
         /\ \A v \in In(log) \cup In(pendingEarlyQueue) : v \in Values
         /\ Entries(log) \in Seq(Job) /\ Entries(pendingEarlyQueue) \in Seq(Job)
  BY EntriesType DEF TypeOK, In

\* Whatever is on its way was submitted.
LEMMA AllSubmitted ==
  ASSUME TypeOK, Way,
         NEW e \in In(Entries(log)) \cup In(pending) \cup In(pre_start)
                     \cup In(Entries(pendingEarlyQueue)) \cup Held
  PROVE  e.value \in Submitted
<1>1. \A f \in In(Entries(log)) : f.value \in In(log)
  BY EntriesType DEF TypeOK
<1>2. \A f \in In(Entries(pendingEarlyQueue)) : f.value \in In(pendingEarlyQueue)
  BY EntriesType DEF TypeOK
<1> QED
  BY <1>1, <1>2 DEF Way, Located, LoggedSubmitted, ValuesOf

\* The next value of a producer is a new one.
LEMMA NewSubmitted ==
  ASSUME TypeOK, NEW p \in Producers, Cardinality(Submitted) < MaxEvents,
         submitted' = [submitted EXCEPT ![p] = @ + 1]
  PROVE  LET new == <<p, submitted[p] + 1>> IN
         /\ new \in Values /\ submitted'[p] = submitted[p] + 1
         /\ Submitted' = Submitted \cup {new}
         /\ \A free, e, k : e.value \in Submitted => Follow(free, e, [kind |-> k, value |-> new])
         /\ \A q \in Producers : submitted'[q] \in Nat /\ submitted[q] \in Nat /\ submitted[q] <= submitted'[q]
<1> DEFINE new == <<p, submitted[p] + 1>>
<1>1. new \in Values /\ submitted[p] \in Nat /\ submitted[p] + 1 \in 0..MaxEvents
  BY NewValue DEF TypeOK
<1>2. \A q \in Producers : submitted[q] \in Nat
      /\ submitted'[q] = IF q = p THEN submitted[p] + 1 ELSE submitted[q]
  BY DEF TypeOK
<1>3. \A v \in Values : v[1] \in Producers /\ v[2] \in 1..MaxEvents /\ v = <<v[1], v[2]>>
  BY DEF Values
<1>4. \A v \in Values : v \in Submitted' <=> v[2] <= submitted'[v[1]]
  BY DEF Submitted
<1>5. \A v \in Values : v \in Submitted <=> v[2] <= submitted[v[1]]
  BY DEF Submitted
<1>6. Submitted' \subseteq Values /\ Submitted \subseteq Values
  BY DEF Submitted
<1>7. ASSUME NEW v \in Values PROVE v \in Submitted' <=> v \in Submitted \/ v = new
  <2>1. v[1] \in Producers /\ v[2] \in Nat /\ v = <<v[1], v[2]>> /\ MaxEvents \in Nat
    BY <1>3, EarlyEventsAssumption
  <2>2. CASE v[1] # p
    BY <2>1, <2>2, <1>2, <1>4, <1>5
  <2>3. CASE v[1] = p
    <3>1. v = new <=> v[2] = submitted[p] + 1
      BY <2>1, <2>3
    <3> QED
      BY <2>1, <2>3, <3>1, <1>1, <1>2, <1>4, <1>5
  <2> QED
    BY <2>2, <2>3
<1>8. Submitted' = Submitted \cup {new}
  BY <1>1, <1>6, <1>7
<1>9. ASSUME NEW v \in Submitted
      PROVE  v # new /\ (v[1] = p => v[2] < submitted[p] + 1)
  <2>1. v \in Values /\ v[2] \in Nat /\ v[2] <= submitted[v[1]] /\ v = <<v[1], v[2]>>
    BY <1>3, <1>5, <1>6, EarlyEventsAssumption
  <2>2. v[1] = p => v[2] <= submitted[p]
    BY <2>1
  <2>3. v = new => v[1] = p /\ v[2] = submitted[p] + 1
    OBVIOUS
  <2> HIDE DEF new
  <2> QED
    BY <2>1, <2>2, <2>3, <1>1
<1>10. \A free, e : e.value \in Submitted => Precedes(free, e.value, new)
  BY <1>9 DEF Precedes
<1>11. \A free, e, k : e.value \in Submitted => Follow(free, e, [kind |-> k, value |-> new])
  BY <1>10 DEF Follow
<1>12. \A q \in Producers : submitted'[q] \in Nat /\ submitted[q] \in Nat
       /\ submitted[q] <= submitted'[q]
  BY <1>2
<1>13. new \in Values /\ submitted'[p] = submitted[p] + 1
  BY <1>1, <1>2
<1> QED
  BY <1>8, <1>11, <1>12, <1>13

LEMMA EarlyQueueWay ==
  ASSUME TypeOK, Locks, Way, NEW p \in Producers, publishEarlyQueue(p)
  PROVE  Way'
<1> DEFINE n == submitted[p] + 1  new == <<p, n>>
<1>1. /\ submitted' = [submitted EXCEPT ![p] = @ + 1] /\ Cardinality(Submitted) < MaxEvents
      /\ pendingEarlyQueue' = Append(pendingEarlyQueue, <<p, submitted'[p]>>)
  BY DEF publishEarlyQueue
<1>2. UNCHANGED <<job, separate, pre_start, overflowed, pending, log, slot, latest, arrived>>
  BY DEF publishEarlyQueue, startVars, preVars, queueVars, slotVars
<1>3. /\ new \in Values /\ submitted'[p] = n /\ Submitted' = Submitted \cup {new}
      /\ \A free, e : e.value \in Submitted => Follow(free, e, Entry(new))
      /\ \A q \in Producers : submitted'[q] \in Nat /\ submitted[q] \in Nat /\ submitted[q] <= submitted'[q]
  BY <1>1, NewSubmitted DEF Entry
<1> HIDE DEF n, new
<1>4. pendingEarlyQueue' = Append(pendingEarlyQueue, new)
  BY <1>1, <1>3 DEF new
<1>5. In(pendingEarlyQueue') = In(pendingEarlyQueue) \cup {new}
      /\ Entries(pendingEarlyQueue') = Append(Entries(pendingEarlyQueue), Entry(new)) /\ Entry(new) \in Job
  <2>1. pendingEarlyQueue \in Seq(Values)
    BY DEF TypeOK
  <2>2. In(Append(pendingEarlyQueue, new)) = In(pendingEarlyQueue) \cup {new}
    BY <2>1, <1>3, InAppend
  <2>3. /\ Entries(Append(pendingEarlyQueue, new)) = Append(Entries(pendingEarlyQueue), Entry(new))
        /\ Entry(new) \in Job
    BY <2>1, <1>3, EntriesAppend
  <2> QED
    BY <2>2, <2>3, <1>4
<1>6. Held' = Held
  BY <1>2 DEF Held, Submits
<1>7. Chain'
  <2>1. AllFollow(separate, In(Entries(log)) \cup In(pending) \cup In(pre_start)
                              \cup In(Entries(pendingEarlyQueue)), {Entry(new)})
    BY <1>3, AllSubmitted DEF AllFollow
  <2>2. ChainOf(separate, Entries(log), pending, pre_start,
                Append(Entries(pendingEarlyQueue), Entry(new)), Held)
    BY <2>1, <1>5, Members, ChainSubmit DEF Way, Chain
  <2> QED
    BY <2>2, <1>2, <1>5, <1>6 DEF Chain
<1>8. Newer'
  <2>1. \A q \in Producers : latest'[q] \in Nat /\ latest'[q] <= submitted'[q]
    BY <1>2, <1>3 DEF Way, Newer, TypeOK
  <2>2. LatestIsMostRecent' = LatestIsMostRecent
    BY <1>2 DEF LatestIsMostRecent
  <2> QED
    BY <2>1, <2>2, <1>2, <1>6 DEF Way, Newer
<1>9. Located'
  BY <1>2, <1>3, <1>5, <1>6 DEF Way, Located
<1>10. LoggedSubmitted'
  BY <1>2, <1>3 DEF Way, LoggedSubmitted
<1> QED
  BY <1>7, <1>8, <1>9, <1>10 DEF Way

LEMMA LatestWay ==
  ASSUME TypeOK, Locks, Way, NEW p \in Producers, SubmitLatest(p)
  PROVE  Way'
<1> DEFINE n == submitted[p] + 1  new == <<p, n>>  e == [kind |-> "latest", value |-> new]
<1>1. /\ submitted' = [submitted EXCEPT ![p] = @ + 1] /\ Cardinality(Submitted) < MaxEvents
      /\ job' = [job EXCEPT ![p] = [kind |-> "latest", value |-> <<p, submitted'[p]>>]]
      /\ pc[p] = "idle"
  BY DEF SubmitLatest
<1>2. UNCHANGED <<separate, pendingEarlyQueue, pre_start, overflowed, pending, log, slot, latest, arrived>>
  BY DEF SubmitLatest, startVars, preVars, queueVars, slotVars, kotlinVars
<1>3. /\ new \in Values /\ submitted'[p] = n /\ Submitted' = Submitted \cup {new}
      /\ \A free, f : f.value \in Submitted => Follow(free, f, e)
      /\ \A q \in Producers : submitted'[q] \in Nat /\ submitted[q] \in Nat /\ submitted[q] <= submitted'[q]
  BY <1>1, NewSubmitted
<1>4. e \in Job /\ e # None /\ e.kind = "latest" /\ e.value = new
  BY <1>3, NoneNoJob DEF Job
<1>5. job' = [job EXCEPT ![p] = e]
  BY <1>1, <1>3
<1>6. new[1] = p /\ new[2] = n /\ submitted[p] \in Nat /\ n = submitted[p] + 1
  BY <1>3
<1> HIDE DEF n, new, e
<1>7. Held' = Held \cup {e}
  <2>1. p \in Threads /\ job[p] = None /\ job'[p] = e
        /\ \A t \in Threads : t # p => job'[t] = job[t]
    BY <1>1, <1>5 DEF Threads, Locks, LockOf, TypeOK
  <2> QED
    BY <2>1, <1>4 DEF Held, Submits
<1>8. Chain'
  <2>1. AllFollow(separate, In(Entries(log)) \cup In(pending) \cup In(pre_start)
                              \cup In(Entries(pendingEarlyQueue)), {e})
    BY <1>3, AllSubmitted DEF AllFollow
  <2>2. ChainOf(separate, Entries(log), pending, pre_start, Entries(pendingEarlyQueue), Held \cup {e})
    BY <2>1, <1>4, Members, ChainSubmit DEF Way, Chain
  <2> QED
    BY <2>2, <1>2, <1>7 DEF Chain
<1>9. Newer'
  <2>1. \A q \in Producers : latest'[q] \in Nat /\ latest'[q] <= submitted'[q]
        /\ latest[q] <= submitted[q]
    BY <1>2, <1>3 DEF Way, Newer, TypeOK
  <2>2. LatestIsMostRecent' = LatestIsMostRecent
    BY <1>2 DEF LatestIsMostRecent
  <2>3. latest[p] < n
    BY <2>1, <1>2, <1>3, <1>6
  <2> QED
    BY <2>1, <2>2, <2>3, <1>2, <1>4, <1>6, <1>7 DEF Way, Newer
<1>10. Located'
  <2>1. ValuesOf(Held \cup {e}) = ValuesOf(Held) \cup {new}
    BY <1>4 DEF ValuesOf
  <2> QED
    BY <2>1, <1>2, <1>3, <1>7 DEF Way, Located
<1>11. LoggedSubmitted'
  BY <1>2, <1>3 DEF Way, LoggedSubmitted
<1> QED
  BY <1>8, <1>9, <1>10, <1>11 DEF Way

LEMMA SameWay ==
  ASSUME Way, Held' = Held,
         UNCHANGED <<submitted, separate, pendingEarlyQueue, pre_start, pending,
                     log, slot, latest, arrived, overflowed>>
  PROVE  Way'
<1>1. Chain' /\ Newer'
  BY DEF Way, Chain, Newer, LatestIsMostRecent
<1>2. Located' /\ LoggedSubmitted'
  BY DEF Way, Located, LoggedSubmitted, Submitted
<1> QED
  BY <1>1, <1>2 DEF Way

LEMMA SameHeld == UNCHANGED job => Held' = Held
  BY DEF Held, Submits

LEMMA FlushWay ==
  ASSUME TypeOK, Locks, Way, NEW t \in Threads, Flush(t)
  PROVE  Way'
<1>1. Held' = Held
  <2>1. job[t] = None /\ ~Submits(t, "latest")
    BY DEF Flush, Locks, LockOf, Submits
  <2>2. job' \in [Threads -> Job \cup {None}]
    BY FlushTypeOK DEF TypeOK
  <2>3. /\ \A u \in Threads : u # t => job'[u] = job[u]
        /\ job'[t] = None \/ job'[t].kind = "queue"
    BY <2>1 DEF Flush, TypeOK
  <2>4. ~Submits(t, "latest")'
    BY <2>3 DEF Submits
  <2> QED
    BY <2>1, <2>3, <2>4 DEF Held, Submits
<1>2. UNCHANGED <<submitted, separate, pendingEarlyQueue, pre_start, pending,
                  log, slot, latest, arrived, overflowed>>
  BY DEF Flush, preVars, queueVars, slotVars
<1> QED
  BY <1>1, <1>2, SameWay

\* The event of a submission that returns is the first of Kotlin's queue, or
\* the one its thread held.
LEMMA ReturnHands ==
  ASSUME TypeOK, Locks, Way, NEW t \in Threads, pc[t] \in {"push", "dispatch"}, Return(t)
  PROVE  LET e == job[t]
             K == Entries(pendingEarlyQueue)
             K2 == Entries(pendingEarlyQueue')
         IN /\ e \in Job
            /\ InOrder(separate, K2) /\ In(K2) \subseteq In(K) /\ Held' \subseteq Held
            /\ e \in In(K) \cup Held
            /\ AllFollow(separate, {e}, In(K2) \cup Held')
            /\ In(pendingEarlyQueue) \cup ValuesOf(Held)
                 = {e.value} \cup In(pendingEarlyQueue') \cup ValuesOf(Held')
            /\ e.kind = "queue" => /\ pendingEarlyQueue # <<>> /\ e = Head(K) /\ K2 = Tail(K)
                                   /\ e.value = Head(pendingEarlyQueue) /\ Held' = Held
            /\ e.kind = "latest" => /\ pendingEarlyQueue' = pendingEarlyQueue /\ e \in Held
                                    /\ \A f \in Held' : f.value[1] # e.value[1]
<1> DEFINE e == job[t]  K == Entries(pendingEarlyQueue)  K2 == Entries(pendingEarlyQueue')
<1>1. e \in Job /\ e # None /\ e.kind \in {"queue", "latest"} /\ LockOf(t)
  BY NoneNoJob DEF Locks, LockOf, TypeOK, Job
<1>2. K \in Seq(Job) /\ pendingEarlyQueue \in Seq(Values) /\ InOrder(separate, K)
  BY Members DEF Way, Chain, ChainOf, TypeOK
<1>3. /\ \A u \in Threads : u # t => job'[u] = job[u]
      /\ job'[t] = None
  BY DEF Return, TypeOK
<1>4. CASE e.kind = "queue"
  <2>1. Held' = Held
    <3>1. ~Submits(t, "latest") /\ ~Submits(t, "latest")'
      BY <1>3, <1>4 DEF Submits
    <3> QED
      BY <3>1, <1>3 DEF Held, Submits
  <2>2. /\ pendingEarlyQueue # <<>> /\ e.value = Head(pendingEarlyQueue)
        /\ pendingEarlyQueue' = Tail(pendingEarlyQueue)
    BY <1>1, <1>4 DEF LockOf, Submits, Return
  <2>3. K2 = Tail(K) /\ Head(K) = Entry(e.value) /\ K # <<>>
    BY <2>2, <1>2, EntriesTail
  <2>4. e = Head(K)
    BY <2>3, <1>1, <1>4 DEF Entry, Job
  <2>5. In(K) = {e} \cup In(K2)
    BY <2>3, <2>4, <1>2, InTail
  <2>6. InOrder(separate, K2) /\ AllFollow(separate, {e}, In(K2))
    BY <2>3, <2>4, <1>2, OrderTail
  <2>7. AllFollow(separate, {e}, Held)
    BY <1>4, HeldFacts DEF AllFollow, Follow
  <2>8. In(pendingEarlyQueue) = {e.value} \cup In(pendingEarlyQueue')
    BY <2>2, <1>2, InTail
  <2>9. AllFollow(separate, {e}, In(K2) \cup Held')
    BY <2>1, <2>6, <2>7 DEF AllFollow
  <2> HIDE DEF e, K, K2
  <2> QED
    BY <1>1, <1>4, <2>1, <2>2, <2>3, <2>4, <2>5, <2>6, <2>8, <2>9 DEF e, K, K2
<1>5. CASE e.kind = "latest"
  <2>1. pendingEarlyQueue' = pendingEarlyQueue /\ K2 = K
    BY <1>5 DEF Return
  <2>2. Held = Held' \cup {e}
    <3>1. Submits(t, "latest") /\ ~Submits(t, "latest")'
      BY <1>1, <1>3, <1>5 DEF Submits
    <3> QED
      BY <3>1, <1>3 DEF Held, Submits
  <2>3. e.value[1] = t
    BY <1>1, <1>5 DEF LockOf, Submits
  <2>4. \A f \in Held' : f.value[1] # t
    <3>1. \A u \in Threads : Submits(u, "latest") => job[u].value[1] = u
      BY DEF Locks, LockOf
    <3>2. ASSUME NEW f \in Held' PROVE f.value[1] # t
      <4>1. PICK u \in Threads : Submits(u, "latest")' /\ f = job'[u]
        BY DEF Held
      <4>2. u # t /\ Submits(u, "latest") /\ f = job[u]
        BY <4>1, <1>3 DEF Submits
      <4> QED
        BY <4>2, <3>1
    <3> QED
      BY <3>2
  <2>5. ASSUME NEW f \in Held' PROVE Follow(separate, e, f)
    BY <2>3, <2>4 DEF Follow, Precedes
  <2>6. ASSUME NEW f \in In(K) PROVE Follow(separate, e, f)
    BY <1>2, <1>5, EntriesType DEF Follow
  <2>7. AllFollow(separate, {e}, In(K2) \cup Held')
    BY <2>1, <2>5, <2>6 DEF AllFollow
  <2>8. ValuesOf(Held) = ValuesOf(Held') \cup {e.value}
    BY <2>2 DEF ValuesOf
  <2> HIDE DEF e, K, K2
  <2> QED
    BY <1>1, <1>2, <1>5, <2>1, <2>2, <2>3, <2>4, <2>7, <2>8 DEF e, K, K2
<1> QED
  BY <1>1, <1>4, <1>5

LEMMA PushWay ==
  ASSUME TypeOK, Locks, Phases, Way, NEW t \in Threads, Push(t)
  PROVE  Way'
<1> DEFINE e == job[t]  K == Entries(pendingEarlyQueue)  K2 == Entries(pendingEarlyQueue')
<1>1. /\ e \in Job
      /\ InOrder(separate, K2) /\ In(K2) \subseteq In(K) /\ Held' \subseteq Held
      /\ e \in In(K) \cup Held
      /\ AllFollow(separate, {e}, In(K2) \cup Held')
      /\ In(pendingEarlyQueue) \cup ValuesOf(Held)
           = {e.value} \cup In(pendingEarlyQueue') \cup ValuesOf(Held')
      /\ e.kind = "latest" => e \in Held
      /\ e.kind = "queue" => Held' = Held
  BY ReturnHands DEF Push
<1>2. UNCHANGED <<submitted, separate, pending, log, slot, latest, arrived>>
  BY DEF Push, Return, startVars, queueVars, slotVars
<1>3. pre_start \in Seq(Job) /\ PreStartCapacity \in Nat \ {0} /\ pre_start' \in Seq(Job)
  BY EarlyEventsAssumption, PushTypeOK DEF TypeOK
<1> HIDE DEF e
<1>4. PICK B \in Seq(Job) :
        /\ pre_start' = Append(B, e)
        /\ \/ B = pre_start /\ overflowed' = overflowed
           \/ pre_start # <<>> /\ B = Tail(pre_start) /\ overflowed' = overflowed \cup {Head(pre_start).value}
  <2>1. CASE Len(pre_start) = PreStartCapacity
    <3>1. pre_start # <<>>
      BY <2>1, <1>3
    <3>2. Tail(pre_start) \in Seq(Job)
      BY <3>1, <1>3, Typed
    <3>3. pre_start' = Append(Tail(pre_start), e)
          /\ overflowed' = overflowed \cup {Head(pre_start).value}
      BY <2>1 DEF Push, e
    <3> QED
      BY <3>1, <3>2, <3>3
  <2>2. CASE Len(pre_start) < PreStartCapacity
    BY <2>2, <1>3 DEF Push, e
  <2> QED
    BY <2>1, <2>2 DEF Push
<1>5. ChainOf(separate, Entries(log), pending, B, K, Held)
  <2>1. ChainOf(separate, Entries(log), pending, pre_start, K, Held)
    BY DEF Way, Chain
  <2> HIDE DEF K
  <2> QED
    BY <2>1, <1>3, <1>4, ChainOverflow
<1>6. In(B) \subseteq In(pre_start) /\ In(pre_start') = In(B) \cup {e}
  <2>1. In(Append(B, e)) = In(B) \cup {e}
    BY <1>1, InAppend DEF e
  <2>2. pre_start # <<>> => In(Tail(pre_start)) \subseteq In(pre_start)
    BY <1>3, InTail
  <2> QED
    BY <2>1, <2>2, <1>4
<1>7. ValuesOf(In(B)) \cup overflowed' = ValuesOf(In(pre_start)) \cup overflowed
  BY <1>3, <1>4, InTail DEF ValuesOf
<1>8. ChainOf(separate, Entries(log), pending, pre_start', K2, Held')
  <2> HIDE DEF K, K2
  <2> QED
    BY <1>1, <1>4, <1>5, ChainPush
<1>9. Chain'
  BY <1>2, <1>8 DEF Chain
<1>10. Newer'
  <2>1. \A f \in In(pending) \cup In(pre_start') \cup Held' :
          ~separate /\ f.kind = "latest" => latest[f.value[1]] < f.value[2]
    <3>1. ASSUME NEW f \in In(pending) \cup In(pre_start') \cup Held', ~separate, f.kind = "latest"
          PROVE  latest[f.value[1]] < f.value[2]
      <4>1. f \in In(pending) \cup In(pre_start) \cup Held
        BY <3>1, <1>1, <1>6
      <4> QED
        BY <4>1, <3>1 DEF Way, Newer
    <3> QED
      BY <3>1
  <2>2. LatestIsMostRecent' = LatestIsMostRecent
    BY <1>2 DEF LatestIsMostRecent
  <2> QED
    BY <2>1, <2>2, <1>2 DEF Way, Newer
<1>11. Located'
  <2>1. ValuesOf(In(pre_start')) = ValuesOf(In(B)) \cup {e.value}
    BY <1>6 DEF ValuesOf
  <2>2. Submitted' = Submitted
    BY <1>2 DEF Submitted
  <2> QED
    BY <2>1, <2>2, <1>1, <1>2, <1>7 DEF Way, Located
<1>12. LoggedSubmitted'
  BY <1>2 DEF Way, LoggedSubmitted, Submitted
<1> QED
  BY <1>9, <1>10, <1>11, <1>12 DEF Way

LEMMA TakePendingWay ==
  ASSUME TypeOK, Phases, Way, TakePending
  PROVE  Way'
<1>1. UNCHANGED <<submitted, separate, pendingEarlyQueue, job, log, slot, latest, arrived, overflowed>>
  BY DEF TakePending, callVars, kotlinVars, queueVars, slotVars
<1>2. pending = <<>> /\ pending' = pre_start /\ pre_start' = <<>>
  BY DEF TakePending, Phases
<1>3. Held' = Held
  BY <1>1, SameHeld
<1>4. Chain'
  <2>1. ChainOf(separate, Entries(log), <<>>, pre_start, Entries(pendingEarlyQueue), Held)
    BY <1>2 DEF Way, Chain
  <2>2. ChainOf(separate, Entries(log), pre_start, <<>>, Entries(pendingEarlyQueue), Held)
    BY <2>1, ChainTake
  <2> QED
    BY <2>2, <1>1, <1>2, <1>3 DEF Chain
<1>5. Newer'
  <2>1. LatestIsMostRecent' = LatestIsMostRecent
    BY <1>1 DEF LatestIsMostRecent
  <2> QED
    BY <2>1, <1>1, <1>2, <1>3, InEmpty DEF Way, Newer
<1>6. Located'
  <2>1. ValuesOf(In(<<>>)) = {}
    BY InEmpty DEF ValuesOf
  <2>2. Submitted' = Submitted
    BY <1>1 DEF Submitted
  <2> QED
    BY <2>1, <2>2, <1>1, <1>2, <1>3 DEF Way, Located
<1>7. LoggedSubmitted'
  BY <1>1 DEF Way, LoggedSubmitted, Submitted
<1> QED
  BY <1>4, <1>5, <1>6, <1>7 DEF Way

\* A value newer than the slot's becomes the slot's.
LEMMA SlotAdvances ==
  ASSUME TypeOK, Newer, NEW v \in Submitted, PublishLatest(v),
         ~separate => latest[v[1]] < v[2]
  PROVE  /\ \A p \in Producers : latest'[p] <= submitted[p]
         /\ \A p \in Producers : p # v[1] => latest'[p] = latest[p]
         /\ ~separate => LatestIsMostRecent' /\ latest'[v[1]] = v[2]
<1>1. /\ latest' = [latest EXCEPT ![v[1]] = IF latest[v[1]] > v[2] THEN latest[v[1]] ELSE v[2]]
      /\ slot' = v
  BY DEF PublishLatest
<1>2. v[1] \in Producers /\ v[2] \in 1..MaxEvents /\ v[2] <= submitted[v[1]] /\ MaxEvents \in Nat
  BY EarlyEventsAssumption DEF Submitted, Values
<1>3. \A p \in Producers : latest[p] \in 0..MaxEvents /\ submitted[p] \in 0..MaxEvents
      /\ latest[p] <= submitted[p]
  BY DEF TypeOK, Newer
<1>4. /\ \A p \in Producers : p # v[1] => latest'[p] = latest[p]
      /\ latest'[v[1]] = IF latest[v[1]] > v[2] THEN latest[v[1]] ELSE v[2]
  BY <1>1, <1>2 DEF TypeOK
<1>5. ASSUME NEW p \in Producers PROVE latest'[p] <= submitted[p]
  BY <1>2, <1>3, <1>4
<1>6. ASSUME ~separate PROVE latest'[v[1]] = v[2]
  BY <1>2, <1>3, <1>4, <1>6
<1>7. ASSUME ~separate PROVE LatestIsMostRecent'
  BY <1>1, <1>6, <1>7 DEF LatestIsMostRecent
<1> QED
  BY <1>4, <1>5, <1>6, <1>7

LEMMA ReplayWay ==
  ASSUME TypeOK, Locks, Way, Replay
  PROVE  Way'
<1> DEFINE e == Head(pending)  K == Entries(pendingEarlyQueue)
<1>1. UNCHANGED <<submitted, separate, pendingEarlyQueue, job, pre_start, overflowed>>
  BY DEF Replay, callVars, startVars, kotlinVars, preVars
<1>2. pending # <<>> /\ pending' = Tail(pending) /\ pending \in Seq(Job) /\ log \in Seq(Values)
  BY DEF Replay, TypeOK
<1>3. Held' = Held /\ Submitted' = Submitted
  BY <1>1, SameHeld DEF Submitted
<1>4. e \in Job /\ e.value \in Values /\ In(pending) = {e} \cup In(Tail(pending))
      /\ arrived' = arrived \cup {e.value}
  <2>1. e \in Job
    BY <1>2, Typed
  <2>2. In(pending) = {e} \cup In(Tail(pending))
    BY <1>2, InTail
  <2>3. arrived' = arrived \cup {e.value}
    BY DEF Replay, Publish
  <2> QED
    BY <2>1, <2>2, <2>3 DEF Job
<1>5. e.value \in Submitted
  BY <1>4, AllSubmitted
<1>6. InOrder(separate, pending) /\ AllFollow(separate, {e}, In(Tail(pending)))
      /\ AllFollow(separate, {e}, In(pre_start)) /\ AllFollow(separate, {e}, Held)
  <2>1. InOrder(separate, pending) /\ AllFollow(separate, In(pending), In(pre_start))
        /\ AllFollow(separate, In(pending), Held)
    BY DEF Way, Chain, ChainOf
  <2> QED
    BY <2>1, <1>2, <1>4, OrderTail DEF AllFollow
<1>7. ChainOf(separate, Append(Entries(log), e), Tail(pending), pre_start, K, Held)
      /\ ChainOf(separate, Entries(log), Tail(pending), pre_start, K, Held)
  <2>1. ChainOf(separate, Entries(log), pending, pre_start, K, Held)
    BY DEF Way, Chain
  <2> HIDE DEF K
  <2> QED
    BY <2>1, <1>2, Members, ChainReplay
<1>8. Located'
  <2>1. ValuesOf(In(pending)) = ValuesOf(In(Tail(pending))) \cup {e.value}
    BY <1>4 DEF ValuesOf
  <2> QED
    BY <2>1, <1>1, <1>2, <1>3, <1>4 DEF Way, Located
<1>9. \A p \in Producers : latest[p] <= submitted[p]
  BY DEF Way, Newer
<1> HIDE DEF e
<1>10. CASE e.kind = "queue" /\ PublishQueue(e.value)
  <2>1. log' = Append(log, e.value) /\ slot' = slot /\ latest' = latest
    BY <1>10 DEF PublishQueue, slotVars
  <2>2. Entries(log') = Append(Entries(log), e) /\ In(log') = In(log) \cup {e.value}
    <3>1. Entry(e.value) = e
      BY <1>4, <1>10 DEF Entry, Job
    <3> QED
      BY <2>1, <3>1, <1>2, <1>4, EntriesAppend, InAppend
  <2>3. Chain'
    BY <2>2, <1>1, <1>2, <1>3, <1>7 DEF Chain
  <2>4. Newer'
    <3>1. LatestIsMostRecent' = LatestIsMostRecent
      BY <2>1 DEF LatestIsMostRecent
    <3> QED
      BY <2>1, <3>1, <1>1, <1>2, <1>3, <1>4 DEF Way, Newer
  <2>5. LoggedSubmitted'
    BY <2>2, <1>3, <1>5 DEF Way, LoggedSubmitted
  <2> QED
    BY <2>3, <2>4, <2>5, <1>8 DEF Way
<1>11. CASE e.kind = "latest" /\ PublishLatest(e.value)
  <2>1. log' = log
    BY <1>11 DEF PublishLatest, queueVars
  <2>2. ~separate => latest[e.value[1]] < e.value[2]
    BY <1>4, <1>11 DEF Way, Newer
  <2>3. /\ \A p \in Producers : latest'[p] <= submitted[p]
        /\ \A p \in Producers : p # e.value[1] => latest'[p] = latest[p]
        /\ ~separate => LatestIsMostRecent' /\ latest'[e.value[1]] = e.value[2]
    BY <1>5, <1>11, <2>2, SlotAdvances DEF Way
  <2>4. Chain'
    BY <2>1, <1>1, <1>2, <1>3, <1>7 DEF Chain
  <2>5. ASSUME NEW f \in In(Tail(pending)) \cup In(pre_start) \cup Held, ~separate, f.kind = "latest"
        PROVE  latest'[f.value[1]] < f.value[2]
    <3>1. f \in Job /\ f.value[1] \in Producers
      BY <1>4, Members, HeldFacts DEF Job, Values
    <3>2. CASE f.value[1] # e.value[1]
      BY <3>1, <3>2, <2>3, <2>5, <1>4 DEF Way, Newer
    <3>3. CASE f.value[1] = e.value[1]
      <4>1. Follow(separate, e, f)
        BY <1>6 DEF AllFollow
      <4>2. e.value[2] < f.value[2]
        BY <4>1, <3>3, <2>5, <1>11 DEF Follow, Precedes
      <4> QED
        BY <4>2, <3>3, <2>3, <2>5
    <3> QED
      BY <3>2, <3>3
  <2>6. Newer'
    BY <2>3, <2>5, <1>1, <1>2, <1>3 DEF Newer
  <2>7. LoggedSubmitted'
    BY <2>1, <1>3 DEF Way, LoggedSubmitted
  <2> QED
    BY <2>4, <2>6, <2>7, <1>8 DEF Way
<1> QED
  BY <1>10, <1>11 DEF Replay, Publish, e

LEMMA DispatchWay ==
  ASSUME TypeOK, Locks, Phases, Way, NEW t \in Threads, Dispatch(t)
  PROVE  Way'
<1> DEFINE e == job[t]  K == Entries(pendingEarlyQueue)  K2 == Entries(pendingEarlyQueue')
<1>1. /\ e \in Job
      /\ Held' \subseteq Held /\ e \in In(K) \cup Held
      /\ In(pendingEarlyQueue) \cup ValuesOf(Held)
           = {e.value} \cup In(pendingEarlyQueue') \cup ValuesOf(Held')
      /\ e.kind = "queue" => /\ pendingEarlyQueue # <<>> /\ e = Head(K) /\ K2 = Tail(K)
                             /\ e.value = Head(pendingEarlyQueue) /\ Held' = Held
      /\ e.kind = "latest" => /\ pendingEarlyQueue' = pendingEarlyQueue /\ e \in Held
                              /\ \A f \in Held' : f.value[1] # e.value[1]
  BY ReturnHands DEF Dispatch
<1>2. UNCHANGED <<submitted, separate, pre_start, overflowed, pending>>
  BY DEF Dispatch, Return, startVars, preVars
<1>3. Submitted' = Submitted
  BY <1>2 DEF Submitted
<1>4. e.value \in Values /\ arrived' = arrived \cup {e.value} /\ log \in Seq(Values)
  BY <1>1 DEF Dispatch, Publish, Job, TypeOK
<1>5. e.value \in Submitted
  BY <1>1, AllSubmitted
<1>6. separate \/ (pending = <<>> /\ pre_start = <<>>)
  <2>1. ASSUME ~separate PROVE started \in {"flush", "up"}
    <3>1. pc[t] = "dispatch" /\ started \notin {"before", "loaded"}
      BY DEF Dispatch, Phases, GlobalSet
    <3>2. started \in {"before", "loaded", "set", "replay", "flush", "up"}
      BY DEF TypeOK
    <3> QED
      BY <2>1, <3>1, <3>2 DEF Phases, Threads
  <2> QED
    BY <2>1 DEF Phases
<1>7. Located'
  BY <1>1, <1>2, <1>3, <1>4 DEF Way, Located
<1> HIDE DEF e
<1>8. CASE e.kind = "queue" /\ PublishQueue(e.value)
  <2>1. log' = Append(log, e.value) /\ slot' = slot /\ latest' = latest
    BY <1>8 DEF PublishQueue, slotVars
  <2>2. Entries(log') = Append(Entries(log), e) /\ In(log') = In(log) \cup {e.value}
    <3>1. Entry(e.value) = e
      BY <1>1, <1>8 DEF Entry, Job
    <3> QED
      BY <2>1, <3>1, <1>4, EntriesAppend, InAppend
  <2>3. Chain'
    <3>1. ChainOf(separate, Entries(log), pending, pre_start, K, Held)
      BY DEF Way, Chain
    <3>2. K \in Seq(Job) /\ K # <<>> /\ Entries(log) \in Seq(Job) /\ e \in In(K)
      <4>1. K \in Seq(Job) /\ Entries(log) \in Seq(Job)
        BY Members
      <4>2. K # <<>>
        BY <1>1, <1>8, EntriesTail DEF TypeOK
      <4> QED
        BY <4>1, <4>2, <1>1, <1>8, InTail
    <3>3. \A f \in Held : Follow(separate, e, f)
      BY <1>8, HeldFacts DEF Follow
    <3>4. \A f \in In(pending) \cup In(pre_start) : Follow(separate, e, f)
      <4>1. CASE separate
        <5>1. \A f \in In(pending) \cup In(pre_start) : Follow(separate, f, e)
          BY <3>1, <3>2 DEF ChainOf, AllFollow
        <5> QED
          BY <4>1, <5>1 DEF Follow, Precedes
      <4>2. CASE pending = <<>> /\ pre_start = <<>>
        BY <4>2, InEmpty
      <4> QED
        BY <4>1, <4>2, <1>6
    <3>5. AllFollow(separate, {e}, In(pending) \cup In(pre_start) \cup Held)
      BY <3>3, <3>4 DEF AllFollow
    <3>6. ChainOf(separate, Append(Entries(log), e), pending, pre_start, Tail(K), Held)
      <4> HIDE DEF K
      <4> QED
        BY <1>1, <1>8, <3>1, <3>2, <3>5, ChainDispatch
    <3> QED
      BY <3>6, <2>2, <1>1, <1>2, <1>8 DEF Chain
  <2>4. Newer'
    <3>1. LatestIsMostRecent' = LatestIsMostRecent
      BY <2>1 DEF LatestIsMostRecent
    <3> QED
      BY <2>1, <3>1, <1>1, <1>2 DEF Way, Newer
  <2>5. LoggedSubmitted'
    BY <2>2, <1>3, <1>5 DEF Way, LoggedSubmitted
  <2> QED
    BY <2>3, <2>4, <2>5, <1>7 DEF Way
<1>9. CASE e.kind = "latest" /\ PublishLatest(e.value)
  <2>1. log' = log
    BY <1>9 DEF PublishLatest, queueVars
  <2>2. ~separate => latest[e.value[1]] < e.value[2]
    BY <1>1, <1>9 DEF Way, Newer
  <2>3. /\ \A p \in Producers : latest'[p] <= submitted[p]
        /\ \A p \in Producers : p # e.value[1] => latest'[p] = latest[p]
        /\ ~separate => LatestIsMostRecent' /\ latest'[e.value[1]] = e.value[2]
    BY <1>5, <1>9, <2>2, SlotAdvances DEF Way
  <2>4. Chain'
    <3>1. ChainOf(separate, Entries(log), pending, pre_start, K, Held')
      <4>1. ChainOf(separate, Entries(log), pending, pre_start, K, Held)
        BY DEF Way, Chain
      <4> HIDE DEF K
      <4> QED
        BY <4>1, <1>1, ChainLess
    <3> QED
      BY <3>1, <2>1, <1>1, <1>2, <1>9 DEF Chain
  <2>5. ASSUME NEW f \in In(pending) \cup In(pre_start) \cup Held', ~separate, f.kind = "latest"
        PROVE  latest'[f.value[1]] < f.value[2]
    <3>1. f \in Held' /\ f \in Held
      BY <2>5, <1>1, <1>6, InEmpty
    <3>2. f.value[1] \in Producers /\ f.value[1] # e.value[1]
      BY <3>1, <1>1, <1>9, HeldFacts
    <3> QED
      BY <3>1, <3>2, <2>3, <2>5 DEF Way, Newer
  <2>6. Newer'
    BY <2>3, <2>5, <1>2 DEF Newer
  <2>7. LoggedSubmitted'
    BY <2>1, <1>3 DEF Way, LoggedSubmitted
  <2> QED
    BY <2>4, <2>6, <2>7, <1>7 DEF Way
<1> QED
  BY <1>8, <1>9 DEF Dispatch, Publish, e

-----------------------------------------------------------------------------
(* Subscribers.                                                            *)

LEMMA EndsEmpty ==
  ASSUME NEW t \in Seq(Values)
  PROVE  EndsWith(t, <<>>)
  BY DEF EndsWith

LEMMA EndsAppend ==
  ASSUME NEW t \in Seq(Values), NEW s \in Seq(Values), NEW v \in Values, EndsWith(t, s)
  PROVE  EndsWith(Append(t, v), Append(s, v))
<1>1. /\ Len(Append(t, v)) = Len(t) + 1 /\ Len(Append(s, v)) = Len(s) + 1
      /\ Len(t) \in Nat /\ Len(s) \in Nat
  BY Typed
<1>2. Len(s) <= Len(t) /\ \A i \in 1..Len(s) : s[i] = t[Len(t) - Len(s) + i]
  BY DEF EndsWith
<1>3. ASSUME NEW i \in 1..(Len(s) + 1)
      PROVE  Append(s, v)[i] = Append(t, v)[(Len(t) + 1) - (Len(s) + 1) + i]
  <2>1. (Len(t) + 1) - (Len(s) + 1) + i = Len(t) - Len(s) + i
    BY <1>1
  <2>2. CASE i = Len(s) + 1
    <3>1. Len(t) - Len(s) + i = Len(t) + 1
      BY <1>1, <2>2
    <3>2. Append(s, v)[i] = v /\ Append(t, v)[Len(t) + 1] = v
      BY <1>1, <2>2
    <3> QED
      BY <2>1, <3>1, <3>2
  <2>3. CASE i # Len(s) + 1
    <3>1. i \in 1..Len(s) /\ Len(t) - Len(s) + i \in 1..Len(t)
      BY <1>1, <1>2, <2>3
    <3>2. Append(s, v)[i] = s[i] /\ Append(t, v)[Len(t) - Len(s) + i] = t[Len(t) - Len(s) + i]
      BY <3>1
    <3> QED
      BY <2>1, <3>1, <3>2, <1>2
  <2> QED
    BY <2>2, <2>3
<1>4. ASSUME NEW i \in 1..Len(Append(s, v))
      PROVE  Append(s, v)[i] = Append(t, v)[Len(Append(t, v)) - Len(Append(s, v)) + i]
  BY <1>1, <1>3
<1>5. Len(Append(s, v)) <= Len(Append(t, v))
  BY <1>1, <1>2
<1> QED
  BY <1>4, <1>5 DEF EndsWith

LEMMA EndsTail ==
  ASSUME NEW t \in Seq(Values), NEW s \in Seq(Values), s # <<>>, EndsWith(t, s)
  PROVE  EndsWith(t, Tail(s))
<1>1. /\ Len(Tail(s)) = Len(s) - 1 /\ Len(s) > 0 /\ Len(t) \in Nat /\ Len(s) \in Nat
      /\ Tail(s) \in Seq(Values)
  BY Typed
<1>2. Len(s) <= Len(t) /\ \A i \in 1..Len(s) : s[i] = t[Len(t) - Len(s) + i]
  BY DEF EndsWith
<1>3. ASSUME NEW i \in 1..(Len(s) - 1)
      PROVE  Tail(s)[i] = t[Len(t) - (Len(s) - 1) + i]
  <2>1. i + 1 \in 1..Len(s) /\ Tail(s)[i] = s[i + 1]
    BY <1>1
  <2>2. Len(t) - (Len(s) - 1) + i = Len(t) - Len(s) + (i + 1)
    BY <1>1
  <2> QED
    BY <2>1, <2>2, <1>2
<1>4. ASSUME NEW i \in 1..Len(Tail(s))
      PROVE  Tail(s)[i] = t[Len(t) - Len(Tail(s)) + i]
  BY <1>1, <1>3
<1>5. Len(Tail(s)) <= Len(t)
  BY <1>1, <1>2
<1> QED
  BY <1>4, <1>5 DEF EndsWith

LEMMA SameStore ==
  ASSUME Store, UNCHANGED <<queueVars, slotVars, subscriberVars>>
  PROVE  Store'
<1>1. UNCHANGED <<capacity, buffered, attached, log, joined, slot, slot_subscribers, receiver, received>>
  BY DEF queueVars, slotVars, subscriberVars
<1>2. Lists'
  BY <1>1 DEF Store, Lists
<1>3. Sent'
  BY <1>1 DEF Store, Sent
<1>4. BacklogOnce' /\ SlotSubscribersAgree'
  BY <1>1 DEF Store, BacklogOnce, SlotSubscribersAgree, Live
<1> QED
  BY <1>2, <1>3, <1>4 DEF Store

\* What the store holds, as far as its types go.
LEMMA StoreTypes ==
  ASSUME TypeOK
  PROVE  /\ log \in Seq(Values) /\ buffered \in Seq(Values) /\ Len(log) \in Nat /\ Len(buffered) \in Nat
         /\ \A s \in Subscribers : /\ received[s] \in Seq(Values) /\ Len(received[s]) \in Nat
                                   /\ joined[s] \in Nat
                                   /\ receiver[s] \in {"none", "queue", "latest", "dropped"}
         /\ attached \subseteq Subscribers /\ slot_subscribers \subseteq Subscribers
         /\ capacity \in Nat \cup {None} /\ None \notin Nat
         /\ PublishCapacity \in Nat /\ SubscribeCapacity \in Nat
         /\ slot \in Values \cup {None} /\ None \notin Values
  BY EarlyEventsAssumption, Typed DEF TypeOK

LEMMA OneMore == \A a, b, c \in Nat : a = b - c => a + 1 = (b + 1) - c
  OBVIOUS

LEMMA PublishQueueStore ==
  ASSUME TypeOK, Store, NEW v \in Values, PublishQueue(v)
  PROVE  Store'
<1> DEFINE cap == QueueCapacity(PublishCapacity)
<1>1. UNCHANGED <<joined, slot, slot_subscribers, receiver>> /\ log' = Append(log, v)
      /\ capacity' = cap
  BY DEF PublishQueue, slotVars
<1>2. Len(log') = Len(log) + 1 /\ log' \in Seq(Values)
  BY <1>1, StoreTypes, Typed
<1>7. Len(log') = Len(log) + 1
  BY <1>2
<1>3. cap \in Nat /\ capacity' # None /\ (capacity # None => cap = capacity)
  BY <1>1, StoreTypes DEF QueueCapacity
<1>4. /\ Lists /\ Sent /\ BacklogOnce /\ SlotSubscribersAgree
  BY DEF Store
<1>5. CASE attached = {}
  <2>1. UNCHANGED <<attached, received>>
    BY <1>5 DEF PublishQueue
  <2>2. buffered' = IF cap = 0 THEN buffered
                    ELSE Append(IF Len(buffered) = cap THEN Tail(buffered) ELSE buffered, v)
    BY <1>5 DEF PublishQueue
  <2>3. \A s \in Subscribers : receiver[s] # "queue"
    BY <1>4, <1>5 DEF Lists
  <2>4. Lists'
    BY <1>1, <1>3, <1>4, <1>5, <2>1 DEF Lists
  <2>5. EndsWith(log, buffered) /\ (capacity = None => log = <<>> /\ buffered = <<>>)
        /\ Len(buffered) <= cap
    <3>1. EndsWith(log, buffered)
      BY <1>4 DEF Sent
    <3>2. capacity = None => log = <<>> /\ Len(buffered) = 0
      BY <1>4, StoreTypes DEF Lists, TypeOK
    <3>3. capacity # None => Len(buffered) <= cap
      BY <1>3 DEF TypeOK
    <3> QED
      BY <3>1, <3>2, <3>3, <1>3, StoreTypes
  <2>6. EndsWith(log', buffered')
    <3> HIDE DEF cap
    <3>1. CASE cap = 0
      <4>1. buffered = <<>>
        BY <3>1, <2>5, StoreTypes
      <4> QED
        BY <4>1, <3>1, <2>2, <1>2, EndsEmpty
    <3>2. CASE cap # 0 /\ Len(buffered) = cap
      <4>1. buffered # <<>> /\ Tail(buffered) \in Seq(Values)
        BY <3>2, <1>3, StoreTypes, Typed
      <4>2. EndsWith(log, Tail(buffered))
        BY <4>1, <2>5, StoreTypes, EndsTail
      <4> QED
        BY <4>1, <4>2, <3>2, <2>2, <1>1, StoreTypes, EndsAppend
    <3>3. CASE cap # 0 /\ Len(buffered) # cap
      BY <3>3, <2>2, <2>5, <1>1, StoreTypes, EndsAppend
    <3> QED
      BY <3>1, <3>2, <3>3
  <2>7. ASSUME \A s \in Subscribers : receiver[s] \in {"none", "latest"}
        PROVE  Len(buffered') = IF Len(log') < cap THEN Len(log') ELSE cap
    <3> HIDE DEF cap
    <3>1. Len(buffered) = IF Len(log) < cap THEN Len(log) ELSE cap
      <4>1. CASE capacity = None
        <5>1. Len(log) = 0 /\ Len(buffered) = 0
          BY <4>1, <2>5
        <5> QED
          BY <5>1, <1>3
      <4>2. CASE capacity # None
        BY <4>2, <1>3, <1>4, <2>7 DEF Sent
      <4> QED
        BY <4>1, <4>2
    <3>2. CASE cap = 0
      BY <3>1, <3>2, <2>2, <1>2, StoreTypes
    <3>3. CASE cap # 0 /\ Len(buffered) = cap
      <4>1. buffered # <<>>
        BY <3>3, <1>3, StoreTypes
      <4>2. Tail(buffered) \in Seq(Values) /\ Len(Tail(buffered)) = cap - 1
        BY <4>1, <3>3, StoreTypes, Typed
      <4>3. Len(buffered') = (cap - 1) + 1
        BY <4>2, <3>3, <2>2, Typed
      <4> QED
        BY <4>3, <3>1, <3>3, <1>2, <1>3, StoreTypes
    <3>4. CASE cap # 0 /\ Len(buffered) # cap
      <4>1. Len(buffered') = Len(buffered) + 1
        BY <3>4, <2>2, StoreTypes, Typed
      <4> QED
        BY <4>1, <3>1, <3>4, <1>2, <1>3, StoreTypes
    <3> QED
      BY <3>2, <3>3, <3>4
  <2>8. Sent'
    BY <1>1, <2>3, <2>6, <2>7 DEF Sent
  <2>9. BacklogOnce' /\ SlotSubscribersAgree'
    BY <1>1, <1>4, <1>5, <2>1 DEF BacklogOnce, SlotSubscribersAgree, Live
  <2> QED
    BY <2>4, <2>8, <2>9 DEF Store
<1>6. CASE attached # {}
  <2>1. SendTo(attached, v) /\ attached' = attached \cap Live /\ buffered' = buffered
        /\ buffered = <<>>
    BY <1>4, <1>6 DEF PublishQueue, Lists
  <2>2. \A s \in Subscribers : receiver[s] = "queue" =>
          /\ received'[s] = Append(received[s], v) /\ Len(received'[s]) = Len(received[s]) + 1
          /\ s \in attached'
    BY <1>4, <2>1, StoreTypes, Typed DEF SendTo, Lists, Live
  <2>3. \A s \in Subscribers : receiver[s] # "queue" => received'[s] = received[s]
    BY <1>4, <2>1 DEF SendTo, Lists, Live
  <2>4. Lists'
    BY <1>1, <1>3, <1>4, <2>1, <2>2 DEF Lists, Live
  <2>5. ASSUME NEW s \in Subscribers, receiver[s] = "queue"
        PROVE  /\ EndsWith(log', received'[s])
               /\ joined[s] <= Len(log') /\ Len(received'[s]) >= Len(log') - joined[s]
    <3>1. /\ EndsWith(log, received[s]) /\ joined[s] <= Len(log)
          /\ Len(received[s]) >= Len(log) - joined[s]
      BY <1>4, <2>5 DEF Sent
    <3>2. EndsWith(Append(log, v), Append(received[s], v))
      BY <3>1, StoreTypes, EndsAppend
    <3>3. EndsWith(log', received'[s])
      BY <3>2, <2>2, <2>5, <1>1
    <3>4. Len(received'[s]) = Len(received[s]) + 1 /\ Len(received[s]) \in Nat
          /\ joined[s] \in Nat /\ Len(log) \in Nat
      BY <2>2, <2>5, StoreTypes
    <3>5. joined[s] <= Len(log') /\ Len(received'[s]) >= Len(log') - joined[s]
      BY <3>1, <3>4, <1>2
    <3> QED
      BY <3>3, <3>5
  <2>6. EndsWith(log', buffered')
    BY <2>1, <1>2, EndsEmpty
  <2>7. ~\A s \in Subscribers : receiver[s] \in {"none", "latest"}
    BY <1>4, <1>6, StoreTypes DEF Lists
  <2>8. Sent'
    BY <1>1, <2>5, <2>6, <2>7 DEF Sent
  <2>9. BacklogOnce'
    <3>1. SUFFICES ASSUME NEW s \in attached' \cap Live', NEW t \in attached' \cap Live', s # t
                   PROVE  Len(received'[s]) = Len(log') - joined[s] \/ Len(received'[t]) = Len(log') - joined[t]
      BY <1>1 DEF BacklogOnce
    <3>2. s \in attached \cap Live /\ t \in attached \cap Live /\ receiver[s] = "queue"
          /\ receiver[t] = "queue"
      BY <1>1, <1>4, <2>1 DEF Live, Lists
    <3>3. Len(received[s]) = Len(log) - joined[s] \/ Len(received[t]) = Len(log) - joined[t]
      BY <1>4, <3>1, <3>2 DEF BacklogOnce
    <3>4. /\ Len(received'[s]) = Len(received[s]) + 1 /\ Len(received'[t]) = Len(received[t]) + 1
          /\ Len(received[s]) \in Nat /\ Len(received[t]) \in Nat
          /\ joined[s] \in Nat /\ joined[t] \in Nat /\ Len(log) \in Nat
      BY <3>2, <2>2, StoreTypes
    <3>5. CASE Len(received[s]) = Len(log) - joined[s]
      <4>1. Len(received'[s]) = Len(log') - joined[s]
        <5>1. Len(received[s]) + 1 = (Len(log) + 1) - joined[s]
          BY <3>4, <3>5, OneMore
        <5> QED
          BY <5>1, <3>4, <1>7
      <4> QED
        BY <4>1
    <3>6. CASE Len(received[t]) = Len(log) - joined[t]
      <4>1. Len(received'[t]) = Len(log') - joined[t]
        <5>1. Len(received[t]) + 1 = (Len(log) + 1) - joined[t]
          BY <3>4, <3>6, OneMore
        <5> QED
          BY <5>1, <3>4, <1>7
      <4> QED
        BY <4>1
    <3> QED
      BY <3>3, <3>5, <3>6
  <2>10. SlotSubscribersAgree'
    BY <1>1, <1>4, <2>3 DEF SlotSubscribersAgree, Live, Lists
  <2> QED
    BY <2>4, <2>8, <2>9, <2>10 DEF Store
<1> QED
  BY <1>5, <1>6

LEMMA PublishLatestStore ==
  ASSUME TypeOK, Store, NEW v \in Values, PublishLatest(v)
  PROVE  Store'
<1>1. UNCHANGED <<capacity, buffered, attached, log, joined, receiver>> /\ slot' = v
      /\ SendTo(slot_subscribers, v) /\ slot_subscribers' = slot_subscribers \cap Live
  BY DEF PublishLatest, queueVars
<1>2. Lists /\ Sent /\ BacklogOnce /\ SlotSubscribersAgree
  BY DEF Store
<1>3. \A s \in Subscribers : receiver[s] # "latest" => received'[s] = received[s]
  BY <1>1, <1>2 DEF SendTo, Lists, Live
<1>4. \A s \in slot_subscribers \cap Live : received'[s] = Append(received[s], v)
  BY <1>1 DEF SendTo, Live
<1>5. Lists'
  BY <1>1, <1>2 DEF Lists
<1>6. Sent'
  BY <1>1, <1>2, <1>3 DEF Sent
<1>7. BacklogOnce'
  <2>1. attached' \cap Live' = attached \cap Live
    BY <1>1 DEF Live
  <2>2. \A s \in attached \cap Live : received'[s] = received[s]
    BY <1>2, <1>3 DEF Live, Lists
  <2> QED
    BY <2>1, <2>2, <1>1, <1>2 DEF BacklogOnce
<1>8. SlotSubscribersAgree'
  <2>1. SUFFICES ASSUME NEW s \in slot_subscribers' \cap Live'
                 PROVE  received'[s] # <<>> /\ Last(received'[s]) = v
    BY <1>1 DEF SlotSubscribersAgree
  <2>2. received'[s] = Append(received[s], v) /\ received[s] \in Seq(Values)
    BY <1>1, <1>4, <2>1, StoreTypes DEF Live
  <2>3. Len(received'[s]) = Len(received[s]) + 1 /\ received'[s] \in Seq(Values)
        /\ Len(received[s]) \in Nat
    BY <2>2, Typed
  <2> QED
    BY <2>2, <2>3 DEF Last
<1> QED
  BY <1>5, <1>6, <1>7, <1>8 DEF Store

LEMMA SubscribeQueueStore ==
  ASSUME TypeOK, Store, NEW s \in Subscribers, SubscribeQueue(s)
  PROVE  Store'
<1>1. /\ receiver[s] = "none" /\ receiver' = [receiver EXCEPT ![s] = "queue"]
      /\ received' = [received EXCEPT ![s] = buffered] /\ buffered' = <<>>
      /\ attached' = attached \cup {s} /\ joined' = [joined EXCEPT ![s] = Len(log)]
      /\ UNCHANGED <<log, slot, slot_subscribers>>
  BY DEF SubscribeQueue, slotVars
<1>2. Lists /\ Sent /\ BacklogOnce /\ SlotSubscribersAgree
  BY DEF Store
<1>3. capacity' \in Nat /\ capacity' # None
  BY StoreTypes DEF SubscribeQueue, QueueCapacity
<1>4. /\ receiver'[s] = "queue" /\ received'[s] = buffered /\ joined'[s] = Len(log)
      /\ \A t \in Subscribers : t # s => /\ receiver'[t] = receiver[t] /\ received'[t] = received[t]
                                         /\ joined'[t] = joined[t]
  BY <1>1 DEF TypeOK
<1>5. s \notin attached /\ s \notin slot_subscribers
  BY <1>1, <1>2 DEF Lists
<1>6. Lists'
  BY <1>1, <1>2, <1>3, <1>4, <1>5 DEF Lists
<1>7. Sent'
  <2>1. EndsWith(log, buffered')
    BY <1>1, StoreTypes, EndsEmpty
  <2>2. ASSUME NEW t \in Subscribers, receiver'[t] = "queue"
        PROVE  EndsWith(log, received'[t]) /\ joined'[t] <= Len(log) /\ Len(received'[t]) >= Len(log) - joined'[t]
    <3>1. CASE t = s
      BY <3>1, <1>2, <1>4, StoreTypes DEF Sent
    <3>2. CASE t # s
      BY <3>2, <2>2, <1>2, <1>4 DEF Sent
    <3> QED
      BY <3>1, <3>2
  <2>3. ~\A t \in Subscribers : receiver'[t] \in {"none", "latest"}
    BY <1>4
  <2> QED
    BY <2>1, <2>2, <2>3, <1>1 DEF Sent
<1>8. BacklogOnce'
  <2>1. SUFFICES ASSUME NEW t \in attached' \cap Live', NEW u \in attached' \cap Live', t # u
                 PROVE  Len(received'[t]) = Len(log) - joined'[t] \/ Len(received'[u]) = Len(log) - joined'[u]
    BY <1>1 DEF BacklogOnce
  <2>2. ASSUME attached # {} PROVE Len(received'[s]) = Len(log) - joined'[s]
    <3>1. Len(buffered) = 0
      BY <2>2, <1>2, StoreTypes DEF Lists
    <3> QED
      BY <3>1, <1>4, StoreTypes
  <2>3. CASE t = s \/ u = s
    BY <2>1, <2>2, <2>3, <1>1
  <2>4. CASE t # s /\ u # s
    <3>1. t \in attached \cap Live /\ u \in attached \cap Live
      BY <2>1, <2>4, <1>1, <1>4 DEF Live
    <3> QED
      BY <3>1, <2>1, <2>4, <1>2, <1>4, StoreTypes DEF BacklogOnce
  <2> QED
    BY <2>3, <2>4
<1>9. SlotSubscribersAgree'
  BY <1>1, <1>2, <1>4, <1>5 DEF SlotSubscribersAgree, Live
<1> QED
  BY <1>6, <1>7, <1>8, <1>9 DEF Store

LEMMA SubscribeLatestStore ==
  ASSUME TypeOK, Store, NEW s \in Subscribers, SubscribeLatest(s)
  PROVE  Store'
<1>1. /\ receiver[s] = "none" /\ receiver' = [receiver EXCEPT ![s] = "latest"]
      /\ received' = IF slot = None THEN received ELSE [received EXCEPT ![s] = <<slot>>]
      /\ slot_subscribers' = slot_subscribers \cup {s}
      /\ UNCHANGED <<capacity, buffered, attached, log, joined, slot>>
  BY DEF SubscribeLatest, queueVars
<1>2. Lists /\ Sent /\ BacklogOnce /\ SlotSubscribersAgree
  BY DEF Store
<1>3. /\ receiver'[s] = "latest" /\ (slot # None => received'[s] = <<slot>>)
      /\ \A t \in Subscribers : t # s => receiver'[t] = receiver[t] /\ received'[t] = received[t]
  BY <1>1 DEF TypeOK
<1>4. s \notin attached
  BY <1>1, <1>2 DEF Lists
<1>5. Lists'
  BY <1>1, <1>2, <1>3, <1>4 DEF Lists
<1>6. \A t \in Subscribers : receiver'[t] = "queue" => t # s /\ receiver[t] = "queue"
  BY <1>3
<1>7. Sent'
  <2>1. ASSUME NEW t \in Subscribers, receiver'[t] = "queue"
        PROVE  EndsWith(log, received'[t]) /\ joined[t] <= Len(log) /\ Len(received'[t]) >= Len(log) - joined[t]
    BY <2>1, <1>2, <1>3, <1>6 DEF Sent
  <2>2. (\A t \in Subscribers : receiver'[t] \in {"none", "latest"}) =>
          \A t \in Subscribers : receiver[t] \in {"none", "latest"}
    BY <1>1, <1>3
  <2> QED
    BY <2>1, <2>2, <1>1, <1>2 DEF Sent
<1>8. BacklogOnce'
  <2>1. SUFFICES ASSUME NEW t \in attached' \cap Live', NEW u \in attached' \cap Live', t # u
                 PROVE  Len(received'[t]) = Len(log) - joined[t] \/ Len(received'[u]) = Len(log) - joined[u]
    BY <1>1 DEF BacklogOnce
  <2>2. t # s /\ u # s /\ t \in attached \cap Live /\ u \in attached \cap Live
    BY <2>1, <1>1, <1>3, <1>4 DEF Live
  <2> QED
    BY <2>1, <2>2, <1>2, <1>3, StoreTypes DEF BacklogOnce
<1>9. SlotSubscribersAgree'
  <2>1. SUFFICES ASSUME NEW t \in slot_subscribers' \cap Live', slot # None
                 PROVE  received'[t] # <<>> /\ Last(received'[t]) = slot
    BY <1>1 DEF SlotSubscribersAgree
  <2>2. CASE t = s
    <3>1. received'[t] = <<slot>>
      BY <2>1, <2>2, <1>3
    <3> QED
      BY <3>1 DEF Last
  <2>3. CASE t # s
    BY <2>1, <2>3, <1>1, <1>2, <1>3 DEF SlotSubscribersAgree, Live
  <2> QED
    BY <2>2, <2>3
<1> QED
  BY <1>5, <1>7, <1>8, <1>9 DEF Store

LEMMA DropReceiverStore ==
  ASSUME TypeOK, Store, NEW s \in Subscribers, DropReceiver(s)
  PROVE  Store'
<1>1. /\ receiver[s] \in {"queue", "latest"} /\ receiver' = [receiver EXCEPT ![s] = "dropped"]
      /\ received' = [received EXCEPT ![s] = <<>>]
      /\ UNCHANGED <<capacity, buffered, attached, log, joined, slot, slot_subscribers>>
  BY DEF DropReceiver, Live, queueVars, slotVars
<1>2. Lists /\ Sent /\ BacklogOnce /\ SlotSubscribersAgree
  BY DEF Store
<1>3. /\ receiver'[s] = "dropped"
      /\ \A t \in Subscribers : t # s => receiver'[t] = receiver[t] /\ received'[t] = received[t]
  BY <1>1 DEF TypeOK
<1>4. Lists'
  BY <1>1, <1>2, <1>3 DEF Lists
<1>5. Sent'
  <2>1. ASSUME NEW t \in Subscribers, receiver'[t] = "queue"
        PROVE  EndsWith(log, received'[t]) /\ joined[t] <= Len(log) /\ Len(received'[t]) >= Len(log) - joined[t]
    BY <2>1, <1>2, <1>3 DEF Sent
  <2>2. ~\A t \in Subscribers : receiver'[t] \in {"none", "latest"}
    BY <1>3
  <2> QED
    BY <2>1, <2>2, <1>1, <1>2 DEF Sent
<1>6. \A t \in Live' : t # s /\ t \in Live /\ received'[t] = received[t]
  BY <1>3 DEF Live
<1>7. BacklogOnce'
  <2>1. SUFFICES ASSUME NEW t \in attached' \cap Live', NEW u \in attached' \cap Live', t # u
                 PROVE  Len(received'[t]) = Len(log) - joined[t] \/ Len(received'[u]) = Len(log) - joined[u]
    BY <1>1 DEF BacklogOnce
  <2> QED
    BY <2>1, <1>1, <1>2, <1>6 DEF BacklogOnce
<1>8. SlotSubscribersAgree'
  BY <1>1, <1>2, <1>6 DEF SlotSubscribersAgree
<1> QED
  BY <1>4, <1>5, <1>7, <1>8 DEF Store

-----------------------------------------------------------------------------
(* The theorem.                                                            *)

LEMMA InitInv == Init => EventInv
<1> SUFFICES ASSUME Init PROVE EventInv
  OBVIOUS
<1>1. TypeOK
  BY InitTypeOK
<1>2. Locks
  BY ThreadFacts DEF Init, Locks, LockOf, Submits
<1>3. Phases
  BY ThreadFacts DEF Init, Phases, Loaded, GlobalSet, Threads
<1>4. Held = {} /\ In(log) = {} /\ In(pending) = {} /\ In(pre_start) = {}
      /\ In(pendingEarlyQueue) = {}
  BY InEmpty DEF Init, Held, Submits
<1>5. Entries(log) = <<>> /\ Entries(pendingEarlyQueue) = <<>>
  <2>1. <<>> \in Seq(Values)
    OBVIOUS
  <2> QED
    BY <2>1, EntriesType DEF Init
<1>6. Chain
  <2>1. \A free : ChainOf(free, <<>>, <<>>, <<>>, <<>>, {})
    BY InEmpty, OrderEmpty DEF ChainOf, AllFollow
  <2> QED
    BY <2>1, <1>4, <1>5 DEF Init, Chain
<1>7. Newer
  BY <1>4 DEF Init, Newer, LatestIsMostRecent
<1>8. Located
  <2>1. Submitted = {}
    BY EarlyEventsAssumption DEF Init, Submitted, Values
  <2>2. ValuesOf({}) = {}
    BY DEF ValuesOf
  <2> QED
    BY <2>1, <2>2, <1>4 DEF Init, Located
<1>9. LoggedSubmitted
  BY <1>4 DEF LoggedSubmitted
<1>10. Lists
  BY DEF Init, Lists
<1>11. Sent
  <2>1. EndsWith(<<>>, <<>>)
    <3>1. <<>> \in Seq(Values)
      OBVIOUS
    <3> QED
      BY <3>1, EndsEmpty
  <2> QED
    BY <2>1 DEF Init, Sent
<1>12. BacklogOnce /\ SlotSubscribersAgree
  BY DEF Init, BacklogOnce, SlotSubscribersAgree
<1> QED
  BY <1>1, <1>2, <1>3, <1>6, <1>7, <1>8, <1>9, <1>10, <1>11, <1>12 DEF EventInv, Way, Store

\* A publication touches the queue, or the slot.
LEMMA PublishStore ==
  ASSUME TypeOK, Store, NEW event \in Job, Publish(event)
  PROVE  Store'
<1>1. event.value \in Values
  BY DEF Job
<1> QED
  BY <1>1, PublishQueueStore, PublishLatestStore DEF Publish

LEMMA StoreStep ==
  ASSUME EventInv, [Next]_vars
  PROVE  Store'
<1>1. TypeOK /\ Locks /\ Store
  BY DEF EventInv
<1>2. CASE UNCHANGED vars
  BY <1>1, <1>2, SameStore DEF vars
<1>3. ASSUME NEW p \in Producers, publishEarlyQueue(p) \/ SubmitLatest(p) PROVE Store'
  BY <1>1, <1>3, SameStore DEF publishEarlyQueue, SubmitLatest
<1>4. ASSUME NEW t \in Threads, Flush(t) \/ Check(t) \/ Push(t) PROVE Store'
  BY <1>1, <1>4, SameStore DEF Flush, Check, Push
<1>5. ASSUME NEW t \in Threads, Dispatch(t) PROVE Store'
  <2>1. job[t] \in Job /\ Publish(job[t])
    BY <1>1, <1>5, ReturnTypeOK DEF Dispatch
  <2> QED
    BY <1>1, <2>1, PublishStore
<1>6. ASSUME LoadLibrary \/ SetGlobal \/ TakePending \/ StartFlush PROVE Store'
  BY <1>1, <1>6, SameStore DEF LoadLibrary, SetGlobal, TakePending, StartFlush
<1>7. ASSUME Replay PROVE Store'
  <2>1. Head(pending) \in Job /\ Publish(Head(pending))
    BY <1>1, <1>7, Typed DEF Replay, TypeOK
  <2> QED
    BY <1>1, <2>1, PublishStore
<1>8. ASSUME NEW s \in Subscribers, SubscribeQueue(s) \/ SubscribeLatest(s) \/ DropReceiver(s)
      PROVE  Store'
  BY <1>1, <1>8, SubscribeQueueStore, SubscribeLatestStore, DropReceiverStore
<1> QED
  BY <1>2, <1>3, <1>4, <1>5, <1>6, <1>7, <1>8 DEF Next, SubmitStep, StartStep

LEMMA WayStep ==
  ASSUME EventInv, [Next]_vars
  PROVE  Locks' /\ Phases' /\ Way'
<1>1. TypeOK /\ Locks /\ Phases /\ Way
  BY DEF EventInv
<1> DEFINE Kept == Locks' /\ Phases' /\ Way'
<1>2. ASSUME UNCHANGED <<pc, job, submitted, separate, started, pendingEarlyQueue, kotlin_lock,
                         pre_start, pre_lock, pending, log, slot, latest, arrived, overflowed>>
      PROVE  Kept
  BY <1>1, <1>2, SameLocks, SamePhases, SameHeld, SameWay
<1>3. ASSUME NEW p \in Producers, publishEarlyQueue(p) PROVE Kept
  BY <1>1, <1>3, EarlyQueueLocks, EarlyQueuePhases, EarlyQueueWay
<1>4. ASSUME NEW p \in Producers, SubmitLatest(p) PROVE Kept
  BY <1>1, <1>4, LatestLocks, LatestPhases, LatestWay
<1>5. ASSUME NEW t \in Threads, Flush(t) PROVE Kept
  BY <1>1, <1>5, FlushLocks, FlushPhases, FlushWay
<1>6. ASSUME NEW t \in Threads, Check(t) PROVE Kept
  <2>1. UNCHANGED <<job, submitted, separate, pendingEarlyQueue, pre_start, pending,
                    log, slot, latest, arrived, overflowed>>
    BY <1>6 DEF Check, startVars, kotlinVars, queueVars, slotVars
  <2> QED
    BY <1>1, <1>6, <2>1, CheckLocks, CheckPhases, SameHeld, SameWay
<1>7. ASSUME NEW t \in Threads, Push(t) PROVE Kept
  BY <1>1, <1>7, PushLocks, PushPhases, PushWay
<1>8. ASSUME NEW t \in Threads, Dispatch(t) PROVE Kept
  BY <1>1, <1>8, DispatchLocks, DispatchPhases, DispatchWay
<1>9. ASSUME LoadLibrary \/ SetGlobal PROVE Kept
  <2>1. UNCHANGED <<pc, job, submitted, separate, pendingEarlyQueue, kotlin_lock, pre_lock, pre_start,
                    pending, log, slot, latest, arrived, overflowed>>
    BY <1>9 DEF LoadLibrary, SetGlobal, callVars, kotlinVars, preVars, queueVars, slotVars
  <2> QED
    BY <1>1, <1>9, <2>1, SameLocks, LoadLibraryPhases, SetGlobalPhases, SameHeld, SameWay
<1>10. ASSUME TakePending PROVE Kept
  <2>1. UNCHANGED <<pc, job, submitted, pendingEarlyQueue, kotlin_lock, pre_lock>>
    BY <1>10 DEF TakePending, callVars, kotlinVars
  <2> QED
    BY <1>1, <1>10, <2>1, SameLocks, TakePendingPhases, TakePendingWay
<1>11. ASSUME Replay PROVE Kept
  <2>1. UNCHANGED <<pc, job, submitted, pendingEarlyQueue, kotlin_lock, pre_lock>>
    BY <1>11 DEF Replay, callVars, kotlinVars, preVars
  <2> QED
    BY <1>1, <1>11, <2>1, SameLocks, ReplayPhases, ReplayWay
<1>12. ASSUME StartFlush PROVE Kept
  <2>1. UNCHANGED <<job, submitted, separate, pendingEarlyQueue, pre_start, pending,
                    log, slot, latest, arrived, overflowed>>
    BY <1>12 DEF StartFlush, preVars, queueVars, slotVars
  <2> QED
    BY <1>1, <1>12, <2>1, StartFlushLocks, StartFlushPhases, SameHeld, SameWay
<1>13. ASSUME NEW s \in Subscribers, SubscribeQueue(s) \/ SubscribeLatest(s) \/ DropReceiver(s) PROVE Kept
  <2>1. UNCHANGED <<pc, job, submitted, separate, started, pendingEarlyQueue, kotlin_lock,
                    pre_start, pre_lock, pending, log, slot, latest, arrived, overflowed>>
    BY <1>13 DEF SubscribeQueue, SubscribeLatest, DropReceiver, callVars, startVars, kotlinVars,
                 preVars, queueVars, slotVars
  <2> QED
    BY <1>2, <2>1
<1>14. ASSUME UNCHANGED vars PROVE Kept
  BY <1>2, <1>14 DEF vars, callVars, startVars, kotlinVars, preVars, queueVars, slotVars
<1> HIDE DEF Kept
<1>15. Kept
  BY <1>3, <1>4, <1>5, <1>6, <1>7, <1>8, <1>9, <1>10, <1>11, <1>12, <1>13, <1>14
     DEF Next, SubmitStep, StartStep
<1> QED
  BY <1>15 DEF Kept

LEMMA NextInv == EventInv /\ [Next]_vars => EventInv'
<1> SUFFICES ASSUME EventInv, [Next]_vars PROVE EventInv'
  OBVIOUS
<1>1. TypeOK'
  BY NextTypeOK DEF EventInv
<1> QED
  BY <1>1, StoreStep, WayStep DEF EventInv

\* IsSuffix of the community modules, without reversing.
LEMMA SuffixEnds ==
  ASSUME NEW s \in Seq(Values), NEW t \in Seq(Values), EndsWith(t, s)
  PROVE  IsSuffix(s, t)
<1>1. /\ Len(s) \in Nat /\ Len(t) \in Nat /\ Len(s) <= Len(t)
      /\ \A i \in 1..Len(s) : s[i] = t[Len(t) - Len(s) + i]
  BY DEF EndsWith
<1>2. Reverse(s) = [i \in 1..Len(s) |-> s[Len(s) - i + 1]]
      /\ Reverse(t) = [i \in 1..Len(t) |-> t[Len(t) - i + 1]]
  BY DEF Reverse
<1>3. Reverse(s) \in Seq(Values) /\ Len(Reverse(s)) = Len(s) /\ Reverse(t) \in Seq(Values)
      /\ Len(Reverse(t)) = Len(t)
  <2>1. \A i \in 1..Len(s) : Len(s) - i + 1 \in 1..Len(s)
    BY <1>1
  <2>2. \A i \in 1..Len(t) : Len(t) - i + 1 \in 1..Len(t)
    BY <1>1
  <2>3. Reverse(s) \in [1..Len(s) -> Values] /\ Reverse(t) \in [1..Len(t) -> Values]
    BY <1>2, <2>1, <2>2
  <2>4. \A n \in Nat : \A f \in [1..n -> Values] : f \in Seq(Values) /\ Len(f) = n
    OBVIOUS
  <2> QED
    BY <2>3, <2>4, <1>1
<1>4. \A i \in 1..Len(s) : Reverse(s)[i] = Reverse(t)[i]
  <2>1. SUFFICES ASSUME NEW i \in 1..Len(s) PROVE Reverse(s)[i] = Reverse(t)[i]
    OBVIOUS
  <2>2. Len(s) - i + 1 \in 1..Len(s) /\ i \in 1..Len(t)
    BY <1>1
  <2>3. Len(t) - Len(s) + (Len(s) - i + 1) = Len(t) - i + 1
    BY <1>1
  <2>4. s[Len(s) - i + 1] = t[Len(t) - i + 1]
    BY <2>2, <2>3, <1>1
  <2> QED
    BY <2>2, <2>4, <1>2
<1> QED
  BY <1>1, <1>3, <1>4 DEF IsSuffix, IsPrefix

\* When all is quiet, nothing is on its way.
LEMMA InvStranded == EventInv => NothingStranded
<1> SUFFICES ASSUME EventInv, Quiet PROVE pre_start = <<>> /\ Submitted = arrived \cup overflowed
  BY DEF NothingStranded
<1>1. TypeOK /\ Locks /\ Phases /\ Way
  BY DEF EventInv
<1>2. started = "up" /\ \A t \in Threads : pc[t] = "idle"
  BY DEF Quiet
<1>3. \A t \in Threads : job[t] = None /\ ~Submits(t, "queue") /\ ~Submits(t, "latest")
  BY <1>1, <1>2 DEF Locks, LockOf, Submits
<1>4. kotlin_lock = None
  BY <1>1, <1>2, <1>3 DEF Locks, LockOf, TypeOK
<1>5. pre_start = <<>> /\ pending = <<>> /\ pendingEarlyQueue = <<>>
  BY <1>1, <1>2, <1>4 DEF Phases
<1>6. Held = {}
  BY <1>3 DEF Held
<1>7. ValuesOf({}) = {}
  BY DEF ValuesOf
<1> QED
  BY <1>1, <1>5, <1>6, <1>7, InEmpty DEF Way, Located

LEMMA LogInOrder ==
  ASSUME EventInv, NEW i \in DOMAIN log, NEW j \in DOMAIN log, i < j
  PROVE  Precedes(separate, log[i], log[j])
<1>1. InOrder(separate, Entries(log))
  BY DEF EventInv, Way, Chain, ChainOf
<1>2. DOMAIN Entries(log) = DOMAIN log /\ Entries(log)[i] = Entry(log[i])
      /\ Entries(log)[j] = Entry(log[j])
  BY DEF Entries
<1> QED
  BY <1>1, <1>2 DEF InOrder, Follow, Entry

LEMMA InvOrder == EventInv => PublishedOnce /\ OneThreadKeepsOrder
<1> SUFFICES ASSUME EventInv PROVE PublishedOnce /\ OneThreadKeepsOrder
  OBVIOUS
<1>1. DOMAIN log \subseteq Nat
  BY DEF EventInv, TypeOK
<1>2. PublishedOnce
  <2>1. SUFFICES ASSUME NEW i \in DOMAIN log, NEW j \in DOMAIN log, log[i] = log[j] PROVE i = j
    BY DEF PublishedOnce
  <2>2. ~(i < j) /\ ~(j < i)
    BY <2>1, LogInOrder DEF Precedes
  <2> QED
    BY <2>2, <1>1
<1>3. ~separate => PublishedInOrder
  BY LogInOrder DEF PublishedInOrder, Precedes
<1>4. ~separate => LatestIsMostRecent
  BY DEF EventInv, Way, Newer
<1> QED
  BY <1>2, <1>3, <1>4 DEF OneThreadKeepsOrder

LEMMA InvMissNothing == EventInv => SubscribersMissNothing
<1> SUFFICES ASSUME EventInv PROVE SubscribersMissNothing
  OBVIOUS
<1>1. Lists /\ Sent /\ TypeOK
  BY DEF EventInv, Store
<1>2. ASSUME NEW s \in attached \cap Live
      PROVE  IsSuffix(received[s], log) /\ Len(received[s]) >= Len(log) - joined[s]
  <2>1. s \in Subscribers /\ receiver[s] = "queue"
    BY <1>1 DEF Lists, Live
  <2>2. EndsWith(log, received[s]) /\ Len(received[s]) >= Len(log) - joined[s]
    BY <2>1, <1>1 DEF Sent
  <2> QED
    BY <2>1, <2>2, <1>1, StoreTypes, SuffixEnds
<1>3. IsSuffix(buffered, log)
  BY <1>1, StoreTypes, SuffixEnds DEF Sent
<1> QED
  BY <1>1, <1>2, <1>3 DEF SubscribersMissNothing, Sent

\* However publishers race the start and the subscribers, each event is
\* published once or was dropped from a full buffer, subscribers get everything
\* since they joined, and one thread's events stay in order.
THEOREM EventsAreKept == Spec => []EventsKept
<1>1. Init => EventInv
  BY InitInv
<1>2. EventInv /\ [Next]_vars => EventInv'
  BY NextInv
<1>3. EventInv => EventsKept
  BY InvStranded, InvOrder, InvMissNothing DEF EventInv, Store, EventsKept, NoneLostOrTwice
<1> QED
  BY <1>1, <1>2, <1>3, PTL DEF Spec

-----------------------------------------------------------------------------
(* What crosses to the platform and back.                                  *)

\* A number of Width bits is the same after Kotlin had it as a signed one.
LEMMA WordsComeBack ==
  ASSUME NEW w \in S!Words
  PROVE  S!AsUnsigned(S!AsSigned(w)) = w /\ w # None
<1> DEFINE N == 2^Width
<1>1. N \in Nat /\ w \in 0..(N - 1) /\ w # None
  BY StartupsAssumption DEF S!StartupAssumption, S!NativeEntryAssumption, S!Words
<1> HIDE DEF N
<1>2. w % N = w /\ (w - N) % N = w
  BY <1>1
<1>3. S!AsSigned(w) \in {w, w - N}
  BY DEF S!AsSigned, N
<1>4. S!AsUnsigned(S!AsSigned(w)) = S!AsSigned(w) % N
  BY DEF S!AsUnsigned, N
<1> QED
  BY <1>1, <1>2, <1>3, <1>4

LEMMA InstancesComeBack ==
  ASSUME NEW i \in S!Instances
  PROVE  /\ S!InstanceOf(S!AsUnsigned(IF i = None THEN 0 ELSE S!AsSigned(i))) = i
         /\ S!InstanceOf(IF i = None THEN 0 ELSE i) = i
<1>1. 2^Width \in Nat \ {0}
  BY StartupsAssumption DEF S!StartupAssumption, S!NativeEntryAssumption
<1>2. CASE i = None
  <2>1. S!AsUnsigned(0) = 0
    BY <1>1 DEF S!AsUnsigned
  <2> QED
    BY <1>2, <2>1 DEF S!InstanceOf
<1>3. CASE i # None
  <2>1. i \in S!Words /\ i # 0
    BY <1>3 DEF S!Instances
  <2> QED
    BY <1>3, <2>1, WordsComeBack DEF S!InstanceOf
<1> QED
  BY <1>2, <1>3

\* A frame the platform hands back is the one that was handed to it.
LEMMA FramesComeBack ==
  ASSUME NEW f \in S!Frames
  PROVE  /\ S!AndroidEntry(S!AndroidDeliver(f)) = f
         /\ S!IosEntry(S!IosDeliver(f)) = f
<1>1. None \notin Bodies /\ Empty \in Bodies
  BY StartupsAssumption DEF S!StartupAssumption, S!NativeEntryAssumption
<1>2. CASE f \in [kind : {"call"}, id : S!Words, instance : S!Instances, body : Bodies]
  <2>1. f.kind = "call" /\ f.id \in S!Words /\ f.instance \in S!Instances /\ f.body \in Bodies
        /\ f = [kind |-> "call", id |-> f.id, instance |-> f.instance, body |-> f.body]
    BY <1>2
  <2>2. S!AndroidDeliver(f) =
          [to |-> "onCall", id |-> S!AsSigned(f.id), body |-> f.body,
           instance |-> IF f.instance = None THEN 0 ELSE S!AsSigned(f.instance)]
    BY <2>1 DEF S!AndroidDeliver, S!Deliver
  <2>3. S!IosDeliver(f) =
          [to |-> "onCall", id |-> f.id, body |-> f.body,
           instance |-> IF f.instance = None THEN 0 ELSE f.instance]
    BY <2>1 DEF S!IosDeliver, S!Deliver
  <2>4. S!AndroidEntry(S!AndroidDeliver(f)) = f
    BY <2>1, <2>2, WordsComeBack, InstancesComeBack DEF S!AndroidEntry, S!submit_call
  <2>5. S!IosEntry(S!IosDeliver(f)) = f
    BY <1>1, <2>1, <2>3, InstancesComeBack DEF S!IosEntry, S!istmo_ios_submit_call, S!copy_bytes
  <2> QED
    BY <2>4, <2>5
<1>3. CASE f \in [kind : {"notify"}, instance : S!Instances, body : Bodies]
  <2>1. f.kind = "notify" /\ f.instance \in S!Instances /\ f.body \in Bodies
        /\ f = [kind |-> "notify", instance |-> f.instance, body |-> f.body]
    BY <1>3
  <2>2. S!AndroidDeliver(f) =
          [to |-> "onNotify", body |-> f.body,
           instance |-> IF f.instance = None THEN 0 ELSE S!AsSigned(f.instance)]
    BY <2>1 DEF S!AndroidDeliver, S!Deliver
  <2>3. S!IosDeliver(f) =
          [to |-> "onNotify", body |-> f.body,
           instance |-> IF f.instance = None THEN 0 ELSE f.instance]
    BY <2>1 DEF S!IosDeliver, S!Deliver
  <2>4. S!AndroidEntry(S!AndroidDeliver(f)) = f
    BY <2>1, <2>2, InstancesComeBack DEF S!AndroidEntry, S!submit_notify
  <2>5. S!IosEntry(S!IosDeliver(f)) = f
    BY <1>1, <2>1, <2>3, InstancesComeBack DEF S!IosEntry, S!istmo_ios_submit_notify, S!copy_bytes
  <2> QED
    BY <2>4, <2>5
<1>4. CASE f \in [kind : {"respond"}, id : S!Words, ok : BOOLEAN, body : Bodies]
  <2>1. f.kind = "respond" /\ f.id \in S!Words /\ f.body \in Bodies
        /\ f = [kind |-> "respond", id |-> f.id, ok |-> f.ok, body |-> f.body]
    BY <1>4
  <2>2. S!AndroidDeliver(f) =
          [to |-> "onRespond", id |-> S!AsSigned(f.id), ok |-> f.ok, body |-> f.body]
    BY <2>1 DEF S!AndroidDeliver, S!Deliver
  <2>3. S!IosDeliver(f) = [to |-> "onRespond", id |-> f.id, ok |-> f.ok, body |-> f.body]
    BY <2>1 DEF S!IosDeliver, S!Deliver
  <2>4. S!AndroidEntry(S!AndroidDeliver(f)) = f
    BY <2>1, <2>2, WordsComeBack DEF S!AndroidEntry, S!submit_response
  <2>5. S!IosEntry(S!IosDeliver(f)) = f
    BY <1>1, <2>1, <2>3 DEF S!IosEntry, S!istmo_ios_submit_response, S!copy_bytes
  <2> QED
    BY <2>4, <2>5
<1>5. CASE f \in [kind : {"event"}, id : S!Words, body : Bodies]
  <2>1. f.kind = "event" /\ f.id \in S!Words /\ f.body \in Bodies
        /\ f = [kind |-> "event", id |-> f.id, body |-> f.body]
    BY <1>5
  <2>2. S!AndroidDeliver(f) = [to |-> "onEvent", id |-> S!AsSigned(f.id), body |-> f.body]
    BY <2>1 DEF S!AndroidDeliver, S!Deliver
  <2>3. S!IosDeliver(f) = [to |-> "onEvent", id |-> f.id, body |-> f.body]
    BY <2>1 DEF S!IosDeliver, S!Deliver
  <2>4. S!AndroidEntry(S!AndroidDeliver(f)) = f
    BY <2>1, <2>2, WordsComeBack DEF S!AndroidEntry, S!submit_event
  <2>5. S!IosEntry(S!IosDeliver(f)) = f
    BY <1>1, <2>1, <2>3 DEF S!IosEntry, S!istmo_ios_submit_event, S!copy_bytes
  <2> QED
    BY <2>4, <2>5
<1>6. CASE f \in [kind : {"end"}, id : S!Words, reason : {"complete", "cancelled"}, body : {Empty}]
                  \cup [kind : {"end"}, id : S!Words, reason : {"error"}, body : Bodies]
  <2>1. /\ f.kind = "end" /\ f.id \in S!Words /\ f.body \in Bodies
        /\ f.reason \in {"complete", "cancelled", "error"} /\ (f.reason # "error" => f.body = Empty)
        /\ f = [kind |-> "end", id |-> f.id, reason |-> f.reason, body |-> f.body]
    BY <1>1, <1>6
  <2> DEFINE tag == S!ReasonTag(f.reason)
  <2>2. /\ tag \in 0..2 /\ (tag = 2 <=> f.reason = "error")
        /\ f.reason = (CASE tag = 0 -> "complete" [] tag = 1 -> "cancelled" [] OTHER -> "error")
    BY <2>1 DEF S!ReasonTag
  <2>3. S!AndroidDeliver(f) =
          [to |-> "onStreamEnd", id |-> S!AsSigned(f.id), tag |-> tag, body |-> f.body]
    BY <2>1 DEF S!AndroidDeliver, S!Deliver
  <2>4. S!IosDeliver(f) = [to |-> "onStreamEnd", id |-> f.id, tag |-> tag, body |-> f.body]
    BY <2>1 DEF S!IosDeliver, S!Deliver
  <2> HIDE DEF tag
  <2>5. S!AndroidEntry(S!AndroidDeliver(f)) = f
    <3>1. S!AndroidEntry(S!AndroidDeliver(f)) = S!submit_stream_end(S!AsSigned(f.id), tag, f.body)
      BY <2>3 DEF S!AndroidEntry
    <3>2. (IF tag = 2 /\ f.body # None THEN f.body ELSE Empty) = f.body
      BY <1>1, <2>1, <2>2
    <3> QED
      BY <3>1, <3>2, <2>1, <2>2, WordsComeBack DEF S!submit_stream_end
  <2>6. S!IosEntry(S!IosDeliver(f)) = f
    <3>1. S!IosEntry(S!IosDeliver(f)) = S!istmo_ios_submit_stream_end(f.id, tag, f.body)
      BY <2>4 DEF S!IosEntry
    <3>2. (IF tag = 2 THEN S!copy_bytes(f.body) ELSE Empty) = f.body
      BY <1>1, <2>1, <2>2 DEF S!copy_bytes
    <3> QED
      BY <3>1, <3>2, <2>1, <2>2 DEF S!istmo_ios_submit_stream_end
  <2> QED
    BY <2>5, <2>6
<1> QED
  BY <1>2, <1>3, <1>4, <1>5, <1>6 DEF S!Frames

-----------------------------------------------------------------------------
(* The directories of the platforms, and of an app's name.                 *)

\* Two paths part somewhere, so that neither is in the other.
Apart(s, t) == \E i \in Nat : i \in 1..Len(s) /\ i \in 1..Len(t) /\ s[i] # t[i]

LEMMA ApartIsNoPrefix ==
  ASSUME NEW E, NEW s \in Seq(E), NEW t \in Seq(E), Apart(s, t)
  PROVE  ~S!IsPrefix(s, t) /\ ~S!IsPrefix(t, s) /\ Apart(t, s)
<1>1. PICK i \in Nat : i \in 1..Len(s) /\ i \in 1..Len(t) /\ s[i] # t[i]
  BY DEF Apart
<1>2. SubSeq(s, 1, Len(s))[i] = s[i] /\ SubSeq(t, 1, Len(t))[i] = t[i]
  BY <1>1
<1>3. Len(s) <= Len(t) => SubSeq(t, 1, Len(s))[i] = t[i]
  BY <1>1
<1>4. Len(t) <= Len(s) => SubSeq(s, 1, Len(t))[i] = s[i]
  BY <1>1
<1> QED
  BY <1>1, <1>2, <1>3, <1>4 DEF S!IsPrefix, Apart

\* What is under two such paths, or two such under the same, are apart as well.
LEMMA ApartUnder ==
  ASSUME NEW E, NEW s \in Seq(E), NEW t \in Seq(E), NEW u \in Seq(E), NEW v \in Seq(E)
  PROVE  /\ Apart(s, t) => Apart(s \o u, t \o v) /\ Apart(s, t \o v)
         /\ Apart(u, v) => Apart(s \o u, s \o v)
<1>1. ASSUME Apart(s, t) PROVE Apart(s \o u, t \o v) /\ Apart(s, t \o v)
  <2>1. PICK i \in Nat : i \in 1..Len(s) /\ i \in 1..Len(t) /\ s[i] # t[i]
    BY <1>1 DEF Apart
  <2>2. (s \o u)[i] = s[i] /\ (t \o v)[i] = t[i] /\ Len(s \o u) >= Len(s) /\ Len(t \o v) >= Len(t)
    BY <2>1
  <2>3. i \in 1..Len(s \o u) /\ i \in 1..Len(t \o v)
    BY <2>1, <2>2
  <2> QED
    BY <2>1, <2>2, <2>3 DEF Apart
<1>2. ASSUME Apart(u, v) PROVE Apart(s \o u, s \o v)
  <2>1. PICK i \in Nat : i \in 1..Len(u) /\ i \in 1..Len(v) /\ u[i] # v[i]
    BY <1>2 DEF Apart
  <2> DEFINE j == Len(s) + i
  <2>2. /\ (s \o u)[j] = u[i] /\ (s \o v)[j] = v[i] /\ j \in Nat
        /\ j \in 1..Len(s \o u) /\ j \in 1..Len(s \o v)
    BY <2>1
  <2> QED
    BY <2>1, <2>2 DEF Apart
<1> QED
  BY <1>1, <1>2

\* The names in a path under another.
LEMMA NamesUnder ==
  ASSUME NEW E, NEW s \in Seq(E), NEW t \in Seq(E)
  PROVE  S!Range(s \o t) = S!Range(s) \cup S!Range(t)
<1>1. \A i \in 1..Len(s) : (s \o t)[i] = s[i] /\ i \in 1..Len(s \o t)
  OBVIOUS
<1>2. \A i \in 1..Len(t) : (s \o t)[Len(s) + i] = t[i] /\ Len(s) + i \in 1..Len(s \o t)
  OBVIOUS
<1>3. \A i \in 1..Len(s \o t) :
        i \in 1..Len(s) \/ (i - Len(s) \in 1..Len(t) /\ Len(s) + (i - Len(s)) = i)
  OBVIOUS
<1>4. DOMAIN s = 1..Len(s) /\ DOMAIN t = 1..Len(t) /\ DOMAIN (s \o t) = 1..Len(s \o t)
  OBVIOUS
<1>5. S!Range(s) \subseteq S!Range(s \o t)
  BY <1>1, <1>4 DEF S!Range
<1>6. S!Range(t) \subseteq S!Range(s \o t)
  BY <1>2, <1>4 DEF S!Range
<1>7. ASSUME NEW i \in DOMAIN (s \o t) PROVE (s \o t)[i] \in S!Range(s) \cup S!Range(t)
  <2>1. CASE i \in 1..Len(s)
    BY <2>1, <1>1, <1>4 DEF S!Range
  <2>2. CASE i \notin 1..Len(s)
    <3>1. i - Len(s) \in 1..Len(t) /\ (s \o t)[i] = t[i - Len(s)]
      BY <2>2, <1>2, <1>3, <1>4
    <3> QED
      BY <3>1, <1>4 DEF S!Range
  <2> QED
    BY <2>1, <2>2
<1> QED
  BY <1>5, <1>6, <1>7 DEF S!Range

-----------------------------------------------------------------------------
Literals ==
  {"/", "home", "Users", "HOME", "USER", "whoami", "USERPROFILE", "HOMEDRIVE", "HOMEPATH", "USERNAME",
   "tmp", ".local", "share", "state", ".config", ".cache", "Documents", "XDG_DATA_HOME",
   "XDG_CONFIG_HOME", "XDG_CACHE_HOME", "XDG_STATE_HOME", "XDG_DOCUMENTS_DIR", "Library",
   "Application Support", "Caches", "Preferences", "APPDATA", "LOCALAPPDATA", "AppData", "Roaming",
   "Local", "data", "config", "cache"}

Homes ==
  {<<"/", "HOME">>, <<"/", "home", "USER">>, <<"/", "home", "whoami">>, <<"/", "Users", "USER">>,
   <<"/", "Users", "whoami">>, <<"/", "USERPROFILE">>, <<"/", "HOMEDRIVE", "HOMEPATH">>,
   <<"/", "Users", "USERNAME">>}

LEMMA UserHomes ==
  ASSUME NEW d, NEW u
  PROVE  <<"/", d>> \o <<u>> = <<"/", d, u>>
<1> DEFINE E == {"/", d, u}
<1>1. /\ <<"/", d>> \in Seq(E) /\ Len(<<"/", d>>) = 2 /\ <<u>> \in Seq(E) /\ Len(<<u>>) = 1
      /\ <<"/", d, u>> \in Seq(E) /\ Len(<<"/", d, u>>) = 3
  OBVIOUS
<1>2. <<"/", d>> \o <<u>> \in Seq(E) /\ Len(<<"/", d>> \o <<u>>) = 3
  BY <1>1
<1>3. /\ (<<"/", d>> \o <<u>>)[1] = <<"/", d>>[1] /\ (<<"/", d>> \o <<u>>)[2] = <<"/", d>>[2]
      /\ (<<"/", d>> \o <<u>>)[3] = <<u>>[1]
  BY <1>1
<1>4. \A i \in 1..3 : (<<"/", d>> \o <<u>>)[i] = <<"/", d, u>>[i]
  <2>1. \A i \in 1..3 : i = 1 \/ i = 2 \/ i = 3
    OBVIOUS
  <2> QED
    BY <1>3, <2>1
<1> QED
  BY <1>1, <1>2, <1>4, SeqEqual

LEMMA EnvironmentPaths ==
  ASSUME NEW e \in Environments, NEW name \in e
  PROVE  S!env_path(e, name) = <<"/", name>> /\ <<"/", name>> # None
<1>1. name \in S!Names /\ "/" \in S!Names
  BY DEF S!Names
<1>2. <<"/", name>> \in Seq(S!Names)
  BY <1>1
<1> QED
  BY <1>2, StartupsAssumption DEF S!StartupAssumption, S!env_path

LEMMA HomesArePaths ==
  ASSUME NEW N,
         {"/", "home", "Users", "HOME", "USER", "whoami", "USERPROFILE", "HOMEDRIVE", "HOMEPATH",
          "USERNAME"} \subseteq N
  PROVE  Homes \subseteq Seq(N)
<1>1. /\ <<"/", "HOME">> \in Seq(N) /\ <<"/", "home", "USER">> \in Seq(N)
      /\ <<"/", "home", "whoami">> \in Seq(N) /\ <<"/", "Users", "USER">> \in Seq(N)
  OBVIOUS
<1>2. /\ <<"/", "Users", "whoami">> \in Seq(N) /\ <<"/", "USERPROFILE">> \in Seq(N)
      /\ <<"/", "HOMEDRIVE", "HOMEPATH">> \in Seq(N) /\ <<"/", "Users", "USERNAME">> \in Seq(N)
  OBVIOUS
<1> QED
  BY <1>1, <1>2 DEF Homes

LEMMA HomesExist ==
  ASSUME NEW e \in Environments
  PROVE  /\ \A os_ \in S!Desktop : S!home_dir(os_, e) \in Homes /\ S!home_dir(os_, e) # None
         /\ "USERPROFILE" \in e => S!home_dir("windows", e) = <<"/", "USERPROFILE">>
<1> DEFINE N == S!Names
<1>1. /\ {"/", "home", "Users"} \subseteq N
      /\ {"HOME", "USER", "whoami", "USERPROFILE", "HOMEDRIVE", "HOMEPATH", "USERNAME"} \subseteq N
  <2>1. {"HOME", "USER", "whoami", "USERPROFILE", "HOMEDRIVE", "HOMEPATH", "USERNAME"}
          \subseteq UNION Environments
    BY DEF Environments
  <2> QED
    BY <2>1 DEF S!Names
<1>2. None \notin Seq(N)
  BY StartupsAssumption DEF S!StartupAssumption
<1> HIDE DEF N
<1>3. \A h \in Homes : h # None
  BY <1>1, <1>2, HomesArePaths
<1>4. S!home_dir("windows", e) \in Homes /\ ("USERPROFILE" \in e => S!home_dir("windows", e) = <<"/", "USERPROFILE">>)
  BY DEF S!home_dir, S!env_path, Environments, Homes
<1>5. S!home_dir("linux", e) \in Homes
  <2>1. "HOME" \in e => S!home_dir("linux", e) = <<"/", "HOME">>
    BY DEF S!home_dir, S!env_path
  <2>2. "HOME" \notin e /\ "USER" \in e => S!home_dir("linux", e) = <<"/", "home">> \o <<"USER">>
    BY DEF S!home_dir
  <2>3. "HOME" \notin e /\ "USER" \notin e => S!home_dir("linux", e) = <<"/", "home">> \o <<"whoami">>
    BY DEF S!home_dir, Environments
  <2> QED
    BY <2>1, <2>2, <2>3, UserHomes DEF Homes
<1>6. S!home_dir("macos", e) \in Homes
  <2>1. "HOME" \in e => S!home_dir("macos", e) = <<"/", "HOME">>
    BY DEF S!home_dir, S!env_path
  <2>2. "HOME" \notin e /\ "USER" \in e => S!home_dir("macos", e) = <<"/", "Users">> \o <<"USER">>
    BY DEF S!home_dir
  <2>3. "HOME" \notin e /\ "USER" \notin e => S!home_dir("macos", e) = <<"/", "Users">> \o <<"whoami">>
    BY DEF S!home_dir, Environments
  <2> QED
    BY <2>1, <2>2, <2>3, UserHomes DEF Homes
<1> QED
  BY <1>3, <1>4, <1>5, <1>6 DEF S!Desktop


\* A directory of the environment's, or one in the home.
Base(e, name, h, f) == IF name \in e THEN <<"/", name>> ELSE h \o f

Variables ==
  {"XDG_DATA_HOME", "XDG_CONFIG_HOME", "XDG_CACHE_HOME", "XDG_STATE_HOME", "XDG_DOCUMENTS_DIR",
   "APPDATA", "LOCALAPPDATA"}

LEMMA BaseIs ==
  ASSUME NEW e \in Environments, NEW name, NEW h, NEW f
  PROVE  S!Or(S!env_path(e, name), h \o f) = Base(e, name, h, f)
BY EnvironmentPaths DEF S!Or, S!env_path, Base

LEMMA HomesStart ==
  ASSUME NEW h \in Homes
  PROVE  /\ h \in Seq(Literals) /\ Apart(S!Temp, h)
         /\ \A name \in Variables : Apart(<<"/", name>>, h) /\ Apart(h, <<"/", name>>)
<1>1. h \in Seq(Literals)
  <2>1. {"/", "home", "Users", "HOME", "USER", "whoami", "USERPROFILE", "HOMEDRIVE", "HOMEPATH",
         "USERNAME"} \subseteq Literals
    BY DEF Literals
  <2> QED
    BY <2>1, HomesArePaths
<1>2. Len(h) >= 2 /\ h[2] \in {"HOME", "home", "Users", "USERPROFILE", "HOMEDRIVE"}
  BY DEF Homes
<1>3. 2 \in 1..Len(h)
  BY <1>1, <1>2
<1>4. Apart(S!Temp, h)
  BY <1>2, <1>3 DEF Apart, S!Temp
<1>5. ASSUME NEW name \in Variables PROVE Apart(<<"/", name>>, h) /\ Apart(h, <<"/", name>>)
  <2>1. name # h[2]
    BY <1>2 DEF Variables
  <2> QED
    BY <2>1, <1>3 DEF Apart
<1> QED
  BY <1>1, <1>4, <1>5

LEMMA BasesApart ==
  ASSUME NEW e, NEW h \in Homes, NEW n \in Variables, NEW m \in Variables, n # m,
         NEW f \in Seq(Literals), NEW g \in Seq(Literals)
  PROVE  /\ Base(e, n, h, f) \in Seq(Literals) /\ Apart(S!Temp, Base(e, n, h, f))
         /\ Apart(f, g) => Apart(Base(e, n, h, f), Base(e, m, h, g))
<1>1. <<"/", n>> \in Seq(Literals) /\ <<"/", m>> \in Seq(Literals) /\ S!Temp \in Seq(Literals)
  <2>1. Variables \subseteq Literals
    BY DEF Variables, Literals
  <2>2. "/" \in Literals /\ "tmp" \in Literals
    BY DEF Literals
  <2> QED
    BY <2>1, <2>2 DEF S!Temp
<1>2. h \in Seq(Literals)
  BY HomesStart
<1>3. h \o f \in Seq(Literals) /\ h \o g \in Seq(Literals)
  BY <1>2
<1>4. Apart(S!Temp, h \o f)
  BY <1>1, <1>2, HomesStart, ApartUnder
<1>5. Apart(S!Temp, <<"/", n>>)
  <2>1. n # "tmp" /\ 2 \in Nat
    BY DEF Variables
  <2> QED
    BY <2>1 DEF Apart, S!Temp
<1>6. Apart(<<"/", n>>, <<"/", m>>)
  <2>1. 2 \in Nat
    OBVIOUS
  <2> QED
    BY <2>1 DEF Apart
<1>7. Apart(<<"/", n>>, h \o g)
  BY <1>1, <1>2, HomesStart, ApartUnder
<1>8. Apart(h \o f, <<"/", m>>)
  <2>1. Apart(<<"/", m>>, h \o f)
    BY <1>1, <1>2, HomesStart, ApartUnder
  <2> QED
    BY <2>1, <1>1, <1>3, ApartIsNoPrefix
<1>9. Apart(f, g) => Apart(h \o f, h \o g)
  BY <1>2, ApartUnder
<1> QED
  BY <1>1, <1>3, <1>4, <1>5, <1>6, <1>7, <1>8, <1>9 DEF Base

LEMMA MoreLiterals ==
  ASSUME NEW id, NEW s \in Seq(Literals)
  PROVE  s \in Seq(Literals \cup {id}) /\ <<id>> \in Seq(Literals \cup {id})
OBVIOUS

\* The directory of an app: its names are those around it, and its own.
LEMMA AppDirectory ==
  ASSUME NEW id, NEW b \in Seq(Literals), NEW t \in Seq(Literals)
  PROVE  /\ b \o <<id>> \in Seq(Literals \cup {id})
         /\ (b \o <<id>>) \o t \in Seq(Literals \cup {id})
         /\ S!Range(b \o <<id>>) = S!Range(b) \cup {id}
         /\ S!Range((b \o <<id>>) \o t) = S!Range(b) \cup {id} \cup S!Range(t)
<1> DEFINE E == Literals \cup {id}  own == <<id>>  s == b \o own
<1>1. b \in Seq(E) /\ t \in Seq(E) /\ own \in Seq(E)
  BY MoreLiterals
<1>2. S!Range(own) = {id}
  BY DEF S!Range
<1> HIDE DEF E, own
<1>3. s \in Seq(E) /\ s \o t \in Seq(E)
  BY <1>1
<1>4. S!Range(s) = S!Range(b) \cup {id}
  BY <1>1, <1>2, NamesUnder
<1> HIDE DEF s
<1>5. S!Range(s \o t) = S!Range(s) \cup S!Range(t)
  BY <1>1, <1>3, NamesUnder
<1> QED
  BY <1>3, <1>4, <1>5 DEF E, own, s

\* The names in a path with i in it, and in the one with j instead.
NamedAlike(s, i, t, j) ==
  /\ i \in S!Range(s) /\ j \in S!Range(t)
  /\ \A x : x # i /\ x # j => (x \in S!Range(s) <=> x \in S!Range(t))

\* Apart as well, and paths.
BothApart(E, w, k) == w \in Seq(E) /\ k \in Seq(E) /\ Apart(w, k)

LEMMA BothApartUnder ==
  ASSUME NEW E, NEW s, NEW t, BothApart(E, s, t), NEW u \in Seq(E), NEW v \in Seq(E)
  PROVE  /\ BothApart(E, s \o u, t \o v) /\ BothApart(E, s, t \o v) /\ BothApart(E, s \o u, t)
         /\ BothApart(E, t, s)
<1>1. s \in Seq(E) /\ t \in Seq(E) /\ Apart(s, t)
  BY DEF BothApart
<1>2. s \o u \in Seq(E) /\ t \o v \in Seq(E)
  BY <1>1
<1>3. Apart(s \o u, t \o v) /\ Apart(s, t \o v)
  BY <1>1, ApartUnder
<1>4. Apart(t, s)
  BY <1>1, ApartIsNoPrefix
<1>5. Apart(t, s \o u)
  BY <1>1, <1>4, ApartUnder
<1>6. Apart(s \o u, t)
  BY <1>1, <1>2, <1>5, ApartIsNoPrefix
<1> QED
  BY <1>1, <1>2, <1>3, <1>4, <1>6 DEF BothApart

LEMMA LinuxDirectories ==
  ASSUME NEW e \in Environments, NEW id
  PROVE  /\ \A k \in S!Kept, w \in S!Wiped :
              BothApart(Literals \cup {id}, S!PathsOfLinux(e, id)[w], S!PathsOfLinux(e, id)[k])
         /\ \A d \in S!Owned : \A j :
              NamedAlike(S!PathsOfLinux(e, id)[d], id, S!PathsOfLinux(e, j)[d], j)
<1> DEFINE E == Literals \cup {id}
           h == S!home_dir("linux", e)
           D == Base(e, "XDG_DATA_HOME", h, <<".local", "share">>)
           C == Base(e, "XDG_CONFIG_HOME", h, <<".config">>)
           Ca == Base(e, "XDG_CACHE_HOME", h, <<".cache">>)
           St == Base(e, "XDG_STATE_HOME", h, <<".local", "state">>)
           Do == Base(e, "XDG_DOCUMENTS_DIR", h, <<"Documents">>)
           dirs(i) == S!PathsOfLinux(e, i)
<1>1. h \in Homes /\ S!Or(h, <<"/">>) = h
  BY HomesExist DEF S!Desktop, S!Or
<1>2. ASSUME NEW i
      PROVE  /\ dirs(i).data_dir = D \o <<i>> /\ dirs(i).data_local_dir = D \o <<i>>
             /\ dirs(i).config_dir = C \o <<i>> /\ dirs(i).config_local_dir = C \o <<i>>
             /\ dirs(i).cache_dir = Ca \o <<i>> /\ dirs(i).state_dir = St \o <<i>>
             /\ dirs(i).preference_dir = C \o <<i>> /\ dirs(i).documents_dir = Do
             /\ dirs(i).temp_dir = S!Temp
  BY <1>1, BaseIs DEF S!PathsOfLinux, S!PlatformPaths
<1>3. /\ <<".local", "share">> \in Seq(Literals) /\ <<".config">> \in Seq(Literals)
      /\ <<".cache">> \in Seq(Literals) /\ <<".local", "state">> \in Seq(Literals)
      /\ <<"Documents">> \in Seq(Literals) /\ S!Temp \in Seq(Literals)
  BY DEF Literals, S!Temp
<1>4. /\ Apart(<<".cache">>, <<".local", "share">>) /\ Apart(<<".cache">>, <<".config">>)
      /\ Apart(<<".cache">>, <<".local", "state">>) /\ Apart(<<".cache">>, <<"Documents">>)
  <2>1. 1 \in Nat
    OBVIOUS
  <2> QED
    BY <2>1 DEF Apart
<1>5. {"XDG_DATA_HOME", "XDG_CONFIG_HOME", "XDG_CACHE_HOME", "XDG_STATE_HOME", "XDG_DOCUMENTS_DIR"}
        \subseteq Variables
  BY DEF Variables
<1>6. /\ D \in Seq(Literals) /\ C \in Seq(Literals) /\ Ca \in Seq(Literals) /\ St \in Seq(Literals)
      /\ Do \in Seq(Literals)
  BY <1>1, <1>3, <1>5, BasesApart
<1>7. /\ Apart(Ca, D) /\ Apart(Ca, C) /\ Apart(Ca, St) /\ Apart(Ca, Do)
  BY <1>1, <1>3, <1>4, <1>5, BasesApart
<1>8. /\ Apart(S!Temp, D) /\ Apart(S!Temp, C) /\ Apart(S!Temp, St) /\ Apart(S!Temp, Do)
  BY <1>1, <1>3, <1>5, BasesApart
<1> HIDE DEF D, C, Ca, St, Do, h, dirs
<1>9. /\ D \in Seq(E) /\ C \in Seq(E) /\ Ca \in Seq(E) /\ St \in Seq(E) /\ Do \in Seq(E)
      /\ S!Temp \in Seq(E) /\ <<id>> \in Seq(E)
  BY <1>3, <1>6, MoreLiterals
<1> HIDE DEF E
<1>10. /\ BothApart(E, Ca, D) /\ BothApart(E, Ca, C) /\ BothApart(E, Ca, St) /\ BothApart(E, Ca, Do)
       /\ BothApart(E, S!Temp, D) /\ BothApart(E, S!Temp, C) /\ BothApart(E, S!Temp, St)
       /\ BothApart(E, S!Temp, Do)
  BY <1>7, <1>8, <1>9 DEF BothApart
<1> DEFINE own == <<id>>
<1>11. own \in Seq(E)
  BY <1>9
<1> HIDE DEF own
<1>12. /\ BothApart(E, Ca \o own, D \o own) /\ BothApart(E, Ca \o own, C \o own)
       /\ BothApart(E, Ca \o own, St \o own) /\ BothApart(E, Ca \o own, Do)
       /\ BothApart(E, S!Temp, D \o own) /\ BothApart(E, S!Temp, C \o own)
       /\ BothApart(E, S!Temp, St \o own)
  BY <1>10, <1>11, BothApartUnder
<1>13. \A k \in S!Kept, w \in S!Wiped : BothApart(E, dirs(id)[w], dirs(id)[k])
  BY <1>2, <1>10, <1>12 DEF S!Kept, S!Wiped, own
<1>14. ASSUME NEW d \in S!Owned, NEW j
       PROVE  NamedAlike(dirs(id)[d], id, dirs(j)[d], j)
  <2>1. PICK b \in {D, C, Ca, St} : dirs(id)[d] = b \o <<id>> /\ dirs(j)[d] = b \o <<j>>
    BY <1>2 DEF S!Owned, S!Kept
  <2>2. b \in Seq(Literals)
    BY <1>6
  <2>3. S!Range(b \o <<id>>) = S!Range(b) \cup {id} /\ S!Range(b \o <<j>>) = S!Range(b) \cup {j}
    BY <2>2, AppDirectory
  <2> QED
    BY <2>1, <2>3 DEF NamedAlike
<1> QED
  BY <1>13, <1>14 DEF E, dirs

LEMMA ThreeNames ==
  ASSUME NEW a, NEW b, NEW c
  PROVE  <<a, b, c>> \in Seq({a, b, c}) /\ S!Range(<<a, b, c>>) = {a, b} \cup {c}
<1> DEFINE t == <<a, b, c>>
<1>1. t \in Seq({a, b, c})
  OBVIOUS
<1>2. DOMAIN t = 1..3 /\ t[1] = a /\ t[2] = b /\ t[3] = c
  OBVIOUS
<1> HIDE DEF t
<1>3. \A i : i \in 1..3 <=> i = 1 \/ i = 2 \/ i = 3
  OBVIOUS
<1>4. S!Range(t) = {a, b} \cup {c}
  BY <1>2, <1>3 DEF S!Range
<1> QED
  BY <1>1, <1>4 DEF t

LEMMA MacNamed ==
  ASSUME NEW h \in Seq(Literals), NEW a \in Literals, NEW b \in Literals, NEW x
  PROVE  S!Range(h \o <<a, b, x>>) = (S!Range(h) \cup {a, b}) \cup {x}
<1> DEFINE E == Literals \cup {x}  t == <<a, b, x>>
<1>1. h \in Seq(E)
  BY MoreLiterals
<1>2. t \in Seq({a, b, x}) /\ S!Range(t) = {a, b} \cup {x}
  BY ThreeNames
<1> HIDE DEF t
<1>3. t \in Seq(E)
  BY <1>2
<1> HIDE DEF E
<1>4. S!Range(h \o t) = S!Range(h) \cup S!Range(t)
  BY <1>1, <1>3, NamesUnder
<1> QED
  BY <1>2, <1>4 DEF t

LEMMA MacDirectories ==
  ASSUME NEW e \in Environments, NEW id
  PROVE  /\ \A k \in S!Kept, w \in S!Wiped :
              BothApart(Literals \cup {id}, S!PathsOfMac(e, id)[w], S!PathsOfMac(e, id)[k])
         /\ \A d \in S!Owned : \A j :
              NamedAlike(S!PathsOfMac(e, id)[d], id, S!PathsOfMac(e, j)[d], j)
<1> DEFINE E == Literals \cup {id}
           h == S!home_dir("macos", e)
           support(i) == <<"Library", "Application Support", i>>
           caches(i) == <<"Library", "Caches", i>>
           preferences(i) == <<"Library", "Preferences", i>>
           documents == <<"Documents">>
           dirs(i) == S!PathsOfMac(e, i)
<1>1. h \in Homes /\ S!Or(h, <<"/">>) = h
  BY HomesExist DEF S!Desktop, S!Or
<1>2. ASSUME NEW i
      PROVE  /\ dirs(i).data_dir = h \o support(i) /\ dirs(i).data_local_dir = h \o support(i)
             /\ dirs(i).config_dir = h \o support(i) /\ dirs(i).config_local_dir = h \o support(i)
             /\ dirs(i).cache_dir = h \o caches(i) /\ dirs(i).state_dir = h \o support(i)
             /\ dirs(i).preference_dir = h \o preferences(i)
             /\ dirs(i).documents_dir = h \o documents /\ dirs(i).temp_dir = S!Temp
  BY <1>1 DEF S!PathsOfMac, S!PlatformPaths
<1>3. /\ support(id) \in Seq(E) /\ caches(id) \in Seq(E) /\ preferences(id) \in Seq(E)
      /\ documents \in Seq(E) /\ S!Temp \in Seq(E)
  BY DEF Literals, S!Temp
<1>4. /\ Apart(caches(id), support(id)) /\ Apart(caches(id), preferences(id))
      /\ Apart(caches(id), documents)
  <2>1. /\ 2 \in Nat /\ 2 \in 1..Len(caches(id)) /\ 2 \in 1..Len(support(id))
        /\ 2 \in 1..Len(preferences(id)) /\ caches(id)[2] = "Caches"
        /\ support(id)[2] = "Application Support" /\ preferences(id)[2] = "Preferences"
    OBVIOUS
  <2>2. /\ 1 \in Nat /\ 1 \in 1..Len(caches(id)) /\ 1 \in 1..Len(documents)
        /\ caches(id)[1] = "Library" /\ documents[1] = "Documents"
    OBVIOUS
  <2> HIDE DEF caches, support, preferences, documents
  <2> QED
    BY <2>1, <2>2 DEF Apart
<1>5. h \in Seq(E) /\ Apart(S!Temp, h)
  BY <1>1, HomesStart, MoreLiterals
<1>6. h \in Seq(Literals)
  BY <1>1, HomesStart
<1> HIDE DEF h, support, caches, preferences, documents, E, dirs
<1>7. /\ BothApart(E, h \o caches(id), h \o support(id)) /\ BothApart(E, h \o caches(id), h \o preferences(id))
      /\ BothApart(E, h \o caches(id), h \o documents)
  BY <1>3, <1>4, <1>5, ApartUnder DEF BothApart
<1>8. /\ BothApart(E, S!Temp, h \o support(id)) /\ BothApart(E, S!Temp, h \o preferences(id))
      /\ BothApart(E, S!Temp, h \o documents)
  <2>1. BothApart(E, S!Temp, h)
    BY <1>3, <1>5 DEF BothApart
  <2> QED
    BY <2>1, <1>3, BothApartUnder
<1>9. \A k \in S!Kept, w \in S!Wiped : BothApart(E, dirs(id)[w], dirs(id)[k])
  BY <1>2, <1>7, <1>8 DEF S!Kept, S!Wiped
<1>10. ASSUME NEW d \in S!Owned, NEW j
       PROVE  NamedAlike(dirs(id)[d], id, dirs(j)[d], j)
  <2>1. {"Library", "Application Support", "Caches", "Preferences"} \subseteq Literals
    BY DEF Literals
  <2>2. PICK a \in Literals, b \in Literals :
          dirs(id)[d] = h \o <<a, b, id>> /\ dirs(j)[d] = h \o <<a, b, j>>
    <3>1. CASE d = "cache_dir"
      <4>1. dirs(id)[d] = h \o <<"Library", "Caches", id>> /\ dirs(j)[d] = h \o <<"Library", "Caches", j>>
        BY <1>2, <3>1 DEF caches
      <4> QED
        BY <2>1, <4>1
    <3>2. CASE d = "preference_dir"
      <4>1. /\ dirs(id)[d] = h \o <<"Library", "Preferences", id>>
            /\ dirs(j)[d] = h \o <<"Library", "Preferences", j>>
        BY <1>2, <3>2 DEF preferences
      <4> QED
        BY <2>1, <4>1
    <3>3. CASE d \notin {"cache_dir", "preference_dir"}
      <4>1. /\ dirs(id)[d] = h \o <<"Library", "Application Support", id>>
            /\ dirs(j)[d] = h \o <<"Library", "Application Support", j>>
        BY <1>2, <3>3 DEF S!Owned, S!Kept, support
      <4> QED
        BY <2>1, <4>1
    <3> QED
      BY <3>1, <3>2, <3>3
  <2>3. /\ S!Range(dirs(id)[d]) = (S!Range(h) \cup {a, b}) \cup {id}
        /\ S!Range(dirs(j)[d]) = (S!Range(h) \cup {a, b}) \cup {j}
    BY <1>6, <2>2, MacNamed
  <2> QED
    BY <2>3 DEF NamedAlike
<1> QED
  BY <1>9, <1>10 DEF E, dirs

LEMMA WindowsDirectories ==
  ASSUME NEW e \in Environments, NEW id
  PROVE  /\ \A k \in S!Kept, w \in S!Wiped :
              BothApart(Literals \cup {id}, S!PathsOfWindows(e, id)[w], S!PathsOfWindows(e, id)[k])
         /\ \A d \in S!Owned : \A j :
              NamedAlike(S!PathsOfWindows(e, id)[d], id, S!PathsOfWindows(e, j)[d], j)
<1> DEFINE E == Literals \cup {id}
           h == S!home_dir("windows", e)
           ro == Base(e, "APPDATA", h, <<"AppData", "Roaming">>)
           lo == Base(e, "LOCALAPPDATA", h, <<"AppData", "Local">>)
           documents == <<"Documents">>
           data == <<"data">>  config == <<"config">>  cache == <<"cache">>  st == <<"state">>
           dirs(i) == S!PathsOfWindows(e, i)
<1>1. h \in Homes /\ S!Or(h, <<>>) = h /\ S!Or(S!env_path(e, "USERPROFILE"), h) = h
  <2>1. "USERPROFILE" \in e => S!Or(S!env_path(e, "USERPROFILE"), h) = <<"/", "USERPROFILE">>
    BY EnvironmentPaths DEF S!Or
  <2>2. "USERPROFILE" \notin e => S!Or(S!env_path(e, "USERPROFILE"), h) = h
    BY DEF S!Or, S!env_path
  <2> QED
    BY <2>1, <2>2, HomesExist DEF S!Desktop, S!Or
<1>2. ASSUME NEW i
      PROVE  /\ dirs(i).data_dir = (ro \o <<i>>) \o data /\ dirs(i).data_local_dir = (lo \o <<i>>) \o data
             /\ dirs(i).config_dir = (ro \o <<i>>) \o config
             /\ dirs(i).config_local_dir = (lo \o <<i>>) \o config
             /\ dirs(i).cache_dir = (lo \o <<i>>) \o cache /\ dirs(i).state_dir = (lo \o <<i>>) \o st
             /\ dirs(i).preference_dir = (ro \o <<i>>) \o config
             /\ dirs(i).documents_dir = h \o documents /\ dirs(i).temp_dir = S!Temp
  BY <1>1, BaseIs DEF S!PathsOfWindows, S!PlatformPaths
<1>3. /\ <<"AppData", "Roaming">> \in Seq(Literals) /\ <<"AppData", "Local">> \in Seq(Literals)
      /\ documents \in Seq(Literals) /\ data \in Seq(Literals) /\ config \in Seq(Literals)
      /\ cache \in Seq(Literals) /\ st \in Seq(Literals) /\ S!Temp \in Seq(Literals)
  BY DEF Literals, S!Temp
<1>4. Apart(<<"AppData", "Local">>, <<"AppData", "Roaming">>)
  <2>1. 2 \in Nat
    OBVIOUS
  <2> QED
    BY <2>1 DEF Apart
<1>5. /\ Apart(cache, data) /\ Apart(cache, config) /\ Apart(cache, st)
      /\ Apart(<<"AppData", "Local">>, documents)
  <2>1. 1 \in Nat
    OBVIOUS
  <2> QED
    BY <2>1 DEF Apart
<1>6. "APPDATA" \in Variables /\ "LOCALAPPDATA" \in Variables
  BY DEF Variables
<1>7. /\ ro \in Seq(Literals) /\ lo \in Seq(Literals) /\ Apart(lo, ro)
      /\ Apart(S!Temp, ro) /\ Apart(S!Temp, lo)
  BY <1>1, <1>3, <1>4, <1>6, BasesApart
<1>8. h \in Seq(Literals) /\ Apart(S!Temp, h) /\ Apart(<<"/", "LOCALAPPDATA">>, h)
  BY <1>1, <1>6, HomesStart
<1>9. Apart(lo, h \o documents)
  <2>1. Apart(h \o <<"AppData", "Local">>, h \o documents)
    BY <1>3, <1>5, <1>8, ApartUnder
  <2>2. Apart(<<"/", "LOCALAPPDATA">>, h \o documents)
    <3>1. "/" \in Literals /\ "LOCALAPPDATA" \in Literals
      BY DEF Literals
    <3> DEFINE l == <<"/", "LOCALAPPDATA">>
    <3>2. l \in Seq(Literals)
      BY <3>1
    <3>3. Apart(l, h)
      BY <1>8
    <3> HIDE DEF l
    <3>4. Apart(l, h \o documents)
      BY <1>3, <1>8, <3>2, <3>3, ApartUnder
    <3> QED
      BY <3>4 DEF l
  <2> QED
    BY <2>1, <2>2 DEF Base
<1> DEFINE own == <<id>>
<1> HIDE DEF h, ro, lo, documents, data, config, cache, st, dirs, own
<1>10. /\ ro \in Seq(E) /\ lo \in Seq(E) /\ h \in Seq(E) /\ documents \in Seq(E) /\ data \in Seq(E)
       /\ config \in Seq(E) /\ cache \in Seq(E) /\ st \in Seq(E) /\ S!Temp \in Seq(E) /\ own \in Seq(E)
  BY <1>3, <1>7, <1>8, MoreLiterals DEF own
<1> HIDE DEF E
<1> DEFINE local == lo \o own  roaming == ro \o own
<1>11. local \in Seq(E) /\ roaming \in Seq(E) /\ h \o documents \in Seq(E)
  BY <1>10
<1>12. /\ BothApart(E, lo, ro) /\ BothApart(E, S!Temp, ro) /\ BothApart(E, S!Temp, lo)
       /\ BothApart(E, lo, h \o documents) /\ BothApart(E, S!Temp, h)
  BY <1>7, <1>8, <1>9, <1>10, <1>11 DEF BothApart
<1>13. /\ BothApart(E, local, roaming) /\ BothApart(E, S!Temp, roaming) /\ BothApart(E, S!Temp, local)
       /\ BothApart(E, local, h \o documents) /\ BothApart(E, S!Temp, h \o documents)
  BY <1>10, <1>12, BothApartUnder
<1> HIDE DEF local, roaming
<1>14. /\ BothApart(E, local \o cache, local \o data) /\ BothApart(E, local \o cache, local \o config)
       /\ BothApart(E, local \o cache, local \o st)
  <2>1. /\ local \o cache \in Seq(E) /\ local \o data \in Seq(E) /\ local \o config \in Seq(E)
        /\ local \o st \in Seq(E)
    BY <1>10, <1>11
  <2>2. /\ Apart(local \o cache, local \o data) /\ Apart(local \o cache, local \o config)
        /\ Apart(local \o cache, local \o st)
    BY <1>5, <1>10, <1>11, ApartUnder
  <2> QED
    BY <2>1, <2>2 DEF BothApart
<1>15. /\ BothApart(E, local \o cache, roaming \o data) /\ BothApart(E, local \o cache, roaming \o config)
       /\ BothApart(E, local \o cache, h \o documents)
  BY <1>10, <1>13, BothApartUnder
<1>16. /\ BothApart(E, S!Temp, roaming \o data) /\ BothApart(E, S!Temp, roaming \o config)
       /\ BothApart(E, S!Temp, local \o data) /\ BothApart(E, S!Temp, local \o config)
       /\ BothApart(E, S!Temp, local \o st)
  BY <1>10, <1>13, BothApartUnder
<1>17. \A k \in S!Kept, w \in S!Wiped : BothApart(E, dirs(id)[w], dirs(id)[k])
  BY <1>2, <1>13, <1>14, <1>15, <1>16 DEF S!Kept, S!Wiped, local, roaming, own
<1>18. ASSUME NEW d \in S!Owned, NEW j
       PROVE  NamedAlike(dirs(id)[d], id, dirs(j)[d], j)
  <2>1. PICK b \in {ro, lo}, t \in {data, config, cache, st} :
          dirs(id)[d] = (b \o <<id>>) \o t /\ dirs(j)[d] = (b \o <<j>>) \o t
    BY <1>2 DEF S!Owned, S!Kept
  <2>2. b \in Seq(Literals) /\ t \in Seq(Literals)
    BY <1>3, <1>7
  <2>3. /\ S!Range(dirs(id)[d]) = S!Range(b) \cup {id} \cup S!Range(t)
        /\ S!Range(dirs(j)[d]) = S!Range(b) \cup {j} \cup S!Range(t)
    <3>1. S!Range((b \o <<id>>) \o t) = S!Range(b) \cup {id} \cup S!Range(t)
      BY <2>2, AppDirectory
    <3>2. S!Range((b \o <<j>>) \o t) = S!Range(b) \cup {j} \cup S!Range(t)
      BY <2>2, AppDirectory
    <3> QED
      BY <2>1, <3>1, <3>2
  <2> QED
    BY <2>3 DEF NamedAlike
<1> QED
  BY <1>17, <1>18 DEF E, dirs

LEMMA AndroidDirectories ==
  ASSUME NEW e \in Environments
  PROVE  \E E : \A k \in S!Kept, w \in S!Wiped :
           BothApart(E, S!install_from_dirs(e)[w], S!install_from_dirs(e)[k])
<1> DEFINE E == {"/", "files", "cache", "tmp", "no_backup", "config", "preferences", "documents", "external"}
           files == <<"/", "files">>  cache == <<"/", "cache">>  backup == <<"/", "no_backup">>
           external == <<"/", "external">>
           config == <<"config">>  preferences == <<"preferences">>  documents == <<"documents">>
           dirs == S!install_from_dirs(e)
           docs == IF "external" \in e THEN external ELSE files \o documents
<1>1. /\ dirs.data_dir = files /\ dirs.data_local_dir = files /\ dirs.config_dir = files \o config
      /\ dirs.config_local_dir = files \o config /\ dirs.cache_dir = cache /\ dirs.state_dir = backup
      /\ dirs.preference_dir = files \o preferences /\ dirs.temp_dir = S!Temp
  BY DEF S!install_from_dirs, S!PlatformPaths
<1>2. dirs.documents_dir = docs
  <2>1. dirs.documents_dir = S!Or(S!env_path(e, "external"), files \o documents)
    BY DEF S!install_from_dirs, S!PlatformPaths
  <2>2. CASE "external" \in e
    BY <2>1, <2>2, EnvironmentPaths DEF S!Or
  <2>3. CASE "external" \notin e
    BY <2>1, <2>3 DEF S!Or, S!env_path
  <2> QED
    BY <2>2, <2>3
<1>3. /\ files \in Seq(E) /\ cache \in Seq(E) /\ backup \in Seq(E) /\ external \in Seq(E)
      /\ config \in Seq(E) /\ preferences \in Seq(E) /\ documents \in Seq(E) /\ S!Temp \in Seq(E)
  BY DEF S!Temp
<1>4. /\ Apart(cache, files) /\ Apart(cache, backup) /\ Apart(cache, external)
      /\ Apart(S!Temp, files) /\ Apart(S!Temp, backup) /\ Apart(S!Temp, external)
  <2>1. 2 \in Nat
    OBVIOUS
  <2> QED
    BY <2>1 DEF Apart, S!Temp
<1> HIDE DEF E, files, cache, backup, external, config, preferences, documents, dirs
<1>5. /\ BothApart(E, cache, files) /\ BothApart(E, cache, backup) /\ BothApart(E, cache, external)
      /\ BothApart(E, S!Temp, files) /\ BothApart(E, S!Temp, backup) /\ BothApart(E, S!Temp, external)
  BY <1>3, <1>4 DEF BothApart
<1>6. /\ BothApart(E, cache, files \o config) /\ BothApart(E, cache, files \o preferences)
      /\ BothApart(E, cache, files \o documents) /\ BothApart(E, S!Temp, files \o config)
      /\ BothApart(E, S!Temp, files \o preferences) /\ BothApart(E, S!Temp, files \o documents)
  BY <1>3, <1>5, BothApartUnder
<1>7. \A k \in S!Kept, w \in S!Wiped : BothApart(E, dirs[w], dirs[k])
  BY <1>1, <1>2, <1>5, <1>6 DEF S!Kept, S!Wiped
<1> QED
  BY <1>7 DEF dirs

LEMMA IosDirectories ==
  ASSUME NEW e \in Environments, {"ApplicationSupport", "Caches", "Document", "Library"} \subseteq e
  PROVE  \E E : \A k \in S!Kept, w \in S!Wiped :
           BothApart(E, S!resolve_ios(e)[w], S!resolve_ios(e)[k])
<1> DEFINE E == {"/", "tmp", "ApplicationSupport", "Caches", "Document", "Library", "Preferences"}
           support == <<"/", "ApplicationSupport">>  caches == <<"/", "Caches">>
           document == <<"/", "Document">>  library == <<"/", "Library">>
           preferences == <<"Preferences">>
           dirs == S!resolve_ios(e)
<1>1. /\ S!dir_for(e, "ApplicationSupport") = support /\ S!dir_for(e, "Caches") = caches
      /\ S!dir_for(e, "Document") = document /\ S!dir_for(e, "Library") = library
  BY EnvironmentPaths DEF S!dir_for, S!Or
<1>2. /\ dirs.data_dir = support /\ dirs.data_local_dir = support /\ dirs.config_dir = support
      /\ dirs.config_local_dir = support /\ dirs.cache_dir = caches /\ dirs.state_dir = support
      /\ dirs.preference_dir = library \o preferences /\ dirs.documents_dir = document
      /\ dirs.temp_dir = S!Temp
  BY <1>1 DEF S!resolve_ios, S!PlatformPaths
<1>3. /\ support \in Seq(E) /\ caches \in Seq(E) /\ document \in Seq(E) /\ library \in Seq(E)
      /\ preferences \in Seq(E) /\ S!Temp \in Seq(E)
  BY DEF S!Temp
<1>4. /\ Apart(caches, support) /\ Apart(caches, document) /\ Apart(caches, library)
      /\ Apart(S!Temp, support) /\ Apart(S!Temp, document) /\ Apart(S!Temp, library)
  <2>1. 2 \in Nat
    OBVIOUS
  <2> QED
    BY <2>1 DEF Apart, S!Temp
<1> HIDE DEF E, support, caches, document, library, preferences, dirs
<1>5. /\ BothApart(E, caches, support) /\ BothApart(E, caches, document) /\ BothApart(E, caches, library)
      /\ BothApart(E, S!Temp, support) /\ BothApart(E, S!Temp, document) /\ BothApart(E, S!Temp, library)
  BY <1>3, <1>4 DEF BothApart
<1>6. BothApart(E, caches, library \o preferences) /\ BothApart(E, S!Temp, library \o preferences)
  BY <1>3, <1>5, BothApartUnder
<1>7. \A k \in S!Kept, w \in S!Wiped : BothApart(E, dirs[w], dirs[k])
  BY <1>2, <1>5, <1>6 DEF S!Kept, S!Wiped
<1> QED
  BY <1>7 DEF dirs

\* The directories a platform's, or an app's own, are apart: DirectoriesApart of
\* the state they were resolved in.
LEMMA MobileApart ==
  ASSUME NEW dirs, os \notin S!Desktop,
         \E E : \A k \in S!Kept, w \in S!Wiped : BothApart(E, dirs[w], dirs[k])
  PROVE  S!DirectoriesApart(dirs)
BY ApartIsNoPrefix DEF S!DirectoriesApart, BothApart

LEMMA DesktopApart ==
  ASSUME os \in S!Desktop, env \in Environments, appInfo \in {None, App}
  PROVE  S!DirectoriesApart(S!default_paths(os, env, appInfo))
<1> DEFINE id == IF appInfo = None THEN "istmo-core" ELSE appInfo
           dirs(i) == S!resolve_for_os(os, env, i)
<1>1. /\ App \notin {None, "istmo-core"}
      /\ \A d \in S!Owned : App \notin S!Range(dirs(None)[d])
  BY StartupsAssumption DEF S!StartupAssumption, S!AppAssumption
<1>2. S!default_paths(os, env, appInfo) = dirs(id)
  BY DEF S!default_paths
<1>3. id = App <=> appInfo = App
  BY <1>1
<1>4. /\ os = "linux" => \A i : dirs(i) = S!PathsOfLinux(env, i)
      /\ os = "macos" => \A i : dirs(i) = S!PathsOfMac(env, i)
      /\ os = "windows" => \A i : dirs(i) = S!PathsOfWindows(env, i)
      /\ os = "linux" \/ os = "macos" \/ os = "windows"
  BY DEF S!resolve_for_os, S!Desktop
<1> HIDE DEF id, dirs
<1>5. /\ \A k \in S!Kept, w \in S!Wiped : BothApart(Literals \cup {id}, dirs(id)[w], dirs(id)[k])
      /\ \A d \in S!Owned : \A j : NamedAlike(dirs(id)[d], id, dirs(j)[d], j)
  <2>1. CASE os = "linux"
    <3>1. \A k \in S!Kept, w \in S!Wiped :
            BothApart(Literals \cup {id}, S!PathsOfLinux(env, id)[w], S!PathsOfLinux(env, id)[k])
      BY LinuxDirectories
    <3>2. \A d \in S!Owned : \A j : NamedAlike(S!PathsOfLinux(env, id)[d], id, S!PathsOfLinux(env, j)[d], j)
      BY LinuxDirectories
    <3>3. \A i : dirs(i) = S!PathsOfLinux(env, i)
      BY <1>4, <2>1
    <3> QED
      BY <3>1, <3>2, <3>3
  <2>2. CASE os = "macos"
    <3>1. \A k \in S!Kept, w \in S!Wiped :
            BothApart(Literals \cup {id}, S!PathsOfMac(env, id)[w], S!PathsOfMac(env, id)[k])
      BY MacDirectories
    <3>2. \A d \in S!Owned : \A j : NamedAlike(S!PathsOfMac(env, id)[d], id, S!PathsOfMac(env, j)[d], j)
      BY MacDirectories
    <3>3. \A i : dirs(i) = S!PathsOfMac(env, i)
      BY <1>4, <2>2
    <3> QED
      BY <3>1, <3>2, <3>3
  <2>3. CASE os = "windows"
    <3>1. \A k \in S!Kept, w \in S!Wiped :
            BothApart(Literals \cup {id}, S!PathsOfWindows(env, id)[w], S!PathsOfWindows(env, id)[k])
      BY WindowsDirectories
    <3>2. \A d \in S!Owned : \A j : NamedAlike(S!PathsOfWindows(env, id)[d], id, S!PathsOfWindows(env, j)[d], j)
      BY WindowsDirectories
    <3>3. \A i : dirs(i) = S!PathsOfWindows(env, i)
      BY <1>4, <2>3
    <3> QED
      BY <3>1, <3>2, <3>3
  <2> QED
    BY <2>1, <2>2, <2>3, <1>4
<1>6. ASSUME NEW d \in S!Owned PROVE App \in S!Range(dirs(id)[d]) <=> appInfo = App
  <2>1. NamedAlike(dirs(id)[d], id, dirs(None)[d], None)
    BY <1>5
  <2> QED
    BY <1>1, <1>3, <2>1 DEF NamedAlike
<1> QED
  BY <1>2, <1>5, <1>6, ApartIsNoPrefix DEF S!DirectoriesApart, BothApart

-----------------------------------------------------------------------------
(* Keys and roots of assets.                                               *)

LEMMA SameCardinality == \A X : S!Cardinality(X) = Cardinality(X)
BY DEF S!Cardinality, Cardinality

LEMMA NthExists ==
  ASSUME NEW K \in SUBSET Nat, IsFiniteSet(K), NEW n \in 1..Cardinality(K)
  PROVE  \E i \in K : Cardinality({j \in K : j < i}) = n - 1
<1> SUFFICES ASSUME \A i \in K : Cardinality({j \in K : j < i}) # n - 1 PROVE FALSE
  OBVIOUS
<1> DEFINE c == Cardinality(K)  Below(i) == {j \in K : j < i}
           rank == [i \in K |-> Cardinality(Below(i))]  T == (0..(c - 1)) \ {n - 1}
<1>1. c \in Nat /\ n \in 1..c
  BY FS_CardinalityType
<1>2. IsFiniteSet(T) /\ Cardinality(T) < c
  <2> DEFINE all == 0..(c - 1)
  <2>1. c - 1 \in Int /\ 0 \in Int /\ ~(0 > c - 1) /\ (c - 1) - 0 + 1 = c /\ n - 1 \in all
    BY <1>1
  <2> HIDE DEF c
  <2>2. IsFiniteSet(all) /\ Cardinality(all) = c
    BY <2>1, FS_Interval
  <2> HIDE DEF all
  <2>3. IsFiniteSet(all \ {n - 1}) /\ Cardinality(all \ {n - 1}) = c - 1
    BY <2>1, <2>2, FS_RemoveElement
  <2> QED
    BY <1>1, <2>3 DEF all
<1>3. ASSUME NEW i \in K PROVE Below(i) \in SUBSET K /\ IsFiniteSet(Below(i)) /\ Cardinality(Below(i)) \in 0..(c - 1)
  <2>1. Below(i) \in SUBSET K /\ i \notin Below(i)
    OBVIOUS
  <2>2. IsFiniteSet(Below(i)) /\ Cardinality(Below(i)) <= c /\ Cardinality(Below(i)) # c
    BY <2>1, FS_Subset
  <2>3. Cardinality(Below(i)) \in Nat
    BY <2>2, FS_CardinalityType
  <2> QED
    BY <1>1, <2>1, <2>2, <2>3
<1>4. rank \in [K -> T]
  <2>1. \A i \in K : Cardinality(Below(i)) \in T
    BY <1>3
  <2> QED
    BY <2>1
<1>5. PICK i \in K, j \in K : i # j /\ Cardinality(Below(i)) = Cardinality(Below(j))
  <2>1. \E x, y \in K : x # y /\ rank[x] = rank[y]
    <3> HIDE DEF rank, T
    <3> QED
      BY <1>2, <1>4, FS_PigeonHole
  <2> QED
    BY <2>1
<1>6. ASSUME NEW x \in K, NEW y \in K, x < y, Cardinality(Below(x)) = Cardinality(Below(y)) PROVE FALSE
  <2>0. \A k \in K : k \in Nat
    OBVIOUS
  <2>1. Below(x) \in SUBSET Below(y) /\ x \in Below(y) /\ x \notin Below(x)
    <3>1. \A k \in K : k < x => k < y
      BY <1>6, <2>0
    <3>2. x < y /\ ~(x < x)
      BY <1>6, <2>0
    <3> QED
      BY <3>1, <3>2
  <2>2. Below(y) = Below(x)
    BY <1>3, <1>6, <2>1, FS_Subset
  <2> QED
    BY <2>1, <2>2
<1> QED
  BY <1>5, <1>6

KeyNames == {"a", "b", ".", "..", "/", "C:", "plugin:x", "\\"}

LEMMA KeysArePaths ==
  ASSUME NEW raw \in Keys
  PROVE  raw \in Seq(KeyNames)
<1>1. /\ <<>> \in Seq(KeyNames) /\ <<"a">> \in Seq(KeyNames) /\ <<"a", "..", "..", "a">> \in Seq(KeyNames)
  BY DEF KeyNames
<1>2. /\ <<"/", "a">> \in Seq(KeyNames) /\ <<"C:", "a">> \in Seq(KeyNames) /\ <<".", "a">> \in Seq(KeyNames)
      /\ <<".">> \in Seq(KeyNames)
  BY DEF KeyNames
<1>3. <<"plugin:x", "a">> \in Seq(KeyNames) /\ <<"a", "\\", "b">> \in Seq(KeyNames)
  BY DEF KeyNames
<1> QED
  BY <1>1, <1>2, <1>3 DEF Keys

\* A key has a name, and none that leads elsewhere.
Leading == {".", "..", "/"}

LEMMA KeysStayInside ==
  ASSUME NEW o, NEW raw \in Keys, S!normalise_key(o, raw) # None
  PROVE  /\ S!normalise_key(o, raw) \in Seq(KeyNames) /\ Len(S!normalise_key(o, raw)) > 0
         /\ S!Range(S!normalise_key(o, raw)) \cap Leading = {}
<1> DEFINE kept == {i \in DOMAIN raw : raw[i] \notin S!Skipped(o)}
           key == [n \in 1..Cardinality(kept) |-> raw[S!Nth(kept, n)]]
<1>1. raw \in Seq(KeyNames)
  BY KeysArePaths
<1>2. /\ kept # {} /\ \A i \in kept : raw[i] \notin {"..", "/"}
      /\ S!normalise_key(o, raw) = key
  <2>1. S!normalise_key(o, raw) =
          IF kept = {} \/ \E i \in kept : raw[i] \in {"..", "/"} \cup IF o = "windows" THEN {"C:"} ELSE {}
          THEN None ELSE key
    BY SameCardinality DEF S!normalise_key
  <2> HIDE DEF kept, key
  <2> QED
    BY <2>1
<1>3. \A i \in kept : raw[i] \in KeyNames /\ raw[i] \notin Leading
  BY <1>1, <1>2 DEF S!Skipped, Leading
<1>4. kept \in SUBSET Nat /\ IsFiniteSet(kept) /\ Cardinality(kept) \in Nat /\ Cardinality(kept) > 0
  <2>1. kept \in SUBSET (1..Len(raw)) /\ Len(raw) \in Nat
    BY <1>1
  <2>2. IsFiniteSet(1..Len(raw))
    BY <2>1, FS_Interval
  <2>3. IsFiniteSet(kept)
    BY <2>1, <2>2, FS_Subset
  <2> QED
    BY <1>2, <2>1, <2>3, FS_CardinalityType, FS_EmptySet
<1> HIDE DEF kept
<1>5. \A n \in 1..Cardinality(kept) : S!Nth(kept, n) \in kept
  BY <1>4, NthExists, SameCardinality DEF S!Nth
<1>6. \A n \in 1..Cardinality(kept) : key[n] \in KeyNames /\ key[n] \notin Leading
  BY <1>3, <1>5
<1>7. key \in Seq(KeyNames) /\ Len(key) = Cardinality(kept) /\ DOMAIN key = 1..Cardinality(kept)
  BY <1>4, <1>6
<1>8. S!Range(key) \cap Leading = {}
  BY <1>6, <1>7 DEF S!Range
<1> QED
  BY <1>2, <1>4, <1>7, <1>8

\* Where a backend keeps its files: below the root of a file system at most once.
RootOf(r) ==
  /\ r \in Seq(S!Names)
  /\ S!Range(r) \cap {".", ".."} = {} /\ \A i \in 2..Len(r) : r[i] # "/"

Inside(root, scope, opened) ==
  /\ S!IsStrictPrefix(root \o S!ScopeDir(scope), opened)
  /\ S!Range(opened) \cap {"..", "."} = {}
  /\ \A i \in 2..Len(opened) : opened[i] # "/"

LEMMA KeysOpenInside ==
  ASSUME NEW r, RootOf(r), NEW scope \in S!Scopes,
         NEW key \in Seq(KeyNames), Len(key) > 0, S!Range(key) \cap Leading = {}
  PROVE  Inside(r, scope, r \o S!ScopeDir(scope) \o key)
<1> DEFINE E == S!Names \cup KeyNames  p == S!ScopeDir(scope)  base == r \o p  opened == base \o key
<1>1. r \in Seq(E) /\ key \in Seq(E)
  BY DEF RootOf
<1>2. p \in Seq(E) /\ (\A i \in 1..Len(p) : p[i] \notin Leading)
  <2>1. CASE scope = "app"
    BY <2>1 DEF S!ScopeDir
  <2>2. CASE scope = "plugin:x"
    <3>1. "plugin:x" \in E
      BY DEF KeyNames
    <3>2. p = <<"plugin:x">>
      BY <2>2 DEF S!ScopeDir
    <3> QED
      BY <3>1, <3>2 DEF Leading
  <2> QED
    BY <2>1, <2>2 DEF S!Scopes
<1> HIDE DEF E, p
<1>3. \A i \in 1..Len(key) : key[i] \notin Leading
  BY DEF S!Range
<1>4. \A i \in 1..Len(r) : r[i] \notin {".", ".."} /\ (i >= 2 => r[i] # "/")
  <2>1. DOMAIN r = 1..Len(r) /\ Len(r) \in Nat
    BY <1>1
  <2> QED
    BY <2>1 DEF RootOf, S!Range
<1>5. base \in Seq(E) /\ Len(base) = Len(r) + Len(p)
  BY <1>1, <1>2
<1>6. \A i \in 1..Len(base) : base[i] \notin {".", ".."} /\ (i >= 2 => base[i] # "/")
  <2> SUFFICES ASSUME NEW i \in 1..Len(base)
               PROVE  base[i] \notin {".", ".."} /\ (i >= 2 => base[i] # "/")
    OBVIOUS
  <2>1. CASE i <= Len(r)
    <3>1. base[i] = r[i] /\ i \in 1..Len(r)
      BY <1>1, <1>2, <2>1
    <3> QED
      BY <3>1, <1>4
  <2>2. CASE i > Len(r)
    <3>1. base[i] = p[i - Len(r)] /\ i - Len(r) \in 1..Len(p)
      BY <1>1, <1>2, <1>5, <2>2
    <3> QED
      BY <3>1, <1>2 DEF Leading
  <2> QED
    BY <1>1, <1>5, <2>1, <2>2
<1> HIDE DEF base
<1>7. opened \in Seq(E) /\ Len(opened) = Len(base) + Len(key) /\ DOMAIN opened = 1..Len(opened)
  BY <1>1, <1>5
<1>8. \A i \in 1..Len(base) : opened[i] = base[i]
  BY <1>1, <1>5
<1>9. \A i \in 1..Len(opened) : opened[i] \notin {".", ".."} /\ (i >= 2 => opened[i] # "/")
  <2> SUFFICES ASSUME NEW i \in 1..Len(opened)
               PROVE  opened[i] \notin {".", ".."} /\ (i >= 2 => opened[i] # "/")
    OBVIOUS
  <2>1. CASE i <= Len(base)
    BY <1>5, <1>6, <1>8, <2>1
  <2>2. CASE i > Len(base)
    <3>1. opened[i] = key[i - Len(base)] /\ i - Len(base) \in 1..Len(key)
      BY <1>1, <1>5, <1>7, <2>2
    <3> QED
      BY <3>1, <1>3 DEF Leading
  <2> QED
    BY <1>5, <1>7, <2>1, <2>2
<1> HIDE DEF opened
<1>10. S!IsStrictPrefix(base, opened)
  <2>1. Len(base) \in Nat /\ Len(base) < Len(opened)
    BY <1>1, <1>5, <1>7
  <2>2. SubSeq(base, 1, Len(base)) = base
    BY <1>5
  <2>3. SubSeq(opened, 1, Len(base)) \in Seq(E) /\ Len(SubSeq(opened, 1, Len(base))) = Len(base)
    BY <1>7, <2>1
  <2>4. \A i \in 1..Len(base) : SubSeq(opened, 1, Len(base))[i] = base[i]
    BY <1>7, <1>8, <2>1
  <2>5. SubSeq(opened, 1, Len(base)) = base
    BY <1>5, <2>3, <2>4, SeqEqual
  <2> QED
    BY <2>1, <2>2, <2>5 DEF S!IsStrictPrefix, S!IsPrefix
<1>11. S!Range(opened) \cap {"..", "."} = {}
  BY <1>7, <1>9 DEF S!Range
<1>12. \A i \in 2..Len(opened) : opened[i] # "/"
  <2>1. \A i \in 2..Len(opened) : i \in 1..Len(opened) /\ i >= 2
    BY <1>7
  <2> QED
    BY <1>9, <2>1
<1> QED
  BY <1>10, <1>11, <1>12 DEF Inside, opened, base, p

\* The roots there are.
Desktops(e, a) == [for |-> "desktop", root |-> S!resolve_root(e, a)]

LEMMA RootsOfPlatforms == RootOf(S!apk) /\ RootOf(S!main_bundle_path)
<1>1. S!apk \in Seq(S!Names) /\ S!main_bundle_path \in Seq(S!Names)
  BY DEF S!apk, S!main_bundle_path, S!Names
<1>2. /\ DOMAIN S!apk = 1..1 /\ S!apk[1] = "apk" /\ Len(S!apk) = 1
      /\ DOMAIN S!main_bundle_path = 1..2 /\ Len(S!main_bundle_path) = 2
      /\ S!main_bundle_path[1] = "/" /\ S!main_bundle_path[2] = "bundle"
  BY DEF S!apk, S!main_bundle_path
<1>3. \A i \in 1..1 : i = 1
  OBVIOUS
<1>4. \A i \in 1..2 : i = 1 \/ i = 2
  OBVIOUS
<1>5. RootOf(S!apk)
  BY <1>1, <1>2, <1>3 DEF RootOf, S!Range
<1>6. RootOf(S!main_bundle_path)
  BY <1>1, <1>2, <1>4 DEF RootOf, S!Range
<1> QED
  BY <1>5, <1>6

LEMMA RootsOfDesktops ==
  ASSUME NEW e \in Environments, NEW a \in {None, App}
  PROVE  RootOf(S!resolve_root(e, a)) /\ Desktops(e, a) \in S!Backends /\ Desktops(e, a) # None
<1> DEFINE r == S!resolve_root(e, a)  own == IF a = None THEN "istmo-core" ELSE a
<1>1. App \notin {"/", ".", ".."} /\ None \notin S!Backends
  BY StartupsAssumption DEF S!StartupAssumption, S!AppAssumption
<1>2. \/ r = <<"/", "ISTMO_ASSETS_DIR">> /\ "ISTMO_ASSETS_DIR" \in e
      \/ r = <<"/", "baked">> \/ r = <<"/", "exe", "assets">> \/ r = <<"/", own, "assets">>
  BY DEF S!resolve_root, S!env_path
<1>3. /\ {"/", "baked", "exe", "assets", "istmo-core", App} \subseteq S!Names
      /\ "ISTMO_ASSETS_DIR" \in e => "ISTMO_ASSETS_DIR" \in S!Names
  BY DEF S!Names
<1>4. own \in S!Names /\ own \notin {"/", ".", ".."}
  BY <1>1, <1>3
<1> HIDE DEF own
<1>5. r \in Seq(S!Names)
  <2>1. /\ <<"/", "baked">> \in Seq(S!Names) /\ <<"/", "exe", "assets">> \in Seq(S!Names)
        /\ <<"/", own, "assets">> \in Seq(S!Names)
    BY <1>3, <1>4
  <2>2. "ISTMO_ASSETS_DIR" \in e => <<"/", "ISTMO_ASSETS_DIR">> \in Seq(S!Names)
    BY <1>3
  <2> QED
    BY <1>2, <2>1, <2>2
<1>6. \A i \in 1..Len(r) : r[i] \notin {".", ".."} /\ (i >= 2 => r[i] # "/")
  BY <1>2, <1>4
<1> HIDE DEF r
<1>7. RootOf(r)
  <2>1. DOMAIN r = 1..Len(r) /\ Len(r) \in Nat
    BY <1>5
  <2>2. S!Range(r) \cap {".", ".."} = {}
    BY <1>6, <2>1 DEF S!Range
  <2>3. \A i \in 2..Len(r) : i \in 1..Len(r) /\ i >= 2
    BY <2>1
  <2> QED
    BY <1>5, <1>6, <2>2, <2>3 DEF RootOf
<1>8. Desktops(e, a) \in S!Backends
  BY <1>5 DEF Desktops, S!Backends, r
<1> QED
  BY <1>1, <1>7, <1>8 DEF r

-----------------------------------------------------------------------------
(* The start.                                                              *)

AndroidSteps ==
  <<"init", "configure", "hosted", "service", "finish", "pump", "sink", "state", "assets", "paths">>
IosSteps ==
  <<"init", "configure", "hosted", "service", "finish", "assets", "paths", "pump", "state">>
DesktopSteps == <<"init", "hosted", "service", "pump">>

\* Two sequences one after the other.
LEMMA Joined ==
  ASSUME NEW E, NEW s \in Seq(E), NEW t \in Seq(E), NEW u \in Seq(E), Len(u) = Len(s) + Len(t),
         \A i \in 1..Len(s) : u[i] = s[i], \A i \in 1..Len(t) : u[Len(s) + i] = t[i]
  PROVE  s \o t = u
<1>1. s \o t \in Seq(E) /\ Len(s \o t) = Len(s) + Len(t)
  OBVIOUS
<1>2. ASSUME NEW i \in 1..Len(u) PROVE (s \o t)[i] = u[i]
  <2>1. CASE i <= Len(s)
    <3>1. (s \o t)[i] = s[i]
      BY <2>1
    <3> QED
      BY <2>1, <3>1
  <2>2. CASE i > Len(s)
    <3>1. (s \o t)[i] = t[i - Len(s)] /\ i - Len(s) \in 1..Len(t) /\ Len(s) + (i - Len(s)) = i
      BY <2>2
    <3> QED
      BY <3>1
  <2> QED
    BY <2>1, <2>2
<1> QED
  BY <1>1, <1>2, SeqEqual

LEMMA StepsAre ==
  /\ os = "android" => S!Steps = AndroidSteps
  /\ os = "ios" => S!Steps = IosSteps
  /\ os \notin S!Mobile => S!Steps = DesktopSteps
<1> DEFINE N == {"init", "configure", "hosted", "service", "finish", "pump", "sink", "state", "assets",
                 "paths"}
           register == [i \in DOMAIN Hosts |-> Hosts[i]]
           begin == <<"init">>
           first == <<"init", "configure">>
           half == <<"init", "configure", "hosted", "service">>
           main == <<"init", "hosted", "service">>
           android == <<"finish", "pump", "sink", "state", "assets", "paths">>
           ios == <<"finish", "assets", "paths", "pump", "state">>
           spawn == <<"pump">>
<1>1. register = <<"hosted", "service">>
  BY DEF Hosts
<1>2. /\ first \in Seq(N) /\ Len(first) = 2 /\ register \in Seq(N) /\ Len(register) = 2
      /\ android \in Seq(N) /\ Len(android) = 6 /\ ios \in Seq(N) /\ Len(ios) = 5
  BY <1>1
<1>3. /\ begin \in Seq(N) /\ Len(begin) = 1 /\ spawn \in Seq(N) /\ Len(spawn) = 1
      /\ half \in Seq(N) /\ Len(half) = 4 /\ main \in Seq(N) /\ Len(main) = 3
  OBVIOUS
<1>4. /\ AndroidSteps \in Seq(N) /\ IosSteps \in Seq(N) /\ DesktopSteps \in Seq(N)
      /\ Len(AndroidSteps) = 10 /\ Len(IosSteps) = 9 /\ Len(DesktopSteps) = 4
  BY DEF AndroidSteps, IosSteps, DesktopSteps
<1>5. first \o register = half
  <2>1. /\ \A i \in 1..2 : half[i] = first[i]
        /\ \A i \in 1..2 : half[2 + i] = register[i]
    BY <1>1
  <2> HIDE DEF N, register, begin, first, half, main, android, ios, spawn
  <2>2. Len(half) = Len(first) + Len(register)
    BY <1>2, <1>3, <1>4
  <2>3. \A i \in 1..Len(first) : half[i] = first[i]
    BY <1>2, <1>3, <2>1
  <2>4. \A i \in 1..Len(register) : half[Len(first) + i] = register[i]
    BY <1>2, <1>3, <2>1
  <2>5. first \in Seq(N) /\ register \in Seq(N) /\ half \in Seq(N)
    BY <1>2, <1>3, <1>4
  <2> QED
    BY <2>2, <2>3, <2>4, <2>5, Joined
<1>6. half \o android = AndroidSteps
  <2>1. /\ \A i \in 1..4 : AndroidSteps[i] = half[i]
        /\ \A i \in 1..6 : AndroidSteps[4 + i] = android[i]
    BY <1>1 DEF AndroidSteps
  <2> HIDE DEF N, register, begin, first, half, main, android, ios, spawn
  <2>2. Len(AndroidSteps) = Len(half) + Len(android)
    BY <1>2, <1>3, <1>4
  <2>3. \A i \in 1..Len(half) : AndroidSteps[i] = half[i]
    BY <1>2, <1>3, <2>1
  <2>4. \A i \in 1..Len(android) : AndroidSteps[Len(half) + i] = android[i]
    BY <1>2, <1>3, <2>1
  <2>5. half \in Seq(N) /\ android \in Seq(N) /\ AndroidSteps \in Seq(N)
    BY <1>2, <1>3, <1>4
  <2> QED
    BY <2>2, <2>3, <2>4, <2>5, Joined
<1>7. half \o ios = IosSteps
  <2>1. /\ \A i \in 1..4 : IosSteps[i] = half[i]
        /\ \A i \in 1..5 : IosSteps[4 + i] = ios[i]
    BY <1>1 DEF IosSteps
  <2> HIDE DEF N, register, begin, first, half, main, android, ios, spawn
  <2>2. Len(IosSteps) = Len(half) + Len(ios)
    BY <1>2, <1>3, <1>4
  <2>3. \A i \in 1..Len(half) : IosSteps[i] = half[i]
    BY <1>2, <1>3, <2>1
  <2>4. \A i \in 1..Len(ios) : IosSteps[Len(half) + i] = ios[i]
    BY <1>2, <1>3, <2>1
  <2>5. half \in Seq(N) /\ ios \in Seq(N) /\ IosSteps \in Seq(N)
    BY <1>2, <1>3, <1>4
  <2> QED
    BY <2>2, <2>3, <2>4, <2>5, Joined
<1>8. begin \o register = main
  <2>1. /\ \A i \in 1..1 : main[i] = begin[i]
        /\ \A i \in 1..2 : main[1 + i] = register[i]
    BY <1>1
  <2> HIDE DEF N, register, begin, first, half, main, android, ios, spawn
  <2>2. Len(main) = Len(begin) + Len(register)
    BY <1>2, <1>3, <1>4
  <2>3. \A i \in 1..Len(begin) : main[i] = begin[i]
    BY <1>2, <1>3, <2>1
  <2>4. \A i \in 1..Len(register) : main[Len(begin) + i] = register[i]
    BY <1>2, <1>3, <2>1
  <2>5. begin \in Seq(N) /\ register \in Seq(N) /\ main \in Seq(N)
    BY <1>2, <1>3, <1>4
  <2> QED
    BY <2>2, <2>3, <2>4, <2>5, Joined
<1>9. main \o spawn = DesktopSteps
  <2>1. /\ \A i \in 1..3 : DesktopSteps[i] = main[i]
        /\ \A i \in 1..1 : DesktopSteps[3 + i] = spawn[i]
    BY <1>1 DEF DesktopSteps
  <2> HIDE DEF N, register, begin, first, half, main, android, ios, spawn
  <2>2. Len(DesktopSteps) = Len(main) + Len(spawn)
    BY <1>2, <1>3, <1>4
  <2>3. \A i \in 1..Len(main) : DesktopSteps[i] = main[i]
    BY <1>2, <1>3, <2>1
  <2>4. \A i \in 1..Len(spawn) : DesktopSteps[Len(main) + i] = spawn[i]
    BY <1>2, <1>3, <2>1
  <2>5. main \in Seq(N) /\ spawn \in Seq(N) /\ DesktopSteps \in Seq(N)
    BY <1>2, <1>3, <1>4
  <2> QED
    BY <2>2, <2>3, <2>4, <2>5, Joined
<1>10. S!Steps = CASE os = "android" -> first \o register \o android
                    [] os = "ios" -> first \o register \o ios
                    [] OTHER -> begin \o register \o spawn
  BY DEF S!Steps
<1> HIDE DEF register, begin, first, half, main, android, ios, spawn
<1> QED
  BY <1>5, <1>6, <1>7, <1>8, <1>9, <1>10 DEF S!Mobile

\* What of its start the process has behind it.
Taken(step) == global # None /\ \E k \in 1..Len(S!Steps) : k <= at[global] /\ S!Steps[k] = step

Named(step) == \E k \in 1..Len(S!Steps) : S!Steps[k] = step

LEMMA StepsOfPlatforms ==
  ASSUME os \in S!Mobile \cup S!Desktop
  PROVE  /\ Len(S!Steps) \in 4..10 /\ S!Steps[1] = "init"
         /\ Named("hosted") /\ Named("service") /\ Named("pump")
         /\ os \in S!Mobile => /\ Named("configure") /\ Named("finish") /\ Named("state")
                             /\ Named("assets") /\ Named("paths")
         /\ os = "android" => Named("sink")
         /\ Named("configure") \/ Named("assets") \/ Named("paths") => os \in S!Mobile
         /\ Named("sink") => os = "android"
<1>1. CASE os = "android"
  <2>1. S!Steps = AndroidSteps
    BY <1>1, StepsAre
  <2>2. /\ Len(S!Steps) = 10 /\ S!Steps[1] = "init" /\ S!Steps[2] = "configure"
        /\ S!Steps[3] = "hosted" /\ S!Steps[4] = "service" /\ S!Steps[5] = "finish"
        /\ S!Steps[6] = "pump" /\ S!Steps[7] = "sink" /\ S!Steps[8] = "state"
        /\ S!Steps[9] = "assets" /\ S!Steps[10] = "paths"
    BY <2>1 DEF AndroidSteps
  <2> QED
    BY <1>1, <2>2 DEF Named, S!Mobile
<1>2. CASE os = "ios"
  <2>1. S!Steps = IosSteps
    BY <1>2, StepsAre
  <2>2. /\ Len(S!Steps) = 9 /\ S!Steps[1] = "init" /\ S!Steps[2] = "configure"
        /\ S!Steps[3] = "hosted" /\ S!Steps[4] = "service" /\ S!Steps[5] = "finish"
        /\ S!Steps[6] = "assets" /\ S!Steps[7] = "paths" /\ S!Steps[8] = "pump"
        /\ S!Steps[9] = "state"
    BY <2>1 DEF IosSteps
  <2>3. ~Named("sink")
    <3>1. \A k \in 1..9 : k \in {1, 2, 3, 4, 5, 6, 7, 8, 9}
      OBVIOUS
    <3> QED
      BY <2>2, <3>1 DEF Named
  <2> QED
    BY <1>2, <2>2, <2>3 DEF Named, S!Mobile
<1>3. CASE os \notin S!Mobile
  <2>1. S!Steps = DesktopSteps
    BY <1>3, StepsAre
  <2>2. /\ Len(S!Steps) = 4 /\ S!Steps[1] = "init" /\ S!Steps[2] = "hosted"
        /\ S!Steps[3] = "service" /\ S!Steps[4] = "pump"
    BY <2>1 DEF DesktopSteps
  <2>3. ~Named("configure") /\ ~Named("assets") /\ ~Named("paths") /\ ~Named("sink")
    <3>1. \A k \in 1..4 : k \in {1, 2, 3, 4}
      OBVIOUS
    <3> QED
      BY <2>2, <3>1 DEF Named
  <2> QED
    BY <1>3, <2>2, <2>3 DEF Named, S!Mobile
<1> QED
  BY <1>1, <1>2, <1>3 DEF S!Mobile

\* The process, and who starts it.
Process ==
  /\ os \in S!Mobile \cup S!Desktop /\ env \in Environments /\ eager \in BOOLEAN
  /\ appInfo \in {None, App} /\ global \in Starters \cup {None}
  /\ at \in [Starters -> 0..10 \cup {None}]
  /\ hosts \subseteq {"hosted", "service"} /\ declared \in {{}, Expected} /\ remotes \in {{}, Remotes}
  /\ enforce \in BOOLEAN /\ sink \in BOOLEAN /\ state \in BOOLEAN
  /\ pump \in {"none", "running", "stopped"}

\* Who is past Runtime::init is the one whose runtime it is.
OneRuns ==
  /\ \A s \in Starters : at[s] \notin {0, None} => global = s
  /\ global # None => at[global] \in 1..Len(S!Steps)

\* What the steps behind it have left.
Registered ==
  /\ Taken("configure") => declared = Expected /\ remotes = Remotes
  /\ Taken("hosted") => "hosted" \in hosts
  /\ Taken("service") => "service" \in hosts
  /\ Taken("finish") => enforce
  /\ Taken("pump") => pump # "none"
  /\ Taken("state") => state
  /\ sink <=> Taken("sink")
  /\ os \notin S!Mobile => remotes = {}

\* The cells: what the platform installed, or what was there when it was read.
PlatformPaths == IF os = "android" THEN S!install_from_dirs(env) ELSE S!resolve_ios(env)

OwnPaths ==
  /\ os \in S!Mobile /\ "paths" \notin hasty =>
       \/ paths = None /\ ~Taken("paths")
       \/ paths = PlatformPaths
  /\ os \notin S!Mobile => paths = None \/ paths = S!default_paths(os, env, appInfo)

OwnBackend ==
  /\ os \in S!Mobile /\ "assets" \notin hasty =>
       \/ backend = None /\ ~Taken("assets")
       \/ backend = S!PlatformBackend
  /\ \/ backend = None
     \/ os \in S!Mobile /\ backend = S!PlatformBackend
     \/ \E a \in {None, App} : backend = Desktops(env, a)

\* What the app did last was as promised.
Called ==
  /\ last # None /\ last.did = "acquire" /\ last.ok /\ last.started /\ os \in S!Mobile =>
       last.plugin \in Expected
  /\ S!CallsGoWhereTold

Opened ==
  last # None /\ last.did = "asset" /\ last.opened # None =>
    backend # None /\ Inside(backend.root, last.scope, last.opened)

Crossed ==
  /\ last # None /\ last.did = "deliver" =>
       /\ os \in S!Mobile
       /\ last.args = IF os = "android" THEN S!AndroidDeliver(last.frame) ELSE S!IosDeliver(last.frame)
  /\ S!FramesKeepMeaning

StartInv ==
  Process /\ OneRuns /\ Registered /\ OwnPaths /\ OwnBackend /\ Called /\ Opened /\ Crossed

\* Once a start is done, all its steps are behind it.
LEMMA DoneMeans ==
  ASSUME Process, OneRuns, S!StartedUp, NEW step, Named(step)
  PROVE  Taken(step)
<1>1. PICK s \in Starters : at[s] = Len(S!Steps)
  BY DEF S!StartedUp, S!DoneAt
<1>2. Len(S!Steps) \in 4..10 /\ None \notin 4..10 /\ None \notin Starters
  <2>1. None \notin Starters \cup 0..(8 + Len(Hosts))
    BY StartupsAssumption DEF S!StartupAssumption
  <2>2. Len(Hosts) = 2
    BY DEF Hosts
  <2> QED
    BY <2>1, <2>2, StepsOfPlatforms DEF Process
<1>3. global = s /\ global # None
  <2>1. at[s] \notin {0, None}
    <3>1. at[s] \in 4..10 /\ 0 \notin 4..10
      BY <1>1, <1>2
    <3>2. at[s] # None
      BY <1>2, <3>1, Zenon
    <3>3. at[s] # 0
      BY <3>1, Zenon
    <3> QED
      BY <3>2, <3>3
  <2> QED
    BY <1>2, <2>1 DEF OneRuns
<1> QED
  BY <1>1, <1>2, <1>3 DEF Named, Taken

\* A step of that name, after the first.
LEMMA TakesStep ==
  ASSUME Process, OneRuns, NEW s \in Starters, NEW step, step # "init", S!Takes(s, step), global' = global
  PROVE  /\ OneRuns' /\ Named(step) /\ at' \in [Starters -> 0..10 \cup {None}]
         /\ \A x : Taken(x)' <=> Taken(x) \/ x = step
<1> DEFINE n == at[s]  steps == S!Steps
<1>1. /\ n \in 0..(Len(steps) - 1) /\ steps[n + 1] = step /\ at' = [at EXCEPT ![s] = n + 1]
      /\ os' = os
  BY DEF S!Takes
<1>2. steps' = steps
  BY <1>1 DEF S!Steps
<1>3. Len(steps) \in 4..10 /\ steps[1] = "init"
  BY StepsOfPlatforms DEF Process
<1>4. None \notin 0..10
  <2>1. None \notin Starters \cup 0..(8 + Len(Hosts)) /\ Len(Hosts) = 2
    BY StartupsAssumption DEF S!StartupAssumption, Hosts
  <2> QED
    BY <2>1
<1>5. n # 0 /\ n # None /\ global = s
  <2>1. n # 0
    BY <1>1, <1>3
  <2>2. n # None
    <3>1. \A l \in 4..10 : \A m \in 0..(l - 1) : m \in 0..10
      OBVIOUS
    <3> QED
      BY <1>1, <1>3, <1>4, <3>1, Zenon
  <2> QED
    BY <2>1, <2>2 DEF OneRuns
<1>6. s # None
  BY StartupsAssumption DEF S!StartupAssumption
<1>7. at'[s] = n + 1 /\ n + 1 \in 1..Len(steps) /\ \A t \in Starters \ {s} : at'[t] = at[t]
  BY <1>1, <1>3 DEF Process
<1> HIDE DEF n, steps
<1>8. OneRuns'
  BY <1>2, <1>5, <1>6, <1>7 DEF OneRuns, steps
<1>9. Named(step)
  BY <1>1, <1>7 DEF Named, steps
<1>10. at' \in [Starters -> 0..10 \cup {None}]
  <2>1. n + 1 \in 0..10
    <3>1. n \in 0..(Len(steps) - 1) /\ Len(steps) \in 4..10
      BY <1>1, <1>3
    <3>2. \A l \in 4..10 : \A m \in 0..(l - 1) : m + 1 \in 0..10
      OBVIOUS
    <3> QED
      BY <3>1, <3>2, Zenon
  <2>2. at \in [Starters -> 0..10 \cup {None}]
    BY DEF Process
  <2>3. at' = [at EXCEPT ![s] = n + 1]
    BY <1>1 DEF n
  <2> QED
    BY <2>1, <2>2, <2>3
<1>11. ASSUME NEW x PROVE Taken(x)' <=> Taken(x) \/ x = step
  <2>1. Taken(x)' <=> \E k \in 1..Len(steps) : k <= n + 1 /\ steps[k] = x
    BY <1>2, <1>5, <1>6, <1>7 DEF Taken, steps
  <2>2. Taken(x) <=> \E k \in 1..Len(steps) : k <= n /\ steps[k] = x
    BY <1>5, <1>6 DEF Taken, steps, n
  <2>3. \A k \in 1..Len(steps) : k <= n + 1 <=> k <= n \/ k = n + 1
    BY <1>1, <1>3
  <2> QED
    BY <1>1, <1>7, <2>1, <2>2, <2>3
<1> QED
  BY <1>8, <1>9, <1>10, <1>11

LEMMA InitStart == S!Init => StartInv
<1> SUFFICES ASSUME S!Init PROVE StartInv
  OBVIOUS
<1> USE DEF S!Init
<1>1. Process
  <2>1. at \in [Starters -> 0..10 \cup {None}]
    OBVIOUS
  <2> QED
    BY <2>1 DEF Process
<1>2. OneRuns
  BY DEF OneRuns
<1>3. \A x : ~Taken(x)
  BY DEF Taken
<1>4. Registered
  <2>1. None \notin Starters
    BY StartupsAssumption DEF S!StartupAssumption
  <2> QED
    BY <1>3 DEF Registered
<1>5. OwnPaths /\ OwnBackend
  BY <1>3 DEF OwnPaths, OwnBackend
<1>6. Called /\ Opened /\ Crossed
  BY DEF Called, Opened, Crossed, S!CallsGoWhereTold, S!FramesKeepMeaning
<1> QED
  BY <1>1, <1>2, <1>4, <1>5, <1>6 DEF StartInv

\* Nothing of a step concerns what was done last, nor a backend that is there.
LEMMA LastKeeps ==
  ASSUME Called, Opened, Crossed, last' = last, os' = os, backend # None => backend' = backend
  PROVE  Called' /\ Opened' /\ Crossed'
<1>1. Called'
  BY DEF Called, S!CallsGoWhereTold, S!Mobile
<1>2. Opened'
  BY DEF Opened, Inside
<1>3. Crossed'
  BY DEF Crossed, S!FramesKeepMeaning, S!Mobile
<1> QED
  BY <1>1, <1>2, <1>3

\* Runtime::init, of the first or of a second starter.
LEMMA InitStep ==
  ASSUME StartInv, NEW s \in Starters, S!RuntimeInit(s)
  PROVE  StartInv'
<1>1. /\ at[s] = 0 /\ os' = os /\ env' = env /\ eager' = eager
      /\ UNCHANGED <<appInfo, paths, backend, hasty, hosts, declared, remotes, enforce, sink, pump, state, last>>
  BY DEF S!RuntimeInit, S!cells, S!registry
<1>2. None \notin Starters /\ None \notin 0..10
  <2>1. None \notin Starters \cup 0..(8 + Len(Hosts)) /\ Len(Hosts) = 2
    BY StartupsAssumption DEF S!StartupAssumption, Hosts
  <2> QED
    BY <2>1
<1>3. S!Steps' = S!Steps
  BY <1>1 DEF S!Steps
<1>4. Len(S!Steps) \in 4..10 /\ S!Steps[1] = "init"
  BY StepsOfPlatforms DEF StartInv, Process
<1>5. CASE global = None
  <2>1. global' = s /\ at' = [at EXCEPT ![s] = 1]
    BY <1>5 DEF S!RuntimeInit
  <2>2. at' \in [Starters -> 0..10 \cup {None}] /\ at'[s] = 1 /\ \A t \in Starters \ {s} : at'[t] = at[t]
    BY <2>1 DEF StartInv, Process
  <2>3. Process'
    BY <1>1, <2>1, <2>2 DEF StartInv, Process
  <2>4. OneRuns'
    <3>1. \A t \in Starters \ {s} : at[t] \in {0, None}
      BY <1>2, <1>5 DEF StartInv, OneRuns
    <3>2. 1 \in 1..Len(S!Steps)
      BY <1>4
    <3> QED
      BY <1>2, <1>3, <2>1, <2>2, <3>1, <3>2 DEF OneRuns
  <2>5. ASSUME NEW x, x # "init" PROVE ~Taken(x)'
    <3>1. SUFFICES ASSUME NEW k \in 1..Len(S!Steps), k <= 1, S!Steps[k] = x PROVE FALSE
      BY <1>3, <2>1, <2>2 DEF Taken
    <3>2. k = 1
      BY <1>4, <3>1
    <3> QED
      BY <1>4, <2>5, <3>1, <3>2
  <2>6. ASSUME NEW x PROVE ~Taken(x)
    BY <1>5 DEF Taken
  <2>7. Registered'
    BY <1>1, <2>5, <2>6 DEF StartInv, Registered, S!Mobile
  <2>8. OwnPaths' /\ OwnBackend'
    BY <1>1, <2>5 DEF StartInv, OwnPaths, OwnBackend, PlatformPaths, S!PlatformBackend, S!Mobile, Desktops
  <2> QED
    BY <1>1, <2>3, <2>4, <2>7, <2>8, LastKeeps DEF StartInv
<1>6. CASE global # None
  <2>1. global' = global /\ at' = [at EXCEPT ![s] = None]
    BY <1>6 DEF S!RuntimeInit
  <2>2. s # global
    <3>1. at[global] \in 1..Len(S!Steps)
      BY <1>6 DEF StartInv, OneRuns
    <3> QED
      BY <1>1, <1>4, <3>1
  <2>3. at' \in [Starters -> 0..10 \cup {None}] /\ at'[s] = None /\ \A t \in Starters \ {s} : at'[t] = at[t]
    BY <2>1 DEF StartInv, Process
  <2>4. global \in Starters \ {s}
    BY <1>6, <2>2 DEF StartInv, Process
  <2>5. Process'
    BY <1>1, <2>1, <2>3 DEF StartInv, Process
  <2>6. OneRuns'
    BY <1>3, <2>1, <2>3, <2>4 DEF StartInv, OneRuns
  <2>7. ASSUME NEW x PROVE Taken(x)' <=> Taken(x)
    BY <1>3, <2>1, <2>3, <2>4 DEF Taken
  <2>8. Registered'
    BY <1>1, <2>7 DEF StartInv, Registered, S!Mobile
  <2>9. OwnPaths' /\ OwnBackend'
    BY <1>1, <2>7 DEF StartInv, OwnPaths, OwnBackend, PlatformPaths, S!PlatformBackend, S!Mobile, Desktops
  <2> QED
    BY <1>1, <2>5, <2>6, <2>8, <2>9, LastKeeps DEF StartInv
<1> QED
  BY <1>5, <1>6

\* The steps of a start.
LEMMA StepLeaves ==
  ASSUME StartInv, NEW s \in Starters, NEW step, step # "init", S!Takes(s, step), global' = global
  PROVE  /\ OneRuns' /\ Named(step) /\ at' \in [Starters -> 0..10 \cup {None}]
         /\ \A x : Taken(x)' <=> Taken(x) \/ x = step
         /\ os' = os /\ env' = env /\ eager' = eager /\ last' = last
<1>1. os' = os /\ env' = env /\ eager' = eager /\ last' = last
  BY DEF S!Takes
<1>2. Process /\ OneRuns
  BY DEF StartInv
<1> QED
  BY <1>1, <1>2, TakesStep

LEMMA ConfigureStep ==
  ASSUME StartInv, NEW s \in Starters, S!Configure(s)
  PROVE  StartInv'
<1>1. /\ S!Takes(s, "configure") /\ global' = global /\ pump' = pump /\ state' = state
      /\ appInfo' = S!Or(appInfo, App) /\ declared' = Expected /\ remotes' = Remotes
      /\ UNCHANGED <<paths, backend, hasty, hosts, enforce, sink>>
  BY DEF S!Configure, S!transport
<1>2. /\ OneRuns' /\ Named("configure") /\ at' \in [Starters -> 0..10 \cup {None}]
      /\ \A x : Taken(x)' <=> Taken(x) \/ x = "configure"
      /\ os' = os /\ env' = env /\ eager' = eager /\ last' = last
  BY <1>1, StepLeaves
<1>3. os \in S!Mobile
  BY <1>2, StepsOfPlatforms DEF StartInv, Process
<1>4. Process'
  BY <1>1, <1>2 DEF StartInv, Process, S!Or
<1>5. Registered'
  BY <1>1, <1>2, <1>3 DEF StartInv, Registered, S!Mobile
<1>6. OwnPaths' /\ OwnBackend'
  BY <1>1, <1>2, <1>3 DEF StartInv, OwnPaths, OwnBackend, PlatformPaths, S!PlatformBackend, S!Mobile, Desktops
<1> QED
  BY <1>1, <1>2, <1>4, <1>5, <1>6, LastKeeps DEF StartInv

LEMMA FinishStep ==
  ASSUME StartInv, NEW s \in Starters, S!Finish(s) \/ S!SpawnPump(s) \/ S!InstallState(s)
  PROVE  StartInv'
<1>1. PICK step \in {"finish", "pump", "state"} :
        /\ S!Takes(s, step) /\ global' = global
        /\ UNCHANGED <<appInfo, paths, backend, hasty, hosts, declared, remotes, sink>>
        /\ enforce' = (IF step = "finish" THEN TRUE ELSE enforce)
        /\ pump' = (IF step = "pump" THEN "running" ELSE pump)
        /\ state' = (IF step = "state" THEN TRUE ELSE state)
  BY DEF S!Finish, S!SpawnPump, S!InstallState, S!cells, S!registry, S!transport
<1>2. /\ OneRuns' /\ at' \in [Starters -> 0..10 \cup {None}]
      /\ \A x : Taken(x)' <=> Taken(x) \/ x = step
      /\ os' = os /\ env' = env /\ eager' = eager /\ last' = last
  BY <1>1, StepLeaves
<1>3. Process'
  BY <1>1, <1>2 DEF StartInv, Process
<1>4. Registered'
  BY <1>1, <1>2 DEF StartInv, Registered, S!Mobile
<1>5. OwnPaths' /\ OwnBackend'
  BY <1>1, <1>2 DEF StartInv, OwnPaths, OwnBackend, PlatformPaths, S!PlatformBackend, S!Mobile, Desktops
<1> QED
  BY <1>1, <1>2, <1>3, <1>4, <1>5, LastKeeps DEF StartInv

LEMMA SinkStep ==
  ASSUME StartInv, NEW s \in Starters, S!install_remote_envelope_sink(s)
  PROVE  StartInv'
<1>1. /\ S!Takes(s, "sink") /\ global' = global /\ sink' = TRUE
      /\ UNCHANGED <<appInfo, paths, backend, hasty, hosts, declared, remotes, enforce, pump, state>>
  BY DEF S!install_remote_envelope_sink, S!cells, S!transport
<1>2. /\ OneRuns' /\ at' \in [Starters -> 0..10 \cup {None}]
      /\ \A x : Taken(x)' <=> Taken(x) \/ x = "sink"
      /\ os' = os /\ env' = env /\ eager' = eager /\ last' = last
  BY <1>1, StepLeaves
<1>3. Process'
  BY <1>1, <1>2 DEF StartInv, Process
<1>4. Registered'
  BY <1>1, <1>2 DEF StartInv, Registered, S!Mobile
<1>5. OwnPaths' /\ OwnBackend'
  BY <1>1, <1>2 DEF StartInv, OwnPaths, OwnBackend, PlatformPaths, S!PlatformBackend, S!Mobile, Desktops
<1> QED
  BY <1>1, <1>2, <1>3, <1>4, <1>5, LastKeeps DEF StartInv

LEMMA AssetsStep ==
  ASSUME StartInv, NEW s \in Starters, S!install_backend(s)
  PROVE  StartInv'
<1>1. /\ S!Takes(s, "assets") /\ global' = global /\ backend' = S!Or(backend, S!PlatformBackend)
      /\ UNCHANGED <<appInfo, paths, hasty, hosts, declared, remotes, enforce, sink, pump, state>>
  BY DEF S!install_backend, S!registry, S!transport
<1>2. /\ OneRuns' /\ Named("assets") /\ at' \in [Starters -> 0..10 \cup {None}]
      /\ \A x : Taken(x)' <=> Taken(x) \/ x = "assets"
      /\ os' = os /\ env' = env /\ eager' = eager /\ last' = last
  BY <1>1, StepLeaves
<1>3. os \in S!Mobile
  BY <1>2, StepsOfPlatforms DEF StartInv, Process
<1>4. Process'
  BY <1>1, <1>2 DEF StartInv, Process
<1>5. Registered'
  BY <1>1, <1>2 DEF StartInv, Registered, S!Mobile
<1>6. OwnPaths'
  BY <1>1, <1>2 DEF StartInv, OwnPaths, PlatformPaths, S!Mobile
<1>7. OwnBackend'
  BY <1>1, <1>2, <1>3 DEF StartInv, OwnBackend, S!PlatformBackend, S!Mobile, Desktops, S!Or
<1>8. backend # None => backend' = backend
  BY <1>1 DEF S!Or
<1> QED
  BY <1>1, <1>2, <1>4, <1>5, <1>6, <1>7, <1>8, LastKeeps DEF StartInv

LEMMA PathsStep ==
  ASSUME StartInv, NEW s \in Starters, S!install_paths(s)
  PROVE  StartInv'
<1>1. /\ S!Takes(s, "paths") /\ global' = global /\ paths' = S!Or(paths, PlatformPaths)
      /\ UNCHANGED <<appInfo, backend, hasty, hosts, declared, remotes, enforce, sink, pump, state>>
  BY DEF S!install_paths, S!registry, S!transport, PlatformPaths
<1>2. /\ OneRuns' /\ Named("paths") /\ at' \in [Starters -> 0..10 \cup {None}]
      /\ \A x : Taken(x)' <=> Taken(x) \/ x = "paths"
      /\ os' = os /\ env' = env /\ eager' = eager /\ last' = last
  BY <1>1, StepLeaves
<1>3. os \in S!Mobile
  BY <1>2, StepsOfPlatforms DEF StartInv, Process
<1>4. Process'
  BY <1>1, <1>2 DEF StartInv, Process
<1>5. Registered'
  BY <1>1, <1>2 DEF StartInv, Registered, S!Mobile
<1>6. OwnPaths'
  BY <1>1, <1>2, <1>3 DEF StartInv, OwnPaths, PlatformPaths, S!Mobile, S!Or
<1>7. OwnBackend'
  BY <1>1, <1>2 DEF StartInv, OwnBackend, S!PlatformBackend, S!Mobile, Desktops
<1> QED
  BY <1>1, <1>2, <1>4, <1>5, <1>6, <1>7, LastKeeps DEF StartInv

\* What reading leaves in a cell.
LEMMA PathsAreRead ==
  ASSUME StartInv, paths' = S!PathsRead,
         hasty' \in {hasty \cup (IF paths = None THEN {"paths"} ELSE {}),
                     hasty \cup (IF paths = None THEN {"paths"} ELSE {})
                           \cup (IF backend = None THEN {"assets"} ELSE {})},
         UNCHANGED <<os, env, appInfo>>, Taken("paths")' <=> Taken("paths")
  PROVE  OwnPaths'
<1>1. paths # None => paths' = paths /\ ("paths" \in hasty' <=> "paths" \in hasty)
  BY DEF S!PathsRead, S!Or
<1>2. paths = None => paths' = S!default_paths(os, env, appInfo) /\ "paths" \in hasty'
  BY DEF S!PathsRead, S!Or
<1> QED
  BY <1>1, <1>2 DEF StartInv, OwnPaths, PlatformPaths, S!Mobile

LEMMA BackendIsRead ==
  ASSUME StartInv, backend' = S!BackendRead,
         hasty' \in {hasty \cup (IF backend = None THEN {"assets"} ELSE {}),
                     hasty \cup (IF paths = None THEN {"paths"} ELSE {})
                           \cup (IF backend = None THEN {"assets"} ELSE {})},
         UNCHANGED <<os, env, appInfo>>, Taken("assets")' <=> Taken("assets")
  PROVE  OwnBackend' /\ backend' # None /\ (backend # None => backend' = backend)
<1>1. backend # None => backend' = backend /\ ("assets" \in hasty' <=> "assets" \in hasty)
  BY DEF S!BackendRead, S!Or
<1>2. backend = None => backend' = Desktops(env, appInfo) /\ "assets" \in hasty'
  BY DEF S!BackendRead, S!Or, Desktops
<1>3. appInfo \in {None, App} /\ env \in Environments
  BY DEF StartInv, Process
<1>4. backend' # None
  BY <1>1, <1>2, <1>3, RootsOfDesktops
<1>5. OwnBackend'
  BY <1>1, <1>2, <1>3 DEF StartInv, OwnBackend, S!PlatformBackend, S!Mobile, Desktops
<1> QED
  BY <1>1, <1>4, <1>5

LEMMA HostStep ==
  ASSUME StartInv, NEW s \in Starters, S!register_host(s)
  PROVE  StartInv'
<1>1. PICK i \in DOMAIN Hosts :
        /\ S!Takes(s, Hosts[i])
        /\ IF i = 1 /\ eager THEN S!Reads ELSE UNCHANGED <<paths, backend, hasty>>
        /\ hosts' = hosts \cup {Hosts[i]} /\ global' = global
        /\ UNCHANGED <<appInfo, declared, remotes, enforce, sink, pump, state>>
  BY DEF S!register_host, S!transport
<1>2. Hosts[i] \in {"hosted", "service"}
  BY DEF Hosts
<1>3. /\ OneRuns' /\ at' \in [Starters -> 0..10 \cup {None}]
      /\ \A x : Taken(x)' <=> Taken(x) \/ x = Hosts[i]
      /\ os' = os /\ env' = env /\ eager' = eager /\ last' = last
  BY <1>1, <1>2, StepLeaves
<1>4. Process'
  <2>1. hosts' \subseteq {"hosted", "service"}
    BY <1>1, <1>2 DEF StartInv, Process
  <2>2. UNCHANGED <<os, env, eager, appInfo, global, declared, remotes, enforce, sink, state, pump>>
    BY <1>1, <1>3
  <2> QED
    BY <1>3, <2>1, <2>2 DEF StartInv, Process
<1>5. Registered'
  BY <1>1, <1>2, <1>3 DEF StartInv, Registered, S!Mobile
<1>6. (Taken("paths")' <=> Taken("paths")) /\ (Taken("assets")' <=> Taken("assets"))
  BY <1>2, <1>3
<1>7. OwnPaths' /\ OwnBackend' /\ (backend # None => backend' = backend)
  <2>1. CASE i = 1 /\ eager
    <3>1. /\ paths' = S!PathsRead /\ backend' = S!BackendRead
          /\ hasty' = hasty \cup (IF paths = None THEN {"paths"} ELSE {})
                           \cup (IF backend = None THEN {"assets"} ELSE {})
      BY <1>1, <2>1 DEF S!Reads
    <3> QED
      BY <1>1, <1>3, <1>6, <3>1, PathsAreRead, BackendIsRead
  <2>2. CASE ~(i = 1 /\ eager)
    <3>1. UNCHANGED <<paths, backend, hasty>>
      BY <1>1, <2>2
    <3> QED
      BY <1>1, <1>3, <1>6, <3>1
      DEF StartInv, OwnPaths, OwnBackend, PlatformPaths, S!PlatformBackend, S!Mobile, Desktops
  <2> QED
    BY <2>1, <2>2
<1> QED
  BY <1>3, <1>4, <1>5, <1>7, LastKeeps DEF StartInv

LEMMA ShutdownStep == StartInv /\ S!Shutdown => StartInv'
<1> SUFFICES ASSUME StartInv, S!Shutdown PROVE StartInv'
  OBVIOUS
<1>1. /\ pump' = "stopped"
      /\ UNCHANGED <<os, env, eager, at, appInfo, paths, backend, hasty, hosts, declared, remotes,
                     enforce, sink, global, state, last>>
  BY DEF S!Shutdown, S!cells, S!registry
<1>2. S!Steps' = S!Steps
  BY <1>1 DEF S!Steps
<1>3. Process' /\ OneRuns' /\ \A x : Taken(x)' <=> Taken(x)
  BY <1>1, <1>2 DEF StartInv, Process, OneRuns, Taken
<1>4. Registered' /\ OwnPaths' /\ OwnBackend'
  BY <1>1, <1>3 DEF StartInv, Registered, OwnPaths, OwnBackend, PlatformPaths, S!PlatformBackend,
                    S!Mobile, Desktops
<1> QED
  BY <1>1, <1>3, <1>4, LastKeeps DEF StartInv

\* What the app and the platform do moves no start on.
LEMMA StayingPut ==
  ASSUME StartInv,
         UNCHANGED <<os, env, eager, at, appInfo, hosts, declared, remotes, enforce, sink, global, pump,
                     state>>
  PROVE  Process' /\ OneRuns' /\ Registered' /\ \A x : Taken(x)' <=> Taken(x)
<1>1. S!Steps' = S!Steps
  BY DEF S!Steps
<1>2. Process' /\ OneRuns' /\ \A x : Taken(x)' <=> Taken(x)
  BY <1>1 DEF StartInv, Process, OneRuns, Taken
<1> QED
  BY <1>2 DEF StartInv, Registered, S!Mobile

LEMMA StayingWhole ==
  ASSUME StartInv,
         UNCHANGED <<os, env, eager, at, appInfo, paths, backend, hasty, hosts, declared, remotes,
                     enforce, sink, global, pump, state>>
  PROVE  Process' /\ OneRuns' /\ Registered' /\ OwnPaths' /\ OwnBackend'
<1>1. Process' /\ OneRuns' /\ Registered' /\ \A x : Taken(x)' <=> Taken(x)
  BY StayingPut
<1> QED
  BY <1>1 DEF StartInv, OwnPaths, OwnBackend, PlatformPaths, S!PlatformBackend, S!Mobile, Desktops

LEMMA ReadDirectoryStep == StartInv /\ S!ReadDirectory => StartInv'
<1> SUFFICES ASSUME StartInv, S!ReadDirectory PROVE StartInv'
  OBVIOUS
<1>1. /\ paths' = S!PathsRead /\ hasty' = hasty \cup (IF paths = None THEN {"paths"} ELSE {})
      /\ last' = [did |-> "dirs", saw |-> S!PathsRead]
      /\ UNCHANGED <<os, env, eager, at, appInfo, backend, hosts, declared, remotes, enforce, sink,
                     global, pump, state>>
  BY DEF S!ReadDirectory, S!registry, S!transport
<1>2. Process' /\ OneRuns' /\ Registered' /\ \A x : Taken(x)' <=> Taken(x)
  BY <1>1, StayingPut
<1>3. OwnPaths'
  BY <1>1, <1>2, PathsAreRead
<1>4. "assets" \in hasty' <=> "assets" \in hasty
  BY <1>1
<1>5. OwnBackend'
  BY <1>1, <1>2, <1>4 DEF StartInv, OwnBackend, S!PlatformBackend, S!Mobile, Desktops
<1>6. last'.did = "dirs"
  BY <1>1
<1>7. Called' /\ Opened' /\ Crossed'
  BY <1>6 DEF Called, Opened, Crossed, S!CallsGoWhereTold, S!FramesKeepMeaning
<1> QED
  BY <1>2, <1>3, <1>5, <1>7 DEF StartInv

\* Whatever opens an asset opens it in the directory of its scope.
LEMMA OpenedInside ==
  ASSUME StartInv, NEW scope \in S!Scopes, NEW key \in Seq(KeyNames), Len(key) > 0,
         S!Range(key) \cap Leading = {}
  PROVE  Inside(S!BackendRead.root, scope,
                CASE S!BackendRead.for = "android" -> S!open_android(scope, key)
                  [] S!BackendRead.for = "ios" -> S!open_ios(scope, key)
                  [] OTHER -> S!resolve(S!BackendRead.root, scope, key))
<1> DEFINE b == S!BackendRead
<1>1. appInfo \in {None, App} /\ env \in Environments
  BY DEF StartInv, Process
<1>2. \/ os \in S!Mobile /\ b = S!PlatformBackend
      \/ \E a \in {None, App} : b = Desktops(env, a)
  <2>1. backend = None => b = Desktops(env, appInfo)
    BY DEF S!BackendRead, S!Or, Desktops
  <2>2. backend # None => b = backend
    BY DEF S!BackendRead, S!Or
  <2> QED
    BY <1>1, <2>1, <2>2 DEF StartInv, OwnBackend
<1>3. CASE os \in S!Mobile /\ b = S!PlatformBackend
  <2>1. b.for = os /\ b.root = IF os = "android" THEN S!apk ELSE S!main_bundle_path
    BY <1>3 DEF S!PlatformBackend
  <2>2. CASE os = "android"
    <3>1. Inside(S!apk, scope, S!apk \o S!ScopeDir(scope) \o key)
      BY RootsOfPlatforms, KeysOpenInside
    <3> QED
      BY <2>1, <2>2, <3>1 DEF S!open_android
  <2>3. CASE os = "ios"
    <3>1. Inside(S!main_bundle_path, scope, S!main_bundle_path \o S!ScopeDir(scope) \o key)
      BY RootsOfPlatforms, KeysOpenInside
    <3> QED
      BY <2>1, <2>3, <3>1 DEF S!open_ios
  <2> QED
    BY <1>3, <2>2, <2>3 DEF S!Mobile
<1>4. CASE \E a \in {None, App} : b = Desktops(env, a)
  <2>1. PICK a \in {None, App} : b = Desktops(env, a)
    BY <1>4
  <2>2. b.for = "desktop" /\ b.root = S!resolve_root(env, a)
    BY <2>1 DEF Desktops
  <2>3. Inside(b.root, scope, b.root \o S!ScopeDir(scope) \o key)
    BY <1>1, <2>2, RootsOfDesktops, KeysOpenInside
  <2> QED
    BY <2>2, <2>3 DEF S!resolve
<1> QED
  BY <1>2, <1>3, <1>4

LEMMA ReadAssetStep ==
  ASSUME StartInv, NEW scope \in S!Scopes, NEW raw \in Keys, S!ReadAsset(scope, raw)
  PROVE  StartInv'
<1> DEFINE key == S!normalise_key(os, raw)
           opened == CASE S!BackendRead.for = "android" -> S!open_android(scope, key)
                       [] S!BackendRead.for = "ios" -> S!open_ios(scope, key)
                       [] OTHER -> S!resolve(S!BackendRead.root, scope, key)
<1>1. UNCHANGED <<os, env, eager, at, appInfo, paths, hosts, declared, remotes, enforce, sink, global,
                  pump, state>>
  BY DEF S!ReadAsset, S!registry, S!transport
<1>2. Process' /\ OneRuns' /\ Registered' /\ \A x : Taken(x)' <=> Taken(x)
  BY <1>1, StayingPut
<1>3. CASE key = None
  <2>1. last' = [did |-> "asset", scope |-> scope, opened |-> None] /\ UNCHANGED <<backend, hasty>>
    BY <1>3 DEF S!ReadAsset
  <2>2. OwnPaths' /\ OwnBackend'
    BY <1>1, <1>2, <2>1 DEF StartInv, OwnPaths, OwnBackend, PlatformPaths, S!PlatformBackend, S!Mobile,
                            Desktops
  <2>3. last'.did = "asset" /\ last'.opened = None
    BY <2>1
  <2>4. Called' /\ Opened' /\ Crossed'
    BY <2>3 DEF Called, Opened, Crossed, S!CallsGoWhereTold, S!FramesKeepMeaning
  <2> QED
    BY <1>2, <2>2, <2>4 DEF StartInv
<1>4. CASE key # None
  <2>1. /\ last' = [did |-> "asset", scope |-> scope, opened |-> opened] /\ backend' = S!BackendRead
        /\ hasty' = hasty \cup (IF backend = None THEN {"assets"} ELSE {})
    BY <1>4 DEF S!ReadAsset
  <2>2. OwnBackend' /\ backend' # None
    BY <1>1, <1>2, <2>1, BackendIsRead
  <2>3. "paths" \in hasty' <=> "paths" \in hasty
    BY <2>1
  <2>4. OwnPaths'
    BY <1>1, <1>2, <2>3 DEF StartInv, OwnPaths, PlatformPaths, S!Mobile
  <2>5. Inside(S!BackendRead.root, scope, opened)
    BY <1>4, KeysStayInside, OpenedInside
  <2> HIDE DEF opened
  <2>6. last'.did = "asset" /\ last'.opened = opened /\ last'.scope = scope
    BY <2>1
  <2>7. Opened'
    BY <2>1, <2>2, <2>5, <2>6 DEF Opened, Inside
  <2>8. Called' /\ Crossed'
    BY <2>6 DEF Called, Crossed, S!CallsGoWhereTold, S!FramesKeepMeaning
  <2> QED
    BY <1>2, <2>2, <2>4, <2>7, <2>8 DEF StartInv
<1> QED
  BY <1>3, <1>4

LEMMA AcquireStep ==
  ASSUME StartInv, NEW p \in S!Plugins, S!Acquire(p)
  PROVE  StartInv'
<1>1. /\ last' = [did |-> "acquire", plugin |-> p, started |-> S!StartedUp,
                  ok |-> global # None /\ (enforce => p \in declared)]
      /\ UNCHANGED <<os, env, eager, at, appInfo, paths, backend, hasty, hosts, declared, remotes,
                     enforce, sink, global, pump, state>>
  BY DEF S!Acquire, S!cells, S!registry, S!transport
<1>2. Process' /\ OneRuns' /\ Registered' /\ OwnPaths' /\ OwnBackend'
  BY <1>1, StayingWhole
<1>3. /\ last'.did = "acquire" /\ last'.plugin = p /\ last'.started = S!StartedUp
      /\ last'.ok = (global # None /\ (enforce => p \in declared))
  BY <1>1
<1>4. Called'
  <2>1. ASSUME last'.ok, last'.started, os \in S!Mobile PROVE p \in Expected
    <3>1. Named("configure") /\ Named("finish")
      BY <2>1, StepsOfPlatforms
    <3>2. Taken("configure") /\ Taken("finish")
      BY <1>3, <2>1, <3>1, DoneMeans DEF StartInv
    <3>3. declared = Expected /\ enforce
      BY <3>2 DEF StartInv, Registered
    <3> QED
      BY <1>3, <2>1, <3>3
  <2>2. S!CallsGoWhereTold'
    BY <1>3 DEF S!CallsGoWhereTold
  <2>3. os' \in S!Mobile <=> os \in S!Mobile
    BY <1>1
  <2> QED
    BY <1>3, <2>1, <2>2, <2>3 DEF Called, S!Mobile
<1>5. Opened' /\ Crossed'
  BY <1>3 DEF Opened, Crossed, S!FramesKeepMeaning
<1> QED
  BY <1>2, <1>4, <1>5 DEF StartInv

LEMMA CallStep == StartInv /\ S!Call => StartInv'
<1> SUFFICES ASSUME StartInv, S!Call PROVE StartInv'
  OBVIOUS
<1> DEFINE to == IF last.plugin \in hosts THEN "host"
                 ELSE IF sink /\ last.plugin \in remotes THEN "remote"
                 ELSE "platform"
<1>1. /\ last # None /\ last.did = "acquire" /\ last.ok
      /\ last' = [did |-> "call", plugin |-> last.plugin, acquired |-> last.started,
                  started |-> S!StartedUp, to |-> to]
      /\ UNCHANGED <<os, env, eager, at, appInfo, paths, backend, hasty, hosts, declared, remotes,
                     enforce, sink, global, pump, state>>
  BY DEF S!Call, S!cells, S!registry, S!transport
<1>2. Process' /\ OneRuns' /\ Registered' /\ OwnPaths' /\ OwnBackend'
  BY <1>1, StayingWhole
<1>3. /\ last'.did = "call" /\ last'.plugin = last.plugin /\ last'.acquired = last.started
      /\ last'.started = S!StartedUp /\ last'.to = to
  BY <1>1
<1>4. Opened' /\ Crossed'
  BY <1>3 DEF Opened, Crossed, S!FramesKeepMeaning
<1>5. ASSUME S!StartedUp, last.started
      PROVE  /\ to = (IF last.plugin \in S!Range(Hosts) THEN "host"
                      ELSE IF os = "android" /\ last.plugin \in Remotes THEN "remote"
                      ELSE "platform")
             /\ os \in S!Mobile => last.plugin \in Expected
  <2>1. os \in S!Mobile \cup S!Desktop /\ Process /\ OneRuns /\ Registered
    BY DEF StartInv, Process
  <2>2. hosts = S!Range(Hosts)
    <3>1. Taken("hosted") /\ Taken("service")
      BY <1>5, <2>1, StepsOfPlatforms, DoneMeans
    <3>2. S!Range(Hosts) = {"hosted", "service"}
      BY DEF S!Range, Hosts
    <3> QED
      BY <2>1, <3>1, <3>2 DEF Registered, Process
  <2>3. os = "android" => sink /\ remotes = Remotes
    <3> SUFFICES ASSUME os = "android" PROVE sink /\ remotes = Remotes
      OBVIOUS
    <3>1. os \in S!Mobile
      BY DEF S!Mobile
    <3>2. Taken("sink") /\ Taken("configure")
      BY <1>5, <2>1, <3>1, StepsOfPlatforms, DoneMeans
    <3> QED
      BY <2>1, <3>2 DEF Registered
  <2>4. os # "android" => ~sink
    <3> SUFFICES ASSUME os # "android", Taken("sink") PROVE FALSE
      BY <2>1 DEF Registered
    <3>1. Named("sink")
      BY DEF Taken, Named
    <3> QED
      BY <2>1, <3>1, StepsOfPlatforms
  <2>5. os \in S!Mobile => last.plugin \in Expected
    BY <1>1, <1>5 DEF StartInv, Called
  <2> QED
    BY <2>2, <2>3, <2>4, <2>5
<1>6. Called'
  <2> HIDE DEF to
  <2>1. S!CallsGoWhereTold'
    BY <1>1, <1>3, <1>5 DEF S!CallsGoWhereTold, S!Mobile
  <2> QED
    BY <1>3, <2>1 DEF Called
<1> QED
  BY <1>2, <1>4, <1>6 DEF StartInv

LEMMA DeliverStep ==
  ASSUME StartInv, NEW frame \in S!Frames \cup S!SentFrames, S!DeliverFrame(frame)
  PROVE  StartInv'
<1> DEFINE args == IF os = "android" THEN S!AndroidDeliver(frame) ELSE S!IosDeliver(frame)
<1>1. /\ os \in S!Mobile
      /\ last' = [did |-> "deliver", frame |-> frame, args |-> args]
      /\ UNCHANGED <<os, env, eager, at, appInfo, paths, backend, hasty, hosts, declared, remotes,
                     enforce, sink, global, pump, state>>
  BY DEF S!DeliverFrame, S!cells, S!registry, S!transport
<1>2. Process' /\ OneRuns' /\ Registered' /\ OwnPaths' /\ OwnBackend'
  BY <1>1, StayingWhole
<1>3. last'.did = "deliver" /\ last'.frame = frame /\ last'.args = args
  BY <1>1
<1>4. args' = args
  BY <1>1
<1>5. Called' /\ Opened' /\ S!FramesKeepMeaning'
  BY <1>3 DEF Called, Opened, S!CallsGoWhereTold, S!FramesKeepMeaning
<1>6. Crossed'
  BY <1>1, <1>3, <1>5 DEF Crossed, S!Mobile
<1> QED
  BY <1>2, <1>5, <1>6 DEF StartInv

\* What was submitted is what was meant.
LEMMA ComesBack ==
  ASSUME StartInv, NEW frame, last' = [did |-> "submit", frame |-> frame, back |-> frame],
         UNCHANGED <<os, env, eager, at, appInfo, paths, backend, hasty, hosts, declared, remotes,
                     enforce, sink, global, pump, state>>
  PROVE  StartInv'
<1>1. Process' /\ OneRuns' /\ Registered' /\ OwnPaths' /\ OwnBackend'
  BY StayingWhole
<1>2. last'.did = "submit" /\ last'.frame = frame /\ last'.back = frame
  OBVIOUS
<1>3. Called' /\ Opened' /\ Crossed'
  BY <1>2 DEF Called, Opened, Crossed, S!CallsGoWhereTold, S!FramesKeepMeaning
<1> QED
  BY <1>1, <1>3 DEF StartInv

LEMMA SubmitFrameStep == StartInv /\ S!SubmitFrame => StartInv'
<1> SUFFICES ASSUME StartInv, S!SubmitFrame PROVE StartInv'
  OBVIOUS
<1>1. /\ last # None /\ last.did = "deliver" /\ last.frame \in S!Frames
      /\ last' = [did |-> "submit", frame |-> last.frame,
                  back |-> IF os = "android" THEN S!AndroidEntry(last.args)
                           ELSE S!IosEntry(last.args)]
      /\ UNCHANGED <<os, env, eager, at, appInfo, paths, backend, hasty, hosts, declared, remotes,
                     enforce, sink, global, pump, state>>
  BY DEF S!SubmitFrame, S!cells, S!registry, S!transport
<1>2. last.args = IF os = "android" THEN S!AndroidDeliver(last.frame) ELSE S!IosDeliver(last.frame)
  BY <1>1 DEF StartInv, Crossed
<1>3. (IF os = "android" THEN S!AndroidEntry(last.args) ELSE S!IosEntry(last.args)) = last.frame
  BY <1>1, <1>2, FramesComeBack
<1> QED
  BY <1>1, <1>3, ComesBack

LEMMA SubmitEarlyStep ==
  ASSUME StartInv, NEW frame \in S!EarlyFrames, S!SubmitEarly(frame)
  PROVE  StartInv'
<1> DEFINE back == IF frame.keeps = "latest"
                   THEN IF os = "android" THEN S!submit_early_latest(frame.body)
                        ELSE S!istmo_ios_submit_early_latest(frame.body)
                   ELSE IF os = "android" THEN S!submit_early_queue(frame.capacity, frame.body)
                   ELSE S!istmo_ios_submit_early_queue(frame.capacity, frame.body)
<1>1. /\ last' = [did |-> "submit", frame |-> frame, back |-> back]
      /\ UNCHANGED <<os, env, eager, at, appInfo, paths, backend, hasty, hosts, declared, remotes,
                     enforce, sink, global, pump, state>>
  BY DEF S!SubmitEarly, S!cells, S!registry, S!transport
<1>2. None \notin Bodies
  BY StartupsAssumption DEF S!StartupAssumption, S!NativeEntryAssumption
<1>3. CASE frame \in [kind : {"early"}, keeps : {"latest"}, body : Bodies]
  <2>1. frame.body # None /\ frame = [kind |-> "early", keeps |-> "latest", body |-> frame.body]
    BY <1>2, <1>3
  <2>2. frame.keeps = "latest"
    BY <1>3
  <2>3. back = frame
    BY <2>1, <2>2 DEF S!submit_early_latest, S!istmo_ios_submit_early_latest, S!copy_bytes
  <2> QED
    BY <1>1, <2>3, ComesBack
<1>4. CASE frame \in [kind : {"early"}, keeps : {"queue"}, capacity : S!Words, body : Bodies]
  <2>1. /\ frame.body # None /\ frame.keeps = "queue" /\ frame.capacity \in S!Words
        /\ frame = [kind |-> "early", keeps |-> "queue", capacity |-> frame.capacity,
                    body |-> frame.body]
    BY <1>2, <1>4
  <2>2. (IF frame.capacity <= 0 THEN 0 ELSE frame.capacity) = frame.capacity
    <3>1. frame.capacity \in Nat
      BY <2>1, StartupsAssumption DEF S!Words, S!StartupAssumption, S!NativeEntryAssumption
    <3> QED
      BY <3>1
  <2>3. back = frame
    BY <2>1, <2>2 DEF S!submit_early_queue, S!istmo_ios_submit_early_queue, S!copy_bytes
  <2> QED
    BY <1>1, <2>3, ComesBack
<1> QED
  BY <1>3, <1>4 DEF S!EarlyFrames

LEMMA ForgetStep == StartInv /\ S!Forget => StartInv'
<1> SUFFICES ASSUME StartInv, S!Forget PROVE StartInv'
  OBVIOUS
<1>1. /\ last' = None
      /\ UNCHANGED <<os, env, eager, at, appInfo, paths, backend, hasty, hosts, declared, remotes,
                     enforce, sink, global, pump, state>>
  BY DEF S!Forget, S!cells, S!registry, S!transport
<1>2. Process' /\ OneRuns' /\ Registered' /\ OwnPaths' /\ OwnBackend'
  BY <1>1, StayingWhole
<1>3. Called' /\ Opened' /\ Crossed'
  BY <1>1 DEF Called, Opened, Crossed, S!CallsGoWhereTold, S!FramesKeepMeaning
<1> QED
  BY <1>2, <1>3 DEF StartInv

LEMMA StartNext == StartInv /\ S!Next => StartInv'
BY InitStep, ConfigureStep, HostStep, FinishStep, SinkStep, AssetsStep, PathsStep, ShutdownStep,
   ReadDirectoryStep, ReadAssetStep, AcquireStep, CallStep, DeliverStep, SubmitFrameStep,
   SubmitEarlyStep, ForgetStep
DEF S!Next

-----------------------------------------------------------------------------
(* What it comes to.                                                       *)

LEMMA StartedWhole == StartInv => S!OneStart
<1> SUFFICES ASSUME StartInv PROVE S!OneStart
  OBVIOUS
<1> DEFINE past == {s \in Starters : at[s] \notin {0, None}}
<1>1. Cardinality(past) <= 1
  <2>1. past \subseteq {global}
    BY DEF StartInv, OneRuns
  <2>2. IsFiniteSet({global}) /\ Cardinality({global}) = 1
    BY FS_Singleton
  <2>3. Cardinality(past) <= Cardinality({global})
    BY <2>1, <2>2, FS_Subset
  <2> QED
    BY <2>2, <2>3
<1>2. S!Cardinality(past) <= 1
  BY <1>1, SameCardinality
<1>3. ASSUME os \in S!Mobile, S!StartedUp PROVE state /\ pump # "none" /\ hosts = S!Range(Hosts)
  <2>1. os \in S!Mobile \cup S!Desktop /\ Process /\ OneRuns /\ Registered
    BY DEF StartInv, Process
  <2>2. Taken("hosted") /\ Taken("service") /\ Taken("pump") /\ Taken("state")
    BY <1>3, <2>1, StepsOfPlatforms, DoneMeans
  <2>3. S!Range(Hosts) = {"hosted", "service"}
    BY DEF S!Range, Hosts
  <2> QED
    BY <2>1, <2>2, <2>3 DEF Registered, Process
<1> QED
  BY <1>2, <1>3 DEF S!OneStart

LEMMA ReadsOwn == StartInv => S!ReadsItsOwn
<1> SUFFICES ASSUME StartInv PROVE S!ReadsItsOwn
  OBVIOUS
<1>1. os \in S!Mobile \cup S!Desktop /\ Process /\ OneRuns /\ OwnPaths /\ OwnBackend
  BY DEF StartInv, Process
<1>2. ASSUME os \in S!Mobile, S!StartedUp
      PROVE  /\ "paths" \notin hasty => paths = PlatformPaths
             /\ "assets" \notin hasty => backend = S!PlatformBackend
  <2>1. Taken("paths") /\ Taken("assets")
    BY <1>1, <1>2, StepsOfPlatforms, DoneMeans
  <2> QED
    BY <1>1, <1>2, <2>1 DEF OwnPaths, OwnBackend
<1>3. ASSUME paths # None, os \in S!Mobile => "paths" \notin hasty,
             os = "ios" => {"ApplicationSupport", "Caches", "Document", "Library"} \subseteq env
      PROVE  S!DirectoriesApart(paths)
  <2>1. CASE os \in S!Mobile
    <3>1. paths = PlatformPaths
      BY <1>1, <1>3, <2>1 DEF OwnPaths
    <3>2. env \in Environments
      BY <1>1 DEF Process
    <3>3. \E E : \A k \in S!Kept, w \in S!Wiped : BothApart(E, PlatformPaths[w], PlatformPaths[k])
      <4>1. CASE os = "android"
        BY <3>2, <4>1, AndroidDirectories DEF PlatformPaths
      <4>2. CASE os = "ios"
        BY <1>3, <3>2, <4>2, IosDirectories DEF PlatformPaths
      <4> QED
        BY <2>1, <4>1, <4>2 DEF S!Mobile
    <3>4. os \notin S!Desktop
      BY <2>1 DEF S!Mobile, S!Desktop
    <3> QED
      BY <3>1, <3>3, <3>4, MobileApart
  <2>2. CASE os \notin S!Mobile
    <3>1. paths = S!default_paths(os, env, appInfo) /\ os \in S!Desktop
      BY <1>1, <1>3, <2>2 DEF OwnPaths
    <3>2. env \in Environments /\ appInfo \in {None, App}
      BY <1>1 DEF Process
    <3> QED
      BY <3>1, <3>2, DesktopApart
  <2> QED
    BY <2>1, <2>2
<1> QED
  BY <1>2, <1>3 DEF S!ReadsItsOwn, PlatformPaths

LEMMA StartIsWhole == StartInv => StartsWhole /\ FramesKeepMeaning
<1> SUFFICES ASSUME StartInv PROVE StartsWhole /\ FramesKeepMeaning
  OBVIOUS
<1>1. S!CallsGoWhereTold /\ S!FramesKeepMeaning
  BY DEF StartInv, Called, Crossed
<1>2. S!AssetsInside
  BY DEF StartInv, Opened, Inside, S!AssetsInside
<1> QED
  BY <1>1, <1>2, StartedWhole, ReadsOwn DEF StartsWhole, S!StartsWhole, FramesKeepMeaning

LEMMA StartInvAlways == BothSpec => []StartInv
<1>1. BothInit => StartInv
  BY InitStart DEF BothInit
<1>2. StartInv /\ [BothNext]_bothVars => StartInv'
  <2> SUFFICES ASSUME StartInv, [BothNext]_bothVars PROVE StartInv'
    OBVIOUS
  <2>1. CASE S!Next
    BY <2>1, StartNext
  <2>2. CASE UNCHANGED startupVars
    <3>1. /\ last' = last
          /\ UNCHANGED <<os, env, eager, at, appInfo, paths, backend, hasty, hosts, declared, remotes,
                         enforce, sink, global, pump, state>>
      BY <2>2 DEF startupVars
    <3>2. Process' /\ OneRuns' /\ Registered' /\ OwnPaths' /\ OwnBackend'
      BY <3>1, StayingWhole
    <3> QED
      BY <3>1, <3>2, LastKeeps DEF StartInv
  <2> QED
    BY <2>1, <2>2 DEF BothNext, Events, bothVars
<1> QED
  BY <1>1, <1>2, PTL DEF BothSpec

(* A process of the app comes up once and whole, wherever its starters are:   *)
(* one of them gets past Runtime::init; a mobile start that is done has its   *)
(* pump, its state and its hosts; a call made with a client acquired after it *)
(* goes to the host, over the bridge or to the platform as runtime! said; and *)
(* directories and assets are those of the platform and of the app unless it  *)
(* reads them too early, with nothing it keeps in a directory that is wiped   *)
(* and no asset opened outside the directory of its scope.                    *)
THEOREM StartsAlwaysWhole == BothSpec => []StartsWhole
<1>1. StartInv => StartsWhole
  BY StartIsWhole
<1> QED
  BY <1>1, StartInvAlways, PTL

(* A frame the pump hands to the platform and gets back through the native    *)
(* functions is the frame it was, on Android, where numbers are signed, and   *)
(* on iOS, and an early event arrives with the capacity it was given.         *)
THEOREM FramesAlwaysKeepMeaning == BothSpec => []FramesKeepMeaning
<1>1. StartInv => FramesKeepMeaning
  BY StartIsWhole
<1> QED
  BY <1>1, StartInvAlways, PTL
=============================================================================
