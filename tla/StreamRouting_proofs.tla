------------------------- MODULE StreamRouting_proofs -------------------------
(***************************************************************************)
(* Proofs about StreamRouting, for any streams, items, capacities, with or *)
(* without a shutdown.                                                     *)
(*                                                                         *)
(* What a consumer reads is in order because one thread at a time passes   *)
(* the items of a stream on, and it has passed on exactly what it took:    *)
(* Passed counts that.  The inductive invariant relates Passed to what was *)
(* delivered, on both of the ways an item can take: the bounded channel of *)
(* a stream of ours (Deliveries), or the outbound channel, which a stream  *)
(* of the peer shares with everything else (PeerFrames).                   *)
(***************************************************************************)
EXTENDS StreamRouting, SequenceTheorems, TLAPS

NoEnd(messages) == \A k \in DOMAIN messages : messages[k] \notin Ends

\* Items of s that have been passed on: the one in the hands of the pump thread, or
\* of the peer's injecting thread, not counted.
Passed(s) ==
  IF Hosted(s)
    THEN IF host[s] \in {"event", "lookup", "blocked", "send"} THEN taken[s] - 1 ELSE taken[s]
    ELSE IF peer[s] \in {"blocked", "blocked_cancelled"} THEN produced[s] - 1 ELSE produced[s]

IsItem(k, s) == outbound[k].kind = "Item" /\ outbound[k].stream = s
IsCall(k, s) == outbound[k].kind = "Call" /\ outbound[k].stream = s

\* A thread that passes an item on has one.
InHand ==
  /\ \A s \in AllStreams :
       host[s] \in {"event", "lookup", "blocked", "send"} => taken[s] > 0
  /\ \A s \in Streams : peer[s] \in {"blocked", "blocked_cancelled"} => produced[s] > 0

\* Who works on a stream of ours: its host or the peer, and nobody before it is open.
Roles ==
  \A s \in Streams :
    /\ hosted[s] => peer[s] = "none"
    /\ ~hosted[s] => host[s] = "none"
    /\ handle[s] \in {"idle", "registered"} =>
         host[s] = "none" /\ peer[s] = "none" /\ received[s] = <<>> /\ buffer[s] = <<>>
    /\ handle[s] = "idle" => s \notin pending
    /\ host[s] = "none" /\ peer[s] = "none" => produced[s] = 0 /\ taken[s] = 0 /\ s \notin closed

\* The peer is told of it once.
Calls ==
  \A s \in Streams :
    /\ \A k \in 1..Len(outbound) : IsCall(k, s) =>
         handle[s] \notin {"idle", "registered"} /\ ~hosted[s] /\ peer[s] = "none"
    /\ \A k, l \in 1..Len(outbound) : IsCall(k, s) /\ IsCall(l, s) => k = l

\* A thread that has the end of a stream in its hands has seen all of it.
Finished ==
  /\ \A s \in AllStreams :
       /\ taken[s] <= produced[s]
       /\ host[s] = "none" => taken[s] = 0
       /\ host[s] \in {"lookup", "blocked", "end_lookup", "end_blocked"} => s \in Streams
       /\ host[s] \in {"ending", "end_lookup", "end_blocked", "end_send"} =>
            s \in closed /\ taken[s] = produced[s]
  /\ \A s \in Streams :
       peer[s] \in {"serving", "blocked", "cancelled", "blocked_cancelled"} => s \notin closed

\* The registration is gone for good once the end was handled.
Unregistered ==
  \A s \in Streams :
    /\ peer[s] \in {"end_blocked", "ended"} => s \notin pending
    /\ host[s] \in {"send", "end_blocked", "end_send", "done"} => s \notin pending

\* While somebody can still send, the consumer was given what was passed on, and
\* no end.
Delivers(s) ==
  /\ IsOrdered(Delivered(s))
  /\ AllBefore(s, Delivered(s))
  /\ SenderAlive(s) =>
       /\ NoEnd(Delivered(s))
       /\ handle[s] # "dropped" => Len(Delivered(s)) = Passed(s)

Deliveries == \A s \in Streams : Delivers(s)

\* What the peer was sent of a stream it opened is in order, and ends last.
PeerGot(s) ==
  /\ IsOrdered(peer_got[s])
  /\ AllBefore(s, peer_got[s])
  /\ NoEnd(peer_got[s]) => Len(peer_got[s]) <= Passed(s)
  /\ ~NoEnd(peer_got[s]) => host[s] = "done"

\* The frames on their way to it come after that, up to what was passed on, or end
\* the stream.
InFlight(s) ==
  \A k \in 1..Len(outbound) :
    IsItem(k, s) =>
      /\ NoEnd(peer_got[s])
      /\ outbound[k].message \in Ends => host[s] = "done"
      /\ outbound[k].message = Complete => s \in closed /\ taken[s] = produced[s]
      /\ \A j \in 1..MaxItems :
           outbound[k].message = Event(j) => Len(peer_got[s]) < j /\ j <= Passed(s)

\* They are in order ...
Increasing(s) ==
  \A k, l \in 1..Len(outbound) :
    k < l /\ IsItem(k, s) /\ IsItem(l, s) =>
      /\ outbound[k].message \notin Ends
      /\ \A i, j \in 1..MaxItems :
           outbound[k].message = Event(i) /\ outbound[l].message = Event(j) => i < j

\* ... and none is missing.
NoneMissing(s) ==
  phase # "down" /\ NoEnd(peer_got[s]) =>
    \A j \in 1..MaxItems :
      Len(peer_got[s]) < j /\ j <= Passed(s) =>
        \E k \in 1..Len(outbound) : IsItem(k, s) /\ outbound[k].message = Event(j)

Frames(s) == PeerGot(s) /\ InFlight(s) /\ Increasing(s) /\ NoneMissing(s)

PeerFrames == \A s \in PeerStreams : Frames(s)

\* What the tables and the phases of the threads say of each other.
Tables == RegistrationHasHandle /\ Roles /\ Calls /\ Finished /\ Unregistered

StreamInv == TypeOK /\ InHand /\ Tables /\ Deliveries /\ PeerFrames
-----------------------------------------------------------------------------
(* Messages and sequences of messages.                                     *)

\* The kinds of messages are told apart, and events by their numbers.
LEMMA Tags ==
  /\ Complete \in Ends /\ Closed \in Ends /\ Cancelled \in Ends /\ Failure \in Ends
  /\ Complete # Closed /\ Complete # Cancelled /\ Complete # Failure
  /\ Closed # Cancelled /\ Closed # Failure
  /\ \A n : Event(n) \notin Ends
  /\ \A i, j : Event(i) = Event(j) => i = j
  /\ Ends \subseteq Message
  /\ \A n \in 1..MaxItems : Event(n) \in Message
  /\ \A m \in Message \ Ends : \E n \in 1..MaxItems : m = Event(n)
BY DEF Ends, Event, Complete, Closed, Cancelled, Failure, Message

\* Appending to a sequence.
LEMMA Appending ==
  ASSUME NEW S, NEW m \in Seq(S), NEW x \in S
  PROVE  /\ Append(m, x) \in Seq(S)
         /\ Len(Append(m, x)) = Len(m) + 1
         /\ DOMAIN m = 1..Len(m) /\ Len(m) \in Nat
         /\ DOMAIN Append(m, x) = 1..(Len(m) + 1)
         /\ \A k \in 1..Len(m) : Append(m, x)[k] = m[k]
         /\ Append(m, x)[Len(m) + 1] = x
BY AppendProperties, LenProperties

\* An item in its place, after items only, leaves a stream in order.
LEMMA AppendEvent ==
  ASSUME NEW m \in Seq(Message), IsOrdered(m), NoEnd(m), Event(Len(m) + 1) \in Message
  PROVE  LET n == Append(m, Event(Len(m) + 1)) IN
         IsOrdered(n) /\ NoEnd(n) /\ Len(n) = Len(m) + 1
<1> DEFINE x == Event(Len(m) + 1)
           n == Append(m, x)
<1>1. /\ n \in Seq(Message) /\ Len(n) = Len(m) + 1 /\ Len(m) \in Nat
      /\ DOMAIN m = 1..Len(m) /\ DOMAIN n = 1..(Len(m) + 1)
      /\ \A k \in 1..Len(m) : n[k] = m[k]
      /\ n[Len(m) + 1] = x
  BY Appending
<1>2. \A k \in 1..Len(m) : m[k] = Event(k)
  BY <1>1 DEF IsOrdered, NoEnd
<1>3. \A k \in 1..(Len(m) + 1) : n[k] = Event(k)
  <2> SUFFICES ASSUME NEW k \in 1..(Len(m) + 1) PROVE n[k] = Event(k)
    OBVIOUS
  <2>1. CASE k = Len(m) + 1
    BY <2>1, <1>1
  <2>2. CASE k \in 1..Len(m)
    BY <2>2, <1>1, <1>2
  <2> QED BY <2>1, <2>2, <1>1
<1>4. IsOrdered(n)
  BY <1>1, <1>3 DEF IsOrdered
<1>5. NoEnd(n)
  BY <1>1, <1>3, Tags DEF NoEnd
<1> QED BY <1>1, <1>4, <1>5

\* So does an end after items only.
LEMMA AppendEnd ==
  ASSUME NEW m \in Seq(Message), IsOrdered(m), NoEnd(m), NEW x \in Ends
  PROVE  /\ IsOrdered(Append(m, x))
         /\ \A k \in DOMAIN Append(m, x) : Append(m, x)[k] = Complete => x = Complete /\ k = Len(m) + 1
<1> DEFINE n == Append(m, x)
<1>1. /\ n \in Seq(Message) /\ Len(n) = Len(m) + 1 /\ Len(m) \in Nat
      /\ DOMAIN m = 1..Len(m) /\ DOMAIN n = 1..(Len(m) + 1)
      /\ \A k \in 1..Len(m) : n[k] = m[k]
      /\ n[Len(m) + 1] = x
  BY Appending, Tags
<1>2. \A k \in 1..Len(m) : n[k] = Event(k) /\ n[k] \notin Ends
  BY <1>1 DEF IsOrdered, NoEnd
<1>3. \A k \in 1..(Len(m) + 1) : k \in 1..Len(m) \/ k = Len(m) + 1
  BY <1>1
<1>4. \A j \in (Len(m) + 1 + 1)..Len(n) : FALSE
  BY <1>1
<1>5. IsOrdered(n)
  BY <1>1, <1>2, <1>3, <1>4 DEF IsOrdered
<1>6. \A k \in DOMAIN n : n[k] = Complete => x = Complete /\ k = Len(m) + 1
  BY <1>1, <1>2, <1>3, Tags
<1> QED BY <1>5, <1>6

\* ChannelClosed may come after whatever was delivered, once.
LEMMA AppendClosed ==
  ASSUME NEW m \in Seq(Message), IsOrdered(m), \A k \in DOMAIN m : m[k] # Closed
  PROVE  /\ IsOrdered(Append(m, Closed))
         /\ \A k \in DOMAIN Append(m, Closed) :
              Append(m, Closed)[k] = Complete => k \in DOMAIN m /\ m[k] = Complete
<1> DEFINE n == Append(m, Closed)
<1>1. /\ n \in Seq(Message) /\ Len(n) = Len(m) + 1 /\ Len(m) \in Nat
      /\ DOMAIN m = 1..Len(m) /\ DOMAIN n = 1..(Len(m) + 1)
      /\ \A k \in 1..Len(m) : n[k] = m[k]
      /\ n[Len(m) + 1] = Closed
  BY Appending, Tags
<1>2. IsOrdered(n)
  <2> SUFFICES ASSUME NEW k \in 1..(Len(m) + 1), n[k] # Event(k)
               PROVE  /\ n[k] \in Ends
                      /\ \A j \in (k + 1)..Len(n) : n[j] = Closed /\ n[k] # Closed
    BY <1>1 DEF IsOrdered
  <2>1. CASE k = Len(m) + 1
    BY <2>1, <1>1, Tags
  <2>2. CASE k \in 1..Len(m)
    <3>1. /\ m[k] \in Ends /\ m[k] # Closed
          /\ \A j \in (k + 1)..Len(m) : m[j] = Closed
      BY <2>2, <1>1 DEF IsOrdered
    <3>2. k = Len(m)
      <4> Len(m) \in Nat
        BY <1>1
      <4>1. CASE k < Len(m)
        <5>1. k + 1 \in 1..Len(m) /\ k + 1 \in (k + 1)..Len(m)
          BY <4>1, <1>1
        <5>2. m[k + 1] = Closed /\ k + 1 \in DOMAIN m
          BY <5>1, <3>1, <1>1
        <5> QED BY <5>2
      <4> QED BY <4>1, <2>2
    <3>3. \A j \in (k + 1)..Len(n) : j = Len(m) + 1
      BY <3>2, <1>1
    <3> QED BY <2>2, <3>1, <3>3, <1>1
  <2> QED BY <2>1, <2>2, <1>1
<1>3. \A k \in DOMAIN n : n[k] = Complete => k \in DOMAIN m /\ m[k] = Complete
  BY <1>1, Tags
<1> QED BY <1>2, <1>3

\* The head of the buffer moves to what was received.
LEMMA MoveHead ==
  ASSUME NEW S, NEW r \in Seq(S), NEW b \in Seq(S), b # <<>>
  PROVE  Append(r, Head(b)) \o Tail(b) = r \o b
<1>1. /\ Head(b) \in S /\ Tail(b) \in Seq(S) /\ Head(b) = b[1]
      /\ Len(Tail(b)) = Len(b) - 1
      /\ \A i \in 1..Len(Tail(b)) : Tail(b)[i] = b[i + 1]
      /\ Len(b) \in Nat \ {0} /\ Len(r) \in Nat
  BY HeadTailProperties, EmptySeq, LenProperties
<1>2. /\ Append(r, Head(b)) \in Seq(S)
      /\ Len(Append(r, Head(b))) = Len(r) + 1
      /\ \A k \in 1..Len(r) : Append(r, Head(b))[k] = r[k]
      /\ Append(r, Head(b))[Len(r) + 1] = b[1]
  BY <1>1, Appending
<1> DEFINE s == Append(r, Head(b)) \o Tail(b)
           t == r \o b
<1>3. /\ s \in Seq(S) /\ t \in Seq(S)
      /\ Len(s) = Len(r) + Len(b) /\ Len(t) = Len(r) + Len(b)
  BY <1>1, <1>2, ConcatProperties
<1>4. \A i \in 1..Len(s) : s[i] = t[i]
  <2> SUFFICES ASSUME NEW i \in 1..(Len(r) + Len(b)) PROVE s[i] = t[i]
    BY <1>3
  <2>1. s[i] = IF i <= Len(r) + 1 THEN Append(r, Head(b))[i] ELSE Tail(b)[i - (Len(r) + 1)]
    BY <1>1, <1>2, ConcatProperties
  <2>2. t[i] = IF i <= Len(r) THEN r[i] ELSE b[i - Len(r)]
    BY <1>1, ConcatProperties
  <2> QED BY <2>1, <2>2, <1>1, <1>2
<1> QED BY <1>3, <1>4, SeqEqual

\* What is pushed comes last.
LEMMA PushLast ==
  ASSUME NEW r \in Seq(Message), NEW b \in Seq(Message), NEW x \in Message
  PROVE  r \o Append(b, x) = Append(r \o b, x)
<1>1. /\ b \o <<x>> = Append(b, x) /\ (r \o b) \o <<x>> = Append(r \o b, x)
      /\ <<x>> \in Seq(Message) /\ r \o b \in Seq(Message)
  BY AppendIsConcat, ConcatProperties
<1> QED BY <1>1, ConcatAssociative
-----------------------------------------------------------------------------
(* Types.                                                                  *)

TypeInv == TypeOK /\ InHand

LEMMA InitType == Init => TypeInv
BY StreamRoutingAssumption DEF Init, TypeInv, TypeOK, InHand, HandlePhase, HostPhase, PeerPhase

\* What may be sent is a frame, and the channel stays within its bounds.
LEMMA SendType ==
  ASSUME TypeOK, NEW kind \in {"Call", "Cancel", "Item"}, NEW s \in AllStreams,
         NEW message \in Message, send_outbound(kind, s, message)
  PROVE  outbound' \in Seq(Frame) /\ Len(outbound') <= OutboundCap
<1>1. [kind |-> kind, stream |-> s, message |-> message] \in Frame
  BY DEF Frame
<1>2. CASE Enqueue(kind, s, message)
  BY <1>1, <1>2, Appending, StreamRoutingAssumption DEF Enqueue, TypeOK
<1>3. CASE UNCHANGED outbound
  BY <1>3 DEF TypeOK
<1> QED BY <1>2, <1>3 DEF send_outbound

\* So does a stream's channel.
LEMMA PushType ==
  ASSUME TypeOK, NEW s \in Streams, NEW message \in Message, Push(s, message)
  PROVE  /\ buffer' \in [Streams -> Seq(Message)]
         /\ \A t \in Streams : Capacity = 0 \/ Len(buffer'[t]) <= Capacity
<1>1. buffer[s] \in Seq(Message)
  BY DEF TypeOK
<1>2. /\ Append(buffer[s], message) \in Seq(Message)
      /\ Len(Append(buffer[s], message)) = Len(buffer[s]) + 1
      /\ Len(buffer[s]) \in Nat
  BY <1>1, Appending
<1>3. CASE /\ Capacity = 0 \/ Len(buffer[s]) < Capacity
           /\ buffer' = [buffer EXCEPT ![s] = Append(@, message)]
  <2>1. buffer' \in [Streams -> Seq(Message)]
    BY <1>2, <1>3 DEF TypeOK
  <2>2. \A t \in Streams : buffer'[t] = IF t = s THEN Append(buffer[s], message) ELSE buffer[t]
    BY <1>3 DEF TypeOK
  <2>3. Capacity = 0 \/ Len(buffer'[s]) <= Capacity
    BY <1>2, <1>3, <2>2, StreamRoutingAssumption
  <2>4. \A t \in Streams \ {s} : Capacity = 0 \/ Len(buffer'[t]) <= Capacity
    BY <2>2 DEF TypeOK
  <2> QED BY <2>1, <2>3, <2>4
<1>4. CASE UNCHANGED buffer
  BY <1>4 DEF TypeOK
<1> QED BY <1>3, <1>4 DEF Push

LEMMA NextType == TypeInv /\ [Next]_vars => TypeInv'
<1> SUFFICES ASSUME TypeInv, [Next]_vars PROVE TypeInv'
  OBVIOUS
<1> USE StreamRoutingAssumption
    DEF consumerVars, tokenVars, producerVars, HandlePhase, HostPhase, PeerPhase, TypeInv, InHand
<1> AllStreams = Streams \cup PeerStreams
  BY DEF AllStreams
<1>1. ASSUME NEW s \in Streams, Register(s) PROVE TypeInv'
  BY <1>1 DEF TypeOK, Register
<1>2. ASSUME NEW s \in Streams, OpenHosted(s) PROVE TypeInv'
  BY <1>2 DEF TypeOK, OpenHosted, SpawnDispatch
<1>3. ASSUME NEW s \in Streams, OpenPeer(s) PROVE TypeInv'
  <2>1. outbound' \in Seq(Frame) /\ Len(outbound') <= OutboundCap
    BY <1>3, SendType, Tags DEF OpenPeer, send_outbound
  <2> QED BY <1>3, <2>1 DEF TypeOK, OpenPeer
<1>4. ASSUME NEW s \in Streams, CancelStream(s) PROVE TypeInv'
  <2>1. outbound' \in Seq(Frame) /\ Len(outbound') <= OutboundCap
    BY <1>4, SendType, Tags DEF CancelStream
  <2>2. <<>> \in Seq(Message) /\ Len(<<>>) = 0
    BY EmptySeq
  <2> QED BY <1>4, <2>1, <2>2 DEF TypeOK, CancelStream
<1>5. ASSUME NEW s \in Streams, Recv(s) PROVE TypeInv'
  <2>1. buffer[s] \in Seq(Message) /\ received[s] \in Seq(Message)
    BY DEF TypeOK
  <2>2. CASE buffer[s] # <<>> /\ received' = [received EXCEPT ![s] = Append(@, Head(buffer[s]))]
             /\ buffer' = [buffer EXCEPT ![s] = Tail(@)]
    <3>1. /\ Head(buffer[s]) \in Message /\ Tail(buffer[s]) \in Seq(Message)
          /\ Len(Tail(buffer[s])) = Len(buffer[s]) - 1 /\ Len(buffer[s]) \in Nat
      BY <2>1, <2>2, HeadTailProperties, LenProperties
    <3>2. Append(received[s], Head(buffer[s])) \in Seq(Message)
      BY <2>1, <3>1, Appending
    <3>3. /\ buffer' \in [Streams -> Seq(Message)] /\ received' \in [Streams -> Seq(Message)]
          /\ \A t \in Streams : buffer'[t] = IF t = s THEN Tail(buffer[s]) ELSE buffer[t]
      BY <2>2, <3>1, <3>2 DEF TypeOK
    <3>4. \A t \in Streams : Capacity = 0 \/ Len(buffer'[t]) <= Capacity
      <4>1. Capacity = 0 \/ Len(buffer'[s]) <= Capacity
        BY <3>1, <3>3 DEF TypeOK
      <4>2. \A t \in Streams \ {s} : Capacity = 0 \/ Len(buffer'[t]) <= Capacity
        BY <3>3 DEF TypeOK
      <4> QED BY <4>1, <4>2
    <3> QED BY <1>5, <3>3, <3>4 DEF TypeOK, Recv
  <2>3. CASE received' = [received EXCEPT ![s] = Append(@, Closed)] /\ UNCHANGED buffer
    <3>1. Append(received[s], Closed) \in Seq(Message)
      BY <2>1, Appending, Tags
    <3> QED BY <1>5, <2>3, <3>1 DEF TypeOK, Recv
  <2> QED BY <1>5, <2>2, <2>3 DEF Recv
<1>6. ASSUME NEW s \in Streams, DropHandle(s) PROVE TypeInv'
  BY <1>6 DEF TypeOK, DropHandle
<1>7. ASSUME NEW s \in Streams, PushHosted(s) PROVE TypeInv'
  <2>1. CASE host[s] = "blocked" /\ Push(s, Event(taken[s]))
             /\ host' = [host EXCEPT ![s] = "pumping"]
    <3>1. Event(taken[s]) \in Message
      BY <2>1, Tags DEF TypeOK
    <3> QED BY <1>7, <2>1, <3>1, PushType DEF TypeOK, PushHosted
  <2>2. CASE Push(s, Complete) /\ host' = [host EXCEPT ![s] = "done"]
    BY <1>7, <2>2, PushType, Tags DEF TypeOK, PushHosted
  <2> QED BY <1>7, <2>1, <2>2 DEF PushHosted
<1>8. ASSUME NEW s \in Streams, PeerEmit(s) PROVE TypeInv'
  <2>1. CASE /\ produced[s] < MaxItems
             /\ produced' = [produced EXCEPT ![s] = @ + 1]
             /\ peer' = [peer EXCEPT ![s] = IF s \in pending THEN "blocked" ELSE "serving"]
             /\ UNCHANGED <<closed, pending>>
    <3>1. produced[s] \in Nat /\ produced[s] + 1 \in 0..MaxItems
      BY <2>1 DEF TypeOK
    <3>2. produced' \in [AllStreams -> 0..MaxItems]
      BY <2>1, <3>1 DEF TypeOK
    <3>3. \A t \in AllStreams : produced'[t] = IF t = s THEN produced[s] + 1 ELSE produced[t]
      BY <2>1 DEF TypeOK
    <3>4. \A t \in Streams : peer'[t] \in {"blocked", "blocked_cancelled"} => produced'[t] > 0
      BY <2>1, <3>1, <3>3 DEF TypeOK
    <3> QED BY <1>8, <2>1, <3>2, <3>3, <3>4 DEF TypeOK, PeerEmit
  <2>2. CASE UNCHANGED produced
    <3>1. /\ peer' \in [Streams -> PeerPhase]
          /\ \A t \in Streams : peer'[t] \in {"blocked", "blocked_cancelled"} =>
                                 peer[t] \in {"blocked", "blocked_cancelled"}
      <4>1. \/ peer' = [peer EXCEPT ![s] = IF s \in pending THEN "end_blocked" ELSE "ended"]
            \/ peer' = [peer EXCEPT ![s] = "ended"]
            \/ peer' = [peer EXCEPT ![s] = "cancelled"]
            \/ produced' = [produced EXCEPT ![s] = @ + 1]
        BY <1>8 DEF PeerEmit
      <4>2. produced[s] \in Nat /\ s \in DOMAIN produced
            /\ produced' # [produced EXCEPT ![s] = @ + 1]
        BY <2>2 DEF TypeOK
      <4>3. PICK x \in {"end_blocked", "ended", "cancelled"} : peer' = [peer EXCEPT ![s] = x]
        BY <4>1, <4>2
      <4>4. peer \in [Streams -> PeerPhase]
        BY DEF TypeOK
      <4> QED BY <4>3, <4>4
    <3>2. pending' \subseteq Streams /\ closed' \subseteq AllStreams
      BY <1>8 DEF TypeOK, PeerEmit
    <3> QED BY <1>8, <2>2, <3>1, <3>2 DEF TypeOK, PeerEmit
  <2> QED BY <1>8, <2>1, <2>2 DEF PeerEmit
<1>9. ASSUME NEW s \in Streams, PeerEmitCancelled(s) PROVE TypeInv'
  BY <1>9 DEF TypeOK, PeerEmitCancelled
<1>10. ASSUME NEW s \in Streams, PeerPush(s) PROVE TypeInv'
  <2>1. CASE /\ peer[s] \in {"blocked", "blocked_cancelled"} /\ Push(s, Event(produced[s]))
             /\ peer' = [peer EXCEPT ![s] = IF @ = "blocked" THEN "serving" ELSE "cancelled"]
    <3>1. Event(produced[s]) \in Message
      BY <2>1, Tags DEF TypeOK
    <3> QED BY <1>10, <2>1, <3>1, PushType DEF TypeOK, PeerPush
  <2>2. CASE Push(s, IF s \in closed THEN Complete ELSE Cancelled)
             /\ peer' = [peer EXCEPT ![s] = "ended"]
    BY <1>10, <2>2, PushType, Tags DEF TypeOK, PeerPush
  <2> QED BY <1>10, <2>1, <2>2 DEF PeerPush
<1>11. ASSUME NEW s \in AllStreams, OpenStream(s) PROVE TypeInv'
  BY <1>11 DEF TypeOK, OpenStream
<1>12. ASSUME NEW s \in AllStreams, Respond(s) PROVE TypeInv'
  <2>1. outbound' \in Seq(Frame) /\ Len(outbound') <= OutboundCap
    BY <1>12, SendType, Tags DEF Respond, TypeOK
  <2> QED BY <1>12, <2>1 DEF TypeOK, Respond
<1>13. ASSUME NEW s \in AllStreams, Take(s) PROVE TypeInv'
  <2>1. CASE /\ taken[s] < produced[s]
             /\ taken' = [taken EXCEPT ![s] = @ + 1]
             /\ host' = [host EXCEPT ![s] = "event"]
    <3>1. taken[s] \in 0..MaxItems /\ produced[s] \in 0..MaxItems
      BY DEF TypeOK
    <3>2. taken[s] + 1 \in 0..MaxItems /\ taken[s] + 1 > 0
      BY <2>1, <3>1
    <3>3. taken' \in [AllStreams -> 0..MaxItems]
      BY <2>1, <3>2 DEF TypeOK
    <3>4. \A t \in AllStreams : host'[t] \in {"event", "lookup", "blocked", "send"} => taken'[t] > 0
      BY <2>1, <3>2 DEF TypeOK
    <3> QED BY <1>13, <2>1, <3>3, <3>4 DEF TypeOK, Take
  <2>2. CASE host' = [host EXCEPT ![s] = "ending"] /\ UNCHANGED taken
    BY <1>13, <2>2 DEF TypeOK, Take
  <2> QED BY <1>13, <2>1, <2>2 DEF Take
<1>14. ASSUME NEW s \in AllStreams, RouteEvent(s) PROVE TypeInv'
  BY <1>14 DEF TypeOK, RouteEvent
<1>15. ASSUME NEW s \in AllStreams, LookUp(s) PROVE TypeInv'
  BY <1>15 DEF TypeOK, LookUp
<1>16. ASSUME NEW s \in AllStreams, LookUpEnd(s) PROVE TypeInv'
  BY <1>16 DEF TypeOK, LookUpEnd
<1>17. ASSUME NEW s \in AllStreams, SendItem(s) PROVE TypeInv'
  <2>1. outbound' \in Seq(Frame) /\ Len(outbound') <= OutboundCap
    BY <1>17, SendType, Tags DEF SendItem, TypeOK
  <2> QED BY <1>17, <2>1 DEF TypeOK, SendItem
<1>18. ASSUME NEW s \in AllStreams, Produce(s) PROVE TypeInv'
  <2>1. CASE produced[s] < MaxItems /\ produced' = [produced EXCEPT ![s] = @ + 1]
             /\ UNCHANGED closed
    <3>1. produced[s] \in Nat /\ produced[s] + 1 \in 0..MaxItems
      BY <2>1 DEF TypeOK
    <3>2. produced' \in [AllStreams -> 0..MaxItems]
      BY <2>1, <3>1 DEF TypeOK
    <3>3. \A t \in AllStreams : produced[t] > 0 => produced'[t] > 0
      BY <2>1, <3>1 DEF TypeOK
    <3> QED BY <1>18, <2>1, <3>2, <3>3 DEF TypeOK, Produce
  <2>2. CASE closed' = closed \cup {s} /\ UNCHANGED produced
    BY <1>18, <2>2 DEF TypeOK, Produce
  <2> QED BY <1>18, <2>1, <2>2 DEF Produce
<1>19. ASSUME NEW s \in PeerStreams, PeerOpen(s) PROVE TypeInv'
  BY <1>19 DEF TypeOK, PeerOpen, SpawnDispatch
<1>20. ASSUME NEW s \in PeerStreams, PeerCancel(s) PROVE TypeInv'
  BY <1>20 DEF TypeOK, PeerCancel
<1>21. CASE Pump
  <2>1. /\ Head(outbound) \in Frame /\ Tail(outbound) \in Seq(Frame)
        /\ Len(Tail(outbound)) = Len(outbound) - 1 /\ Len(outbound) \in Nat
    BY <1>21, HeadTailProperties, LenProperties DEF Pump, TypeOK
  <2> DEFINE frame == Head(outbound)
             t == frame.stream
  <2>2. t \in AllStreams /\ frame.message \in Message /\ frame.kind \in {"Call", "Cancel", "Item"}
    BY <2>1 DEF Frame
  <2>3. peer' \in [Streams -> PeerPhase]
    <3>1. CASE frame.kind = "Call" /\ peer' = [peer EXCEPT ![t] = "serving"]
      BY <3>1 DEF TypeOK
    <3>2. CASE peer' = [peer EXCEPT ![t] = CASE @ = "serving" -> "cancelled"
                                             [] @ = "blocked" -> "blocked_cancelled"
                                             [] OTHER -> @]
      BY <3>2 DEF TypeOK
    <3>3. CASE UNCHANGED peer
      BY <3>3 DEF TypeOK
    <3> QED BY <1>21, <3>1, <3>2, <3>3 DEF Pump, PeerReceives
  <2>4. \A s \in Streams : peer'[s] \in {"blocked", "blocked_cancelled"} =>
                             peer[s] \in {"blocked", "blocked_cancelled"}
    <3>1. \/ UNCHANGED peer
          \/ peer' = [peer EXCEPT ![t] = "serving"]
          \/ peer' = [peer EXCEPT ![t] = CASE @ = "serving" -> "cancelled"
                                            [] @ = "blocked" -> "blocked_cancelled"
                                            [] OTHER -> @]
      BY <1>21 DEF Pump, PeerReceives
    <3>2. peer \in [Streams -> PeerPhase]
      BY DEF TypeOK
    <3> QED BY <3>1, <3>2
  <2>5. peer_got' \in [PeerStreams -> Seq(Message)]
    <3>1. CASE t \in PeerStreams
      <4>1. Append(peer_got[t], frame.message) \in Seq(Message)
        BY <2>2, <3>1, Appending DEF TypeOK
      <4>2. \/ UNCHANGED peer_got
            \/ peer_got' = [peer_got EXCEPT ![t] = Append(@, frame.message)]
        BY <1>21, <3>1 DEF Pump, PeerReceives
      <4>3. peer_got \in [PeerStreams -> Seq(Message)]
        BY DEF TypeOK
      <4> QED BY <3>1, <4>1, <4>2, <4>3
    <3>2. CASE t \notin PeerStreams
      BY <1>21, <3>2 DEF Pump, PeerReceives, TypeOK
    <3> QED BY <3>1, <3>2
  <2> QED BY <1>21, <2>1, <2>3, <2>4, <2>5 DEF TypeOK, Pump
<1>22. CASE Shutdown
  BY <1>22 DEF TypeOK, Shutdown
<1>23. CASE StopPump
  <2>1. <<>> \in Seq(Frame) /\ Len(<<>>) = 0
    BY EmptySeq
  <2> QED BY <1>23, <2>1 DEF TypeOK, StopPump
<1>24. CASE UNCHANGED vars
  BY <1>24 DEF TypeOK, vars
<1> QED
  BY <1>1, <1>2, <1>3, <1>4, <1>5, <1>6, <1>7, <1>8, <1>9, <1>10, <1>11, <1>12, <1>13, <1>14,
     <1>15, <1>16, <1>17, <1>18, <1>19, <1>20, <1>21, <1>22, <1>23, <1>24
     DEF Next, HandleStep, HostStep, PeerStep

\* The variables keep their types, whatever the capacities.
THEOREM TypeCorrect == Spec => []TypeOK
<1>1. TypeInv => TypeOK
  BY DEF TypeInv
<1> QED BY <1>1, InitType, NextType, PTL DEF Spec
-----------------------------------------------------------------------------
(* The tables.                                                             *)

\* The types that matter to them.
SmallTypes ==
  /\ pending \subseteq Streams
  /\ handle \in [Streams -> HandlePhase]
  /\ hosted \in [Streams -> BOOLEAN]
  /\ host \in [AllStreams -> HostPhase]
  /\ produced \in [AllStreams -> Nat]
  /\ taken \in [AllStreams -> Nat]
  /\ closed \subseteq AllStreams
  /\ peer \in [Streams -> PeerPhase]

LEMMA Small == TypeOK => SmallTypes
BY StreamRoutingAssumption DEF TypeOK, SmallTypes

\* The outbound channel after a send: the frames it had, and perhaps one more.
LEMMA SendFrames ==
  ASSUME TypeOK, NEW kind \in {"Call", "Cancel", "Item"}, NEW s \in AllStreams,
         NEW message \in Message, send_outbound(kind, s, message)
  PROVE  /\ Len(outbound) \in Nat /\ Len(outbound') \in Nat
         /\ \A k \in 1..Len(outbound) : k \in 1..Len(outbound') /\ outbound'[k] = outbound[k]
         /\ \/ outbound' = outbound /\ phase = "down"
            \/ /\ Len(outbound') = Len(outbound) + 1
               /\ outbound'[Len(outbound) + 1] = [kind |-> kind, stream |-> s, message |-> message]
               /\ \A k \in 1..Len(outbound') : k \in 1..Len(outbound) \/ k = Len(outbound) + 1
<1>1. [kind |-> kind, stream |-> s, message |-> message] \in Frame /\ outbound \in Seq(Frame)
  BY DEF Frame, TypeOK
<1>2. CASE Enqueue(kind, s, message)
  BY <1>1, <1>2, Appending DEF Enqueue
<1>3. CASE phase = "down" /\ UNCHANGED outbound
  BY <1>1, <1>3, LenProperties
<1> QED BY <1>2, <1>3 DEF send_outbound

\* The outbound channel after a turn of the pump: all frames but the first.
LEMMA PumpFrames ==
  ASSUME TypeOK, Pump
  PROVE  /\ Len(outbound) \in Nat /\ Len(outbound) > 0
         /\ Head(outbound) = outbound[1] /\ outbound[1] \in Frame
         /\ Len(outbound') = Len(outbound) - 1
         /\ \A k \in 1..Len(outbound') : k + 1 \in 1..Len(outbound) /\ outbound'[k] = outbound[k + 1]
BY HeadTailProperties, EmptySeq, LenProperties DEF TypeOK, Pump

\* A send of anything but a Call adds none.
LEMMA SendNoCall ==
  ASSUME TypeOK, NEW kind \in {"Cancel", "Item"}, NEW s \in AllStreams,
         NEW message \in Message, send_outbound(kind, s, message)
  PROVE  \A t \in Streams : \A k \in 1..Len(outbound') :
           IsCall(k, t)' => k \in 1..Len(outbound) /\ IsCall(k, t)
<1> DEFINE frame == [kind |-> kind, stream |-> s, message |-> message]
<1>1. /\ \A k \in 1..Len(outbound) : outbound'[k] = outbound[k]
      /\ \/ outbound' = outbound
         \/ /\ outbound'[Len(outbound) + 1] = frame
            /\ \A k \in 1..Len(outbound') : k \in 1..Len(outbound) \/ k = Len(outbound) + 1
  BY SendFrames
<1>2. frame.kind # "Call"
  OBVIOUS
<1> QED BY <1>1, <1>2 DEF IsCall

\* A send of a Call adds one, at the end.
LEMMA SendCall ==
  ASSUME TypeOK, NEW s \in AllStreams, NEW message \in Message, send_outbound("Call", s, message)
  PROVE  \A t \in Streams : \A k \in 1..Len(outbound') :
           IsCall(k, t)' => \/ k \in 1..Len(outbound) /\ IsCall(k, t)
                            \/ k = Len(outbound) + 1 /\ t = s
<1> DEFINE frame == [kind |-> "Call", stream |-> s, message |-> message]
<1>1. /\ \A k \in 1..Len(outbound) : outbound'[k] = outbound[k]
      /\ \/ outbound' = outbound
         \/ /\ outbound'[Len(outbound) + 1] = frame
            /\ \A k \in 1..Len(outbound') : k \in 1..Len(outbound) \/ k = Len(outbound) + 1
  BY SendFrames
<1>2. frame.stream = s
  OBVIOUS
<1> QED BY <1>1, <1>2 DEF IsCall

\* What Calls says holds of fewer calls.
LEMMA FewerCalls ==
  ASSUME Calls, UNCHANGED <<hosted, peer>>,
         \A t \in Streams : \A k \in 1..Len(outbound') :
           IsCall(k, t)' => k \in 1..Len(outbound) /\ IsCall(k, t),
         \A t \in Streams : handle'[t] = handle[t] \/ handle'[t] \notin {"idle", "registered"}
  PROVE  Calls'
<1>1. ASSUME NEW t \in Streams, NEW k \in 1..Len(outbound'), IsCall(k, t)'
      PROVE  handle'[t] \notin {"idle", "registered"} /\ ~hosted'[t] /\ peer'[t] = "none"
  BY <1>1 DEF Calls
<1>2. ASSUME NEW t \in Streams, NEW k \in 1..Len(outbound'), NEW l \in 1..Len(outbound'),
             IsCall(k, t)', IsCall(l, t)'
      PROVE  k = l
  BY <1>2 DEF Calls
<1> QED BY <1>1, <1>2 DEF Calls

LEMMA InitTables == Init => Tables
BY EmptySeq DEF Init, Tables, RegistrationHasHandle, Roles, Calls, Finished, Unregistered,
                AllStreams, IsCall

LEMMA NextTables == TypeInv /\ Tables /\ [Next]_vars => Tables'
<1> SUFFICES ASSUME TypeInv, Tables, [Next]_vars PROVE Tables'
  OBVIOUS
<1> SmallTypes /\ TypeOK /\ InHand
  BY Small DEF TypeInv
<1> USE DEF SmallTypes, consumerVars, tokenVars, producerVars, HandlePhase, HostPhase, PeerPhase
<1> Streams \subseteq AllStreams /\ PeerStreams \subseteq AllStreams
  BY DEF AllStreams
<1> Streams \cap PeerStreams = {}
  BY StreamRoutingAssumption
<1>1. ASSUME NEW s \in Streams, Register(s) PROVE Tables'
  BY <1>1 DEF Register, Tables, RegistrationHasHandle, Roles, Calls, Finished, Unregistered, IsCall
<1>2. ASSUME NEW s \in Streams, OpenHosted(s) PROVE Tables'
  BY <1>2 DEF OpenHosted, SpawnDispatch, Tables, RegistrationHasHandle, Roles, Calls, Finished,
     Unregistered, IsCall
<1>3. ASSUME NEW s \in Streams, OpenPeer(s) PROVE Tables'
  <2>1. RegistrationHasHandle' /\ Roles' /\ Finished' /\ Unregistered'
    <3>1. handle[s] = "registered" /\ ~hosted[s]
          /\ UNCHANGED <<pending, hosted, received, buffer, host,
                                                                 producerVars, peer>>
      BY <1>3 DEF OpenPeer
    <3>2. PICK p \in {"open", "failed"} : handle' = [handle EXCEPT ![s] = p]
      BY <1>3 DEF OpenPeer
    <3> QED BY <3>1, <3>2 DEF Tables, RegistrationHasHandle, Roles, Finished, Unregistered
  <2>2. Calls'
    <3>1. send_outbound("Call", s, Complete) /\ Complete \in Message
      BY <1>3, Tags DEF OpenPeer, send_outbound
    <3>2. \A t \in Streams : \A k \in 1..Len(outbound') :
            IsCall(k, t)' => \/ k \in 1..Len(outbound) /\ IsCall(k, t)
                             \/ k = Len(outbound) + 1 /\ t = s
      BY <3>1, SendCall
    <3>3. /\ \A k \in 1..Len(outbound) : ~IsCall(k, s)
          /\ peer[s] = "none" /\ handle[s] = "registered" /\ ~hosted[s]
      BY <1>3 DEF OpenPeer, Tables, Calls, Roles
    <3>4. /\ \A t \in Streams \ {s} : handle'[t] = handle[t]
          /\ handle'[s] \in {"open", "failed"} /\ UNCHANGED <<hosted, peer>>
      BY <1>3 DEF OpenPeer
    <3> SUFFICES ASSUME NEW t \in Streams
                 PROVE  /\ \A k \in 1..Len(outbound') : IsCall(k, t)' =>
                             handle'[t] \notin {"idle", "registered"} /\ ~hosted'[t] /\ peer'[t] = "none"
                        /\ \A k, l \in 1..Len(outbound') : IsCall(k, t)' /\ IsCall(l, t)' => k = l
      BY DEF Calls, IsCall
    <3>5. CASE t = s
      BY <3>2, <3>3, <3>4, <3>5
    <3>6. CASE t # s
      <4>1. \A k \in 1..Len(outbound') : IsCall(k, t)' => k \in 1..Len(outbound) /\ IsCall(k, t)
        BY <3>2, <3>6
      <4> QED BY <4>1, <3>4, <3>6 DEF Tables, Calls
    <3> QED BY <3>5, <3>6
  <2> QED BY <2>1, <2>2 DEF Tables
<1>4. ASSUME NEW s \in Streams, CancelStream(s) PROVE Tables'
  <2>1. RegistrationHasHandle' /\ Roles' /\ Finished' /\ Unregistered'
    BY <1>4 DEF CancelStream, Tables, RegistrationHasHandle, Roles, Calls, Finished, Unregistered
  <2>2. Calls'
    <3>1. \A t \in Streams : \A k \in 1..Len(outbound') :
            IsCall(k, t)' => k \in 1..Len(outbound) /\ IsCall(k, t)
      BY <1>4, SendNoCall, Tags DEF CancelStream
    <3>2. \A t \in Streams : handle'[t] = handle[t] \/ handle'[t] \notin {"idle", "registered"}
      BY <1>4 DEF CancelStream
    <3>3. UNCHANGED <<hosted, peer>>
      BY <1>4 DEF CancelStream
    <3> QED BY <3>1, <3>2, <3>3, FewerCalls DEF Tables
  <2> QED BY <2>1, <2>2 DEF Tables
<1>5. ASSUME NEW s \in Streams, Recv(s) PROVE Tables'
  <2>1. \A t \in Streams \ {s} : received'[t] = received[t] /\ buffer'[t] = buffer[t]
    BY <1>5 DEF Recv, TypeOK
  <2>2. handle[s] = "open"
    BY <1>5 DEF Recv
  <2>3. Roles'
    <3>1. UNCHANGED <<pending, handle, hosted, host, produced, taken, closed, peer>>
      BY <1>5 DEF Recv
    <3> QED BY <2>1, <2>2, <3>1 DEF Tables, Roles
  <2>4. RegistrationHasHandle' /\ Calls' /\ Finished' /\ Unregistered'
    BY <1>5 DEF Recv, Tables, RegistrationHasHandle, Calls, Finished, Unregistered, IsCall
  <2> QED BY <2>3, <2>4 DEF Tables
<1>6. ASSUME NEW s \in Streams, DropHandle(s) PROVE Tables'
  BY <1>6 DEF DropHandle, Tables, RegistrationHasHandle, Roles, Calls, Finished, Unregistered,
     IsCall
<1>7. ASSUME NEW s \in Streams, PushHosted(s) PROVE Tables'
  <2>1. \A t \in Streams \ {s} : buffer'[t] = buffer[t]
    BY <1>7 DEF PushHosted, Push, TypeOK
  <2>2. host[s] # "none"
    BY <1>7 DEF PushHosted
  <2>3. Roles'
    <3>1. handle[s] \notin {"idle", "registered"}
      BY <2>2 DEF Tables, Roles
    <3>2. PICK p \in {"pumping", "done"} : host' = [host EXCEPT ![s] = p]
      BY <1>7 DEF PushHosted
    <3>3. UNCHANGED <<pending, handle, hosted, received, peer, produced, taken, closed>>
      BY <1>7 DEF PushHosted
    <3> QED BY <2>1, <2>2, <3>1, <3>2, <3>3 DEF Tables, Roles
  <2>4. RegistrationHasHandle' /\ Calls' /\ Finished' /\ Unregistered'
    BY <1>7 DEF PushHosted, Tables, RegistrationHasHandle, Calls, Finished, Unregistered, IsCall
  <2> QED BY <2>3, <2>4 DEF Tables
<1>8. ASSUME NEW s \in Streams, PeerEmit(s) PROVE Tables'
  <2>1. Roles'
    BY <1>8 DEF PeerEmit, Tables, Roles
  <2>2. RegistrationHasHandle' /\ Calls'
    BY <1>8 DEF PeerEmit, Tables, RegistrationHasHandle, Calls, IsCall
  <2>3. Finished'
    <3>1. /\ \A t \in AllStreams \ {s} :
               produced[t] = produced'[t] /\ (t \in closed <=> t \in closed')
          /\ peer[s] = "serving" /\ UNCHANGED <<host, taken>>
          /\ \/ s \notin closed'
             \/ peer'[s] \in {"end_blocked", "ended"}
      BY <1>8 DEF PeerEmit, Tables, Finished
    <3>2. host[s] = "none" /\ taken[s] = 0 /\ produced'[s] \in Nat
      BY <1>8, <3>1 DEF PeerEmit, Tables, Roles, Finished
    <3>3. \A t \in Streams \ {s} : peer'[t] = peer[t]
      BY <1>8 DEF PeerEmit
    <3> QED BY <3>1, <3>2, <3>3 DEF Tables, Finished
  <2>4. Unregistered'
    BY <1>8 DEF PeerEmit, Tables, Unregistered
  <2> QED BY <2>1, <2>2, <2>3, <2>4 DEF Tables
<1>9. ASSUME NEW s \in Streams, PeerEmitCancelled(s) PROVE Tables'
  BY <1>9 DEF PeerEmitCancelled, Tables, RegistrationHasHandle, Roles, Calls, Finished,
     Unregistered, IsCall
<1>10. ASSUME NEW s \in Streams, PeerPush(s) PROVE Tables'
  <2>1. \A t \in Streams \ {s} : buffer'[t] = buffer[t]
    BY <1>10 DEF PeerPush, Push, TypeOK
  <2>2. peer[s] # "none"
    BY <1>10 DEF PeerPush
  <2>3. Roles'
    <3>1. handle[s] \notin {"idle", "registered"}
      BY <2>2 DEF Tables, Roles
    <3>2. PICK p \in {"serving", "cancelled", "ended"} : peer' = [peer EXCEPT ![s] = p]
      BY <1>10 DEF PeerPush
    <3>3. UNCHANGED <<pending, handle, hosted, received, host, produced, taken, closed>>
      BY <1>10 DEF PeerPush
    <3> QED BY <2>1, <2>2, <3>1, <3>2, <3>3 DEF Tables, Roles
  <2>4. RegistrationHasHandle' /\ Calls' /\ Finished' /\ Unregistered'
    BY <1>10 DEF PeerPush, Tables, RegistrationHasHandle, Calls, Finished, Unregistered, IsCall
  <2> QED BY <2>3, <2>4 DEF Tables
<1>11. ASSUME NEW s \in AllStreams, OpenStream(s) PROVE Tables'
  BY <1>11 DEF OpenStream, Tables, RegistrationHasHandle, Roles, Calls, Finished, Unregistered,
     IsCall
<1>12. ASSUME NEW s \in AllStreams, Respond(s) PROVE Tables'
  <2>1. RegistrationHasHandle' /\ Roles' /\ Finished' /\ Unregistered'
    BY <1>12 DEF Respond, Tables, RegistrationHasHandle, Roles, Calls, Finished, Unregistered
  <2>2. Calls'
    <3>1. \A t \in Streams : \A k \in 1..Len(outbound') :
            IsCall(k, t)' => k \in 1..Len(outbound) /\ IsCall(k, t)
      <4>1. CASE send_outbound("Item", s, Failure)
        BY <4>1, SendNoCall, Tags
      <4>2. CASE UNCHANGED outbound
        BY <4>2 DEF IsCall
      <4> QED BY <1>12, <4>1, <4>2 DEF Respond
    <3>2. \A t \in Streams : handle'[t] = handle[t] \/ handle'[t] \notin {"idle", "registered"}
      BY <1>12 DEF Respond
    <3>3. UNCHANGED <<hosted, peer>>
      BY <1>12 DEF Respond
    <3> QED BY <3>1, <3>2, <3>3, FewerCalls DEF Tables
  <2> QED BY <2>1, <2>2 DEF Tables
<1>13. ASSUME NEW s \in AllStreams, Take(s) PROVE Tables'
  BY <1>13 DEF Take, Tables, RegistrationHasHandle, Roles, Calls, Finished, Unregistered, IsCall
<1>14. ASSUME NEW s \in AllStreams, RouteEvent(s) PROVE Tables'
  BY <1>14 DEF RouteEvent, Tables, RegistrationHasHandle, Roles, Calls, Finished, Unregistered,
     IsCall
<1>15. ASSUME NEW s \in AllStreams, LookUp(s) PROVE Tables'
  BY <1>15 DEF LookUp, Tables, RegistrationHasHandle, Roles, Calls, Finished, Unregistered, IsCall
<1>16. ASSUME NEW s \in AllStreams, LookUpEnd(s) PROVE Tables'
  BY <1>16 DEF LookUpEnd, Tables, RegistrationHasHandle, Roles, Calls, Finished, Unregistered,
     IsCall
<1>17. ASSUME NEW s \in AllStreams, SendItem(s) PROVE Tables'
  <2>1. RegistrationHasHandle' /\ Roles' /\ Finished' /\ Unregistered'
    BY <1>17 DEF SendItem, Tables, RegistrationHasHandle, Roles, Calls, Finished, Unregistered
  <2>2. Calls'
    <3>1. \A t \in Streams : \A k \in 1..Len(outbound') :
            IsCall(k, t)' => k \in 1..Len(outbound) /\ IsCall(k, t)
      <4>1. Event(taken[s]) \in Message \/ host[s] # "send"
        BY Tags DEF InHand, TypeOK
      <4> QED BY <1>17, <4>1, SendNoCall, Tags DEF SendItem
    <3>2. \A t \in Streams : handle'[t] = handle[t] \/ handle'[t] \notin {"idle", "registered"}
      BY <1>17 DEF SendItem
    <3>3. UNCHANGED <<hosted, peer>>
      BY <1>17 DEF SendItem
    <3> QED BY <3>1, <3>2, <3>3, FewerCalls DEF Tables
  <2> QED BY <2>1, <2>2 DEF Tables
<1>18. ASSUME NEW s \in AllStreams, Produce(s) PROVE Tables'
  <2>1. Roles'
    BY <1>18 DEF Produce, Tables, Roles
  <2>2. RegistrationHasHandle' /\ Calls'
    BY <1>18 DEF Produce, Tables, RegistrationHasHandle, Calls, IsCall
  <2>3. Finished'
    <3>1. /\ \A t \in AllStreams : produced[t] <= produced'[t]
          /\ \A t \in AllStreams \ {s} : produced[t] = produced'[t]
          /\ closed' \subseteq closed \cup {s}
      BY <1>18 DEF Produce
    <3>2. /\ host[s] \in {"pumping", "event", "lookup", "blocked", "send"}
          /\ UNCHANGED <<host, taken, peer>>
      BY <1>18 DEF Produce
    <3>3. s \in Streams => peer[s] = "none"
      BY <3>2 DEF Tables, Roles
    <3>4. \A t \in AllStreams : taken'[t] <= produced'[t]
      <4>1. \A t \in AllStreams : taken[t] <= produced[t] /\ taken[t] \in Nat
            /\ produced[t] \in Nat /\ produced'[t] \in Nat
        BY <1>18 DEF Produce, Tables, Finished
      <4> QED BY <4>1, <3>1, <3>2
    <3>5. closed \subseteq closed'
      BY <1>18 DEF Produce
    <3> QED BY <3>1, <3>2, <3>3, <3>4, <3>5 DEF Tables, Finished
  <2>4. Unregistered'
    BY <1>18 DEF Produce, Tables, Unregistered
  <2> QED BY <2>1, <2>2, <2>3, <2>4 DEF Tables
<1>19. ASSUME NEW s \in PeerStreams, PeerOpen(s) PROVE Tables'
  BY <1>19 DEF PeerOpen, SpawnDispatch, Tables, RegistrationHasHandle, Roles, Calls, Finished,
     Unregistered, IsCall
<1>20. ASSUME NEW s \in PeerStreams, PeerCancel(s) PROVE Tables'
  BY <1>20 DEF PeerCancel, Tables, RegistrationHasHandle, Roles, Calls, Finished, Unregistered,
     IsCall
<1>21. CASE Pump
  <2> DEFINE t == outbound[1].stream
  <2>1. /\ Len(outbound) \in Nat /\ Len(outbound) > 0 /\ outbound[1] \in Frame
        /\ Len(outbound') = Len(outbound) - 1
        /\ \A k \in 1..Len(outbound') : k + 1 \in 1..Len(outbound) /\ outbound'[k] = outbound[k + 1]
        /\ Head(outbound) = outbound[1]
    BY <1>21, PumpFrames
  <2>2. \A s \in Streams : \A k \in 1..Len(outbound') : IsCall(k, s)' =>
          k + 1 \in 1..Len(outbound) /\ IsCall(k + 1, s) /\ k + 1 # 1
    BY <2>1 DEF IsCall
  <2>3. \/ outbound[1].kind = "Call" /\ peer' = [peer EXCEPT ![t] = "serving"]
        \/ peer' = [peer EXCEPT ![t] = CASE @ = "serving" -> "cancelled"
                                          [] @ = "blocked" -> "blocked_cancelled"
                                          [] OTHER -> @]
        \/ UNCHANGED peer
    BY <1>21, <2>1 DEF Pump, PeerReceives
  <2>4. /\ UNCHANGED <<pending, handle, hosted, host, received, buffer, produced, taken, closed>>
    BY <1>21 DEF Pump
  <2>5. CASE outbound[1].kind = "Call" /\ peer' = [peer EXCEPT ![t] = "serving"] /\ t \in Streams
    <3>1. IsCall(1, t) /\ 1 \in 1..Len(outbound)
      BY <2>1, <2>5 DEF IsCall
    <3>2. /\ handle[t] \notin {"idle", "registered"} /\ ~hosted[t] /\ peer[t] = "none"
          /\ \A k \in 1..Len(outbound) : IsCall(k, t) => k = 1
          /\ host[t] = "none" /\ t \notin closed
      BY <3>1, <2>5 DEF Tables, Calls, Roles
    <3>3. Roles' /\ Finished' /\ Unregistered' /\ RegistrationHasHandle'
      BY <2>4, <2>5, <3>2 DEF Tables, Roles, Finished, Unregistered, RegistrationHasHandle
    <3>4. Calls'
      BY <2>2, <2>4, <2>5, <3>2 DEF Tables, Calls
    <3> QED BY <3>3, <3>4 DEF Tables
  <2>6. CASE \A s \in Streams :
               \/ peer'[s] = peer[s]
               \/ peer[s] = "serving" /\ peer'[s] = "cancelled"
               \/ peer[s] = "blocked" /\ peer'[s] = "blocked_cancelled"
    <3>1. Roles' /\ Finished' /\ Unregistered' /\ RegistrationHasHandle'
      BY <2>4, <2>6 DEF Tables, Roles, Finished, Unregistered, RegistrationHasHandle
    <3>2. Calls'
      <4>1. \A s \in Streams : \A k \in 1..Len(outbound') : IsCall(k, s)' =>
              handle'[s] \notin {"idle", "registered"} /\ ~hosted'[s] /\ peer'[s] = "none"
        BY <2>2, <2>4, <2>6 DEF Tables, Calls
      <4>2. \A s \in Streams : \A k, l \in 1..Len(outbound') : IsCall(k, s)'
            /\ IsCall(l, s)' => k = l
        BY <2>1, <2>2 DEF Tables, Calls
      <4> QED BY <4>1, <4>2 DEF Calls
    <3> QED BY <3>1, <3>2 DEF Tables
  <2> QED BY <2>3, <2>5, <2>6
<1>22. CASE Shutdown
  <2>1. Calls' /\ Finished'
    <3>1. Calls'
      BY <1>22, FewerCalls DEF Shutdown, Tables, IsCall
    <3> QED BY <1>22, <3>1 DEF Shutdown, Tables, Finished
  <2>2. RegistrationHasHandle' /\ Unregistered'
    BY <1>22 DEF Shutdown, RegistrationHasHandle, Unregistered
  <2>3. Roles'
    BY <1>22 DEF Shutdown, Tables, Roles
  <2> QED BY <2>1, <2>2, <2>3 DEF Tables
<1>23. CASE StopPump
  BY <1>23, EmptySeq DEF StopPump, Tables, RegistrationHasHandle, Roles, Calls, Finished,
     Unregistered, IsCall
<1>24. CASE UNCHANGED vars
  BY <1>24 DEF vars, Tables, RegistrationHasHandle, Roles, Calls, Finished, Unregistered, IsCall
<1> QED
  BY <1>1, <1>2, <1>3, <1>4, <1>5, <1>6, <1>7, <1>8, <1>9, <1>10, <1>11, <1>12, <1>13, <1>14,
     <1>15, <1>16, <1>17, <1>18, <1>19, <1>20, <1>21, <1>22, <1>23, <1>24
     DEF Next, HandleStep, HostStep, PeerStep
-----------------------------------------------------------------------------
(* What reaches the consumer.                                              *)

\* A step that changes nothing Delivers speaks of: what s was delivered, what an
\* ended producer had emitted, and, while it can be sent to, what was passed on.
Quiet(s) ==
  /\ received'[s] = received[s] /\ buffer'[s] = buffer[s]
  /\ s \in closed => s \in closed' /\ produced'[s] = produced[s]
  /\ SenderAlive(s)' => SenderAlive(s)
  /\ SenderAlive(s)' /\ handle'[s] # "dropped" => handle[s] # "dropped" /\ Passed(s)' = Passed(s)

LEMMA QuietDelivers ==
  ASSUME NEW s \in Streams, Delivers(s), Quiet(s) PROVE Delivers(s)'
<1>1. Delivered(s)' = Delivered(s)
  BY DEF Delivered, Quiet
<1>2. IsOrdered(Delivered(s))' /\ (NoEnd(Delivered(s)) => NoEnd(Delivered(s))')
      /\ Len(Delivered(s))' = Len(Delivered(s))
  BY <1>1 DEF Delivers, IsOrdered, NoEnd
<1>3. AllBefore(s, Delivered(s))'
  BY <1>1 DEF Delivers, AllBefore, Quiet
<1> QED BY <1>2, <1>3 DEF Delivers, Quiet

\* What was delivered of a stream is a sequence of messages.
LEMMA DeliveredType ==
  ASSUME TypeOK, NEW s \in Streams
  PROVE  /\ received[s] \in Seq(Message) /\ buffer[s] \in Seq(Message)
         /\ Delivered(s) \in Seq(Message)
         /\ received[s] \o <<>> = received[s]
BY ConcatProperties, ConcatEmptySeq DEF TypeOK, Delivered

\* So is a beginning of it, and it is in order if the whole is.
LEMMA Beginning ==
  ASSUME NEW r \in Seq(Message), NEW b \in Seq(Message), NEW s
  PROVE  /\ IsOrdered(r \o b) => IsOrdered(r)
         /\ AllBefore(s, r \o b) => AllBefore(s, r)
         /\ NoEnd(r \o b) => NoEnd(r)
<1>1. /\ Len(r \o b) = Len(r) + Len(b) /\ Len(r) \in Nat /\ Len(b) \in Nat
      /\ DOMAIN r = 1..Len(r) /\ DOMAIN (r \o b) = 1..Len(r \o b)
      /\ \A k \in 1..Len(r) : (r \o b)[k] = r[k]
  BY ConcatProperties, LenProperties
<1>2. \A k \in 1..Len(r) : k \in 1..Len(r \o b)
  BY <1>1
<1>3. ASSUME IsOrdered(r \o b) PROVE IsOrdered(r)
  <2> SUFFICES ASSUME NEW k \in 1..Len(r), r[k] # Event(k)
               PROVE  /\ r[k] \in Ends
                      /\ \A j \in (k + 1)..Len(r) : r[j] = Closed /\ r[k] # Closed
    BY <1>1 DEF IsOrdered
  <2>1. /\ r[k] \in Ends
        /\ \A j \in (k + 1)..Len(r \o b) : (r \o b)[j] = Closed /\ r[k] # Closed
    BY <1>1, <1>2, <1>3 DEF IsOrdered
  <2>2. \A j \in (k + 1)..Len(r) : j \in (k + 1)..Len(r \o b) /\ j \in 1..Len(r)
    BY <1>1
  <2> QED BY <2>1, <2>2, <1>1
<1>4. (AllBefore(s, r \o b) => AllBefore(s, r)) /\ (NoEnd(r \o b) => NoEnd(r))
  BY <1>1, <1>2 DEF AllBefore, NoEnd
<1> QED BY <1>3, <1>4

\* A send of the item that comes next, while the stream can be sent to.
LEMMA PushedEvent ==
  ASSUME TypeOK, NEW s \in Streams, Delivers(s), SenderAlive(s), handle[s] # "dropped",
         NEW n \in 1..MaxItems, Passed(s) = n - 1, Passed(s)' = n,
         Delivered(s)' = Append(Delivered(s), Event(n))
  PROVE  Delivers(s)'
<1>1. /\ IsOrdered(Delivered(s)) /\ NoEnd(Delivered(s)) /\ n = Len(Delivered(s)) + 1
      /\ Delivered(s) \in Seq(Message) /\ Event(n) \in Message
  BY DeliveredType, LenProperties, Tags DEF Delivers
<1> DEFINE d == Append(Delivered(s), Event(n))
<1>2. IsOrdered(d) /\ NoEnd(d) /\ Len(d) = n
  BY <1>1, AppendEvent
<1>3. AllBefore(s, d)'
  BY <1>2, Tags DEF NoEnd, AllBefore
<1> QED BY <1>2, <1>3 DEF Delivers, IsOrdered, NoEnd, AllBefore

\* A send of an end: Complete once the producer is gone and all was passed on.
LEMMA PushedEnd ==
  ASSUME TypeOK, NEW s \in Streams, Delivers(s), SenderAlive(s), handle[s] # "dropped",
         Passed(s) = produced[s], NEW x \in Ends, x = Complete => s \in closed,
         UNCHANGED <<closed, produced>>, ~SenderAlive(s)',
         Delivered(s)' = Append(Delivered(s), x)
  PROVE  Delivers(s)'
<1>1. /\ IsOrdered(Delivered(s)) /\ NoEnd(Delivered(s)) /\ Len(Delivered(s)) = produced[s]
      /\ Delivered(s) \in Seq(Message)
  BY DeliveredType DEF Delivers
<1> DEFINE d == Append(Delivered(s), x)
<1>2. IsOrdered(d) /\ \A k \in DOMAIN d : d[k] = Complete => x = Complete /\ k = produced[s] + 1
  BY <1>1, AppendEnd
<1> QED BY <1>2 DEF Delivers, IsOrdered, AllBefore

LEMMA InitDeliveries == Init => Deliveries
<1> SUFFICES ASSUME Init, NEW s \in Streams PROVE Delivers(s)
  BY DEF Deliveries
<1>1. Delivered(s) = <<>> /\ ~SenderAlive(s)
  BY ConcatEmptySeq, EmptySeq DEF Init, Delivered, SenderAlive, AllStreams
<1> QED BY <1>1 DEF Delivers, IsOrdered, AllBefore, NoEnd

LEMMA NextDeliveries == TypeInv /\ Tables /\ Deliveries /\ [Next]_vars => Deliveries'
<1> SUFFICES ASSUME TypeInv, Tables, Deliveries, [Next]_vars PROVE Deliveries'
  OBVIOUS
<1> SmallTypes /\ TypeOK /\ InHand
  BY Small DEF TypeInv
<1> USE DEF consumerVars, tokenVars, producerVars, HandlePhase, HostPhase, PeerPhase
<1> Streams \subseteq AllStreams /\ PeerStreams \subseteq AllStreams
  BY DEF AllStreams
<1> Streams \cap PeerStreams = {}
  BY StreamRoutingAssumption
<1>0. (\A t \in Streams : Quiet(t)) => Deliveries'
  BY QuietDelivers DEF Deliveries
<1>1. ASSUME NEW s \in Streams, Register(s) PROVE Deliveries'
  <2>1. ASSUME NEW t \in Streams \ {s} PROVE Quiet(t)
    BY <1>1 DEF Register, Quiet, SenderAlive, Passed, Hosted, SmallTypes
  <2>2. /\ received[s] = <<>> /\ buffer[s] = <<>> /\ host[s] = "none" /\ peer[s] = "none"
        /\ produced[s] = 0 /\ taken[s] = 0
    BY <1>1 DEF Register, Tables, Roles
  <2>3. UNCHANGED <<received, buffer, host, peer, produced, taken>>
    BY <1>1 DEF Register
  <2>4. Delivered(s)' = <<>> /\ Passed(s)' = 0
    BY <2>2, <2>3, ConcatEmptySeq, EmptySeq DEF Delivered, Passed
  <2>5. Delivers(s)'
    BY <2>4 DEF Delivers, IsOrdered, AllBefore, NoEnd
  <2> QED BY <2>1, <2>5, QuietDelivers DEF Deliveries
<1>2. ASSUME NEW s \in Streams, OpenHosted(s) PROVE Deliveries'
  <2>1. ASSUME NEW t \in Streams PROVE Quiet(t)
    BY <1>2 DEF OpenHosted, SpawnDispatch, Tables, Roles, Unregistered, Finished, Quiet,
       SenderAlive, Passed, Hosted, SmallTypes
  <2> QED BY <1>0, <2>1
<1>3. ASSUME NEW s \in Streams, OpenPeer(s) PROVE Deliveries'
  <2>1. ASSUME NEW t \in Streams PROVE Quiet(t)
    BY <1>3 DEF OpenPeer, Tables, Roles, Unregistered, Finished, Quiet, SenderAlive, Passed,
       Hosted, SmallTypes
  <2> QED BY <1>0, <2>1
<1>4. ASSUME NEW s \in Streams, CancelStream(s) PROVE Deliveries'
  <2>1. ASSUME NEW t \in Streams \ {s} PROVE Quiet(t)
    BY <1>4 DEF CancelStream, TypeOK, Quiet, SenderAlive, Passed, Hosted, SmallTypes
  <2>2. /\ received'[s] = received[s] /\ buffer'[s] = <<>> /\ handle'[s] = "dropped"
        /\ UNCHANGED <<pending, host, peer, closed, produced>>
    BY <1>4 DEF CancelStream, TypeOK
  <2>3. Delivered(s)' = received[s] /\ (SenderAlive(s)' <=> SenderAlive(s))
    BY <2>2, DeliveredType DEF Delivered, SenderAlive
  <2>4. IsOrdered(received[s]) /\ AllBefore(s, received[s])
        /\ (SenderAlive(s) => NoEnd(received[s]))
    BY DeliveredType, Beginning DEF Delivered, Deliveries, Delivers
  <2>5. Delivers(s)'
    BY <2>2, <2>3, <2>4 DEF Delivers, IsOrdered, AllBefore, NoEnd
  <2> QED BY <2>1, <2>5, QuietDelivers DEF Deliveries
<1>5. ASSUME NEW s \in Streams, Recv(s) PROVE Deliveries'
  <2>1. ASSUME NEW t \in Streams \ {s} PROVE Quiet(t)
    BY <1>5 DEF Recv, TypeOK, Quiet, SenderAlive, Passed, Hosted, SmallTypes
  <2>2. UNCHANGED <<pending, handle, hosted, host, produced, closed, taken, peer>>
    BY <1>5 DEF Recv
  <2>3. Delivers(s) /\ (SenderAlive(s)' <=> SenderAlive(s)) /\ Passed(s)' = Passed(s)
    BY <2>2 DEF Deliveries, SenderAlive, Passed, Hosted
  <2>4. CASE /\ buffer[s] # <<>>
             /\ received' = [received EXCEPT ![s] = Append(@, Head(buffer[s]))]
             /\ buffer' = [buffer EXCEPT ![s] = Tail(@)]
    <3>1. /\ received'[s] = Append(received[s], Head(buffer[s])) /\ buffer'[s] = Tail(buffer[s])
      BY <2>4 DEF TypeOK
    <3>2. Delivered(s)' = Delivered(s)
      <4>1. Append(received[s], Head(buffer[s])) \o Tail(buffer[s]) = received[s] \o buffer[s]
        BY <2>4, DeliveredType, MoveHead
      <4> QED BY <3>1, <4>1 DEF Delivered
    <3>3. Delivers(s)'
      BY <2>2, <2>3, <3>2 DEF Delivers, IsOrdered, AllBefore, NoEnd
    <3> QED BY <2>1, <3>3, QuietDelivers DEF Deliveries
  <2>5. CASE /\ buffer[s] = <<>> /\ ~SenderAlive(s)
             /\ Closed \notin {received[s][k] : k \in DOMAIN received[s]}
             /\ received' = [received EXCEPT ![s] = Append(@, Closed)]
             /\ UNCHANGED buffer
    <3>1. Delivered(s) = received[s] /\ Delivered(s)' = Append(received[s], Closed)
      <4>1. received'[s] = Append(received[s], Closed) /\ buffer'[s] = <<>>
        BY <2>5 DEF TypeOK
      <4>2. Append(received[s], Closed) \in Seq(Message)
        BY DeliveredType, Appending, Tags
      <4> QED BY <2>5, <4>1, <4>2, DeliveredType, ConcatEmptySeq DEF Delivered
    <3>2. IsOrdered(received[s]) /\ AllBefore(s, received[s])
          /\ \A k \in DOMAIN received[s] : received[s][k] # Closed
      BY <2>3, <2>5, <3>1 DEF Delivers
    <3>3. IsOrdered(Append(received[s], Closed))
          /\ \A k \in DOMAIN Append(received[s], Closed) :
               Append(received[s], Closed)[k] = Complete => k \in DOMAIN received[s] /\ received[s][k] = Complete
      BY <3>2, DeliveredType, AppendClosed
    <3>4. IsOrdered(Delivered(s))'
      BY <3>1, <3>3 DEF IsOrdered
    <3>5. AllBefore(s, Delivered(s))'
      BY <3>1, <3>2, <3>3, <2>2 DEF AllBefore
    <3>6. Delivers(s)'
      BY <2>3, <2>5, <3>4, <3>5 DEF Delivers
    <3> QED BY <2>1, <3>6, QuietDelivers DEF Deliveries
  <2> QED BY <1>5, <2>4, <2>5 DEF Recv
<1>6. ASSUME NEW s \in Streams, DropHandle(s) PROVE Deliveries'
  <2>1. ASSUME NEW t \in Streams PROVE Quiet(t)
    BY <1>6 DEF DropHandle, Tables, Roles, Unregistered, Finished, Quiet, SenderAlive, Passed,
       Hosted, SmallTypes
  <2> QED BY <1>0, <2>1
<1>7. ASSUME NEW s \in Streams, PushHosted(s) PROVE Deliveries'
  <2>1. ASSUME NEW t \in Streams \ {s} PROVE Quiet(t)
    BY <1>7 DEF PushHosted, Push, TypeOK, Quiet, SenderAlive, Passed, Hosted, SmallTypes
  <2>2. UNCHANGED <<pending, handle, hosted, produced, closed, taken, peer>>
    BY <1>7 DEF PushHosted
  <2>3. Delivers(s) /\ received[s] \in Seq(Message) /\ buffer[s] \in Seq(Message)
    BY DeliveredType DEF Deliveries
  <2>4. /\ host[s] \in {"blocked", "end_blocked"} /\ hosted[s] /\ peer[s] = "none" /\ SenderAlive(s)
        /\ (host[s] = "end_blocked" => s \notin pending /\ s \in closed /\ taken[s] = produced[s])
    BY <1>7 DEF PushHosted, Tables, Roles, Unregistered, Finished, SenderAlive, SmallTypes
  <2>5. CASE handle[s] = "dropped" /\ UNCHANGED buffer
    <3>1. Quiet(s)
      BY <1>7, <2>2, <2>4, <2>5 DEF PushHosted, Quiet, SenderAlive
    <3> QED BY <2>1, <2>3, <3>1, QuietDelivers DEF Deliveries
  <2>6. CASE /\ handle[s] # "dropped" /\ host[s] = "blocked"
             /\ host' = [host EXCEPT ![s] = "pumping"]
             /\ buffer' = [buffer EXCEPT ![s] = Append(@, Event(taken[s]))]
    <3>1. /\ taken[s] \in 1..MaxItems /\ Event(taken[s]) \in Message
          /\ Passed(s) = taken[s] - 1
          /\ host'[s] = "pumping" /\ Passed(s)' = taken[s]
      <4>1. taken[s] \in 1..MaxItems
        BY <2>6 DEF TypeOK, InHand
      <4> QED BY <4>1, <2>2, <2>4, <2>6, Tags DEF Passed, Hosted, SmallTypes
    <3>2. Delivered(s)' = Append(Delivered(s), Event(taken[s]))
      <4>1. received'[s] = received[s] /\ buffer'[s] = Append(buffer[s], Event(taken[s]))
        BY <1>7, <2>6 DEF PushHosted, TypeOK
      <4>2. received[s] \o Append(buffer[s], Event(taken[s])) =
              Append(received[s] \o buffer[s], Event(taken[s]))
        BY <2>3, <3>1, PushLast
      <4> QED BY <4>1, <4>2 DEF Delivered
    <3> QED BY <2>1, <2>3, <2>4, <2>6, <3>1, <3>2, PushedEvent, QuietDelivers DEF Deliveries
  <2>7. CASE /\ handle[s] # "dropped" /\ host[s] = "end_blocked"
             /\ host' = [host EXCEPT ![s] = "done"]
             /\ buffer' = [buffer EXCEPT ![s] = Append(@, Complete)]
    <3>1. Delivered(s)' = Append(Delivered(s), Complete)
      <4>1. received'[s] = received[s] /\ buffer'[s] = Append(buffer[s], Complete)
        BY <1>7, <2>7 DEF PushHosted, TypeOK
      <4>2. Complete \in Message
        BY Tags
      <4>3. received[s] \o Append(buffer[s], Complete) = Append(received[s] \o buffer[s], Complete)
        BY <2>3, <4>2, PushLast
      <4> QED BY <4>1, <4>3 DEF Delivered
    <3>2. ~SenderAlive(s)' /\ Passed(s) = produced[s] /\ s \in closed
      BY <2>2, <2>4, <2>7 DEF SenderAlive, Passed, Hosted, SmallTypes
    <3> QED BY <2>1, <2>2, <2>3, <2>4, <2>7, <3>1, <3>2, Tags, PushedEnd, QuietDelivers DEF Deliveries
  <2> QED BY <1>7, <2>5, <2>6, <2>7 DEF PushHosted, Push
<1>8. ASSUME NEW s \in Streams, PeerEmit(s) PROVE Deliveries'
  <2>1. ASSUME NEW t \in Streams PROVE Quiet(t)
    BY <1>8 DEF PeerEmit, Tables, Roles, Unregistered, Finished, Quiet, SenderAlive, Passed,
       Hosted, SmallTypes
  <2> QED BY <1>0, <2>1
<1>9. ASSUME NEW s \in Streams, PeerEmitCancelled(s) PROVE Deliveries'
  <2>1. ASSUME NEW t \in Streams PROVE Quiet(t)
    BY <1>9 DEF PeerEmitCancelled, Tables, Roles, Unregistered, Finished, Quiet, SenderAlive,
       Passed, Hosted, SmallTypes
  <2> QED BY <1>0, <2>1
<1>10. ASSUME NEW s \in Streams, PeerPush(s) PROVE Deliveries'
  <2>1. ASSUME NEW t \in Streams \ {s} PROVE Quiet(t)
    BY <1>10 DEF PeerPush, Push, TypeOK, Quiet, SenderAlive, Passed, Hosted, SmallTypes
  <2>2. UNCHANGED <<pending, handle, hosted, produced, closed, taken, host>>
    BY <1>10 DEF PeerPush
  <2>3. Delivers(s) /\ received[s] \in Seq(Message) /\ buffer[s] \in Seq(Message)
    BY DeliveredType DEF Deliveries
  <2>4. /\ peer[s] \in {"blocked", "blocked_cancelled", "end_blocked"} /\ ~Hosted(s)
        /\ host[s] = "none"
        /\ SenderAlive(s) /\ (peer[s] = "end_blocked" => s \notin pending)
    BY <1>10 DEF PeerPush, Tables, Roles, Unregistered, SenderAlive, Hosted
  <2>5. CASE handle[s] = "dropped" /\ UNCHANGED buffer
    <3>1. Quiet(s)
      BY <1>10, <2>2, <2>4, <2>5 DEF PeerPush, Quiet, SenderAlive
    <3> QED BY <2>1, <2>3, <3>1, QuietDelivers DEF Deliveries
  <2>6. CASE /\ handle[s] # "dropped" /\ peer[s] \in {"blocked", "blocked_cancelled"}
             /\ buffer' = [buffer EXCEPT ![s] = Append(@, Event(produced[s]))]
    <3>1. /\ produced[s] \in 1..MaxItems /\ Event(produced[s]) \in Message
          /\ Passed(s) = produced[s] - 1
          /\ Passed(s)' = produced[s]
      <4>1. produced[s] \in 1..MaxItems
        BY <2>6 DEF TypeOK, InHand
      <4>2. peer'[s] \in {"serving", "cancelled"}
        BY <1>10, <2>6 DEF PeerPush, SmallTypes
      <4> QED BY <4>1, <4>2, <2>2, <2>4, <2>6, Tags DEF Passed, Hosted
    <3>2. Delivered(s)' = Append(Delivered(s), Event(produced[s]))
      <4>1. received'[s] = received[s] /\ buffer'[s] = Append(buffer[s], Event(produced[s]))
        BY <1>10, <2>6 DEF PeerPush, TypeOK
      <4>2. received[s] \o Append(buffer[s], Event(produced[s])) =
              Append(received[s] \o buffer[s], Event(produced[s]))
        BY <2>3, <3>1, PushLast
      <4> QED BY <4>1, <4>2 DEF Delivered
    <3> QED BY <2>1, <2>3, <2>4, <2>6, <3>1, <3>2, PushedEvent, QuietDelivers DEF Deliveries
  <2>7. CASE /\ handle[s] # "dropped" /\ peer[s] = "end_blocked"
             /\ buffer' = [buffer EXCEPT ![s] = Append(@, IF s \in closed THEN Complete ELSE Cancelled)]
    <3> DEFINE x == IF s \in closed THEN Complete ELSE Cancelled
    <3>1. x \in Ends /\ x \in Message /\ (x = Complete => s \in closed)
      BY Tags
    <3>2. Delivered(s)' = Append(Delivered(s), x)
      <4>1. received'[s] = received[s] /\ buffer'[s] = Append(buffer[s], x)
        BY <1>10, <2>7 DEF PeerPush, TypeOK
      <4> HIDE DEF x
      <4>2. received[s] \o Append(buffer[s], x) = Append(received[s] \o buffer[s], x)
        BY <2>3, <3>1, PushLast
      <4> QED BY <4>1, <4>2 DEF Delivered
    <3>3. ~SenderAlive(s)' /\ Passed(s) = produced[s]
      <4>1. peer'[s] = "ended"
        BY <1>10, <2>7 DEF PeerPush, SmallTypes
      <4> QED BY <4>1, <2>2, <2>4, <2>7 DEF SenderAlive, Passed
    <3> HIDE DEF x
    <3> QED BY <2>1, <2>2, <2>3, <2>4, <2>7, <3>1, <3>2, <3>3, PushedEnd, QuietDelivers DEF Deliveries
  <2> QED BY <1>10, <2>5, <2>6, <2>7 DEF PeerPush, Push
<1>11. ASSUME NEW s \in AllStreams, OpenStream(s) PROVE Deliveries'
  <2>1. ASSUME NEW t \in Streams PROVE Quiet(t)
    BY <1>11 DEF OpenStream, Tables, Roles, Unregistered, Finished, Quiet, SenderAlive, Passed,
       Hosted, SmallTypes
  <2> QED BY <1>0, <2>1
<1>12. ASSUME NEW s \in AllStreams, Respond(s) PROVE Deliveries'
  <2>1. ASSUME NEW t \in Streams PROVE Quiet(t)
    BY <1>12 DEF Respond, Tables, Roles, Unregistered, Finished, Quiet, SenderAlive, Passed,
       Hosted, SmallTypes
  <2> QED BY <1>0, <2>1
<1>13. ASSUME NEW s \in AllStreams, Take(s) PROVE Deliveries'
  <2>1. ASSUME NEW t \in Streams PROVE Quiet(t)
    BY <1>13 DEF Take, Tables, Roles, Unregistered, Finished, Quiet, SenderAlive, Passed, Hosted,
       SmallTypes
  <2> QED BY <1>0, <2>1
<1>14. ASSUME NEW s \in AllStreams, RouteEvent(s) PROVE Deliveries'
  <2>1. ASSUME NEW t \in Streams PROVE Quiet(t)
    BY <1>14 DEF RouteEvent, Tables, Roles, Unregistered, Finished, Quiet, SenderAlive, Passed,
       Hosted, SmallTypes
  <2> QED BY <1>0, <2>1
<1>15. ASSUME NEW s \in AllStreams, LookUp(s) PROVE Deliveries'
  <2>1. ASSUME NEW t \in Streams PROVE Quiet(t)
    BY <1>15 DEF LookUp, Tables, Roles, Unregistered, Finished, Quiet, SenderAlive, Passed,
       Hosted, SmallTypes
  <2> QED BY <1>0, <2>1
<1>16. ASSUME NEW s \in AllStreams, LookUpEnd(s) PROVE Deliveries'
  <2>1. ASSUME NEW t \in Streams PROVE Quiet(t)
    BY <1>16 DEF LookUpEnd, Tables, Roles, Unregistered, Finished, Quiet, SenderAlive, Passed,
       Hosted, SmallTypes
  <2> QED BY <1>0, <2>1
<1>17. ASSUME NEW s \in AllStreams, SendItem(s) PROVE Deliveries'
  <2>1. ASSUME NEW t \in Streams PROVE Quiet(t)
    BY <1>17 DEF SendItem, Tables, Roles, Unregistered, Finished, Quiet, SenderAlive, Passed,
       Hosted, SmallTypes
  <2> QED BY <1>0, <2>1
<1>18. ASSUME NEW s \in AllStreams, Produce(s) PROVE Deliveries'
  <2>1. ASSUME NEW t \in Streams PROVE Quiet(t)
    BY <1>18 DEF Produce, Tables, Roles, Unregistered, Finished, Quiet, SenderAlive, Passed,
       Hosted, SmallTypes
  <2> QED BY <1>0, <2>1
<1>19. ASSUME NEW s \in PeerStreams, PeerOpen(s) PROVE Deliveries'
  <2>1. ASSUME NEW t \in Streams PROVE Quiet(t)
    BY <1>19 DEF PeerOpen, SpawnDispatch, Tables, Roles, Unregistered, Finished, Quiet,
       SenderAlive, Passed, Hosted, SmallTypes
  <2> QED BY <1>0, <2>1
<1>20. ASSUME NEW s \in PeerStreams, PeerCancel(s) PROVE Deliveries'
  <2>1. ASSUME NEW t \in Streams PROVE Quiet(t)
    BY <1>20 DEF PeerCancel, Tables, Roles, Unregistered, Finished, Quiet, SenderAlive, Passed,
       Hosted, SmallTypes
  <2> QED BY <1>0, <2>1
<1>21. CASE Pump
  <2> DEFINE u == Head(outbound).stream
  <2>1. \/ Head(outbound).kind = "Call" /\ peer' = [peer EXCEPT ![u] = "serving"]
        \/ peer' = [peer EXCEPT ![u] = CASE @ = "serving" -> "cancelled"
                                          [] @ = "blocked" -> "blocked_cancelled"
                                          [] OTHER -> @]
        \/ UNCHANGED peer
    BY <1>21 DEF Pump, PeerReceives
  <2>2. UNCHANGED <<pending, consumerVars, host, producerVars>>
    BY <1>21 DEF Pump
  <2>3. ASSUME Head(outbound).kind = "Call", u \in Streams PROVE peer[u] = "none"
    <3>1. IsCall(1, u) /\ 1 \in 1..Len(outbound)
      BY <1>21, <2>3, PumpFrames DEF IsCall
    <3> QED BY <3>1, <2>3 DEF Tables, Calls
  <2>4. ASSUME NEW t \in Streams
        PROVE  \/ peer'[t] = peer[t]
               \/ peer[t] = "none" /\ peer'[t] = "serving"
               \/ peer[t] = "serving" /\ peer'[t] = "cancelled"
               \/ peer[t] = "blocked" /\ peer'[t] = "blocked_cancelled"
    BY <2>1, <2>3 DEF SmallTypes
  <2>5. ASSUME NEW t \in Streams PROVE Quiet(t)
    BY <2>2, <2>4 DEF Quiet, SenderAlive, Passed, Hosted
  <2> QED BY <1>0, <2>5
<1>22. CASE Shutdown
  <2>1. ASSUME NEW t \in Streams PROVE Quiet(t)
    BY <1>22 DEF Shutdown, Quiet, SenderAlive, Passed, Hosted, SmallTypes
  <2> QED BY <1>0, <2>1
<1>23. CASE StopPump
  <2>1. ASSUME NEW t \in Streams PROVE Quiet(t)
    BY <1>23 DEF StopPump, Quiet, SenderAlive, Passed, Hosted, SmallTypes
  <2> QED BY <1>0, <2>1
<1>24. CASE UNCHANGED vars
  <2>1. ASSUME NEW t \in Streams PROVE Quiet(t)
    BY <1>24 DEF vars, Quiet, SenderAlive, Passed, Hosted, SmallTypes
  <2> QED BY <1>0, <2>1
<1> QED
  BY <1>1, <1>2, <1>3, <1>4, <1>5, <1>6, <1>7, <1>8, <1>9, <1>10, <1>11, <1>12, <1>13, <1>14,
     <1>15, <1>16, <1>17, <1>18, <1>19, <1>20, <1>21, <1>22, <1>23, <1>24
     DEF Next, HandleStep, HostStep, PeerStep
-----------------------------------------------------------------------------
(* What reaches the peer.                                                  *)

\* A step that changes nothing Frames speaks of but the channel.
QuietPeer(s) ==
  /\ peer_got'[s] = peer_got[s]
  /\ host[s] = "done" => host'[s] = "done"
  /\ s \in closed => s \in closed' /\ produced'[s] = produced[s]
  /\ taken[s] = produced[s] => taken'[s] = taken[s]
  /\ Passed(s)' = Passed(s)
  /\ phase' # "down" => phase # "down"

\* A step that leaves the frames of s where they are.
SameFrames(s) ==
  /\ \A k \in 1..Len(outbound) : k \in 1..Len(outbound') /\ outbound'[k] = outbound[k]
  /\ \A k \in 1..Len(outbound') :
       IsItem(k, s)' => k \in 1..Len(outbound) /\ IsItem(k, s) /\ outbound'[k] = outbound[k]

LEMMA SendOther ==
  ASSUME TypeOK, NEW kind \in {"Call", "Cancel", "Item"}, NEW u \in AllStreams,
         NEW message \in Message, send_outbound(kind, u, message),
         NEW s \in PeerStreams, kind # "Item" \/ u # s
  PROVE  SameFrames(s)
<1> DEFINE frame == [kind |-> kind, stream |-> u, message |-> message]
<1>1. /\ \A k \in 1..Len(outbound) : k \in 1..Len(outbound') /\ outbound'[k] = outbound[k]
      /\ \/ outbound' = outbound
         \/ /\ outbound'[Len(outbound) + 1] = frame
            /\ \A k \in 1..Len(outbound') : k \in 1..Len(outbound) \/ k = Len(outbound) + 1
  BY SendFrames
<1>2. frame.kind # "Item" \/ frame.stream # s
  OBVIOUS
<1> HIDE DEF frame
<1> QED BY <1>1, <1>2 DEF SameFrames, IsItem

LEMMA QuietFrames ==
  ASSUME TypeOK, NEW s \in PeerStreams, Frames(s), QuietPeer(s), SameFrames(s)
  PROVE  Frames(s)'
<1>1. /\ peer_got'[s] = peer_got[s] /\ Passed(s)' = Passed(s)
      /\ (NoEnd(peer_got[s])' <=> NoEnd(peer_got[s]))
  BY DEF QuietPeer, NoEnd
<1>2. PeerGot(s)'
  BY <1>1 DEF Frames, PeerGot, QuietPeer, IsOrdered, AllBefore
<1>3. InFlight(s)'
  <2> SUFFICES ASSUME NEW k \in 1..Len(outbound'), IsItem(k, s)'
               PROVE  /\ NoEnd(peer_got[s])'
                      /\ outbound'[k].message \in Ends => host'[s] = "done"
                      /\ outbound'[k].message = Complete => s \in closed' /\ taken'[s] = produced'[s]
                      /\ \A j \in 1..MaxItems :
                           outbound'[k].message = Event(j) => Len(peer_got'[s]) < j /\ j <= Passed(s)'
    BY DEF InFlight
  <2>1. k \in 1..Len(outbound) /\ IsItem(k, s) /\ outbound'[k] = outbound[k]
    BY DEF SameFrames
  <2> QED BY <2>1, <1>1 DEF Frames, InFlight, QuietPeer
<1>4. Increasing(s)'
  BY DEF Frames, Increasing, SameFrames
<1>5. NoneMissing(s)'
  <2> SUFFICES ASSUME phase' # "down", NoEnd(peer_got[s])', NEW j \in 1..MaxItems,
                      Len(peer_got'[s]) < j, j <= Passed(s)'
               PROVE  \E k \in 1..Len(outbound') : IsItem(k, s)' /\ outbound'[k].message = Event(j)
    BY DEF NoneMissing
  <2>1. PICK k \in 1..Len(outbound) : IsItem(k, s) /\ outbound[k].message = Event(j)
    BY <1>1 DEF Frames, NoneMissing, QuietPeer
  <2>2. k \in 1..Len(outbound') /\ outbound'[k] = outbound[k]
    BY DEF SameFrames
  <2> QED BY <2>1, <2>2 DEF IsItem
<1> QED BY <1>2, <1>3, <1>4, <1>5 DEF Frames

\* The pump thread of s sends the item it has in its hands.
LEMMA SendsItem ==
  ASSUME TypeInv, Tables, NEW s \in PeerStreams, Frames(s), SendItem(s), host[s] = "send"
  PROVE  Frames(s)'
<1> DEFINE n == taken[s]
           q == peer_got[s]
           frame == [kind |-> "Item", stream |-> s, message |-> Event(n)]
           L == Len(outbound)
<1>1. /\ n \in 1..MaxItems /\ Event(n) \in Message /\ q \in Seq(Message) /\ Len(q) \in Nat
      /\ s \in AllStreams
  BY Tags, LenProperties DEF TypeInv, TypeOK, InHand, AllStreams
<1>2. /\ Hosted(s) /\ Passed(s) = n - 1 /\ host'[s] = "pumping" /\ Passed(s)' = n
      /\ send_outbound("Item", s, Event(n)) /\ UNCHANGED <<phase, closed, produced, taken, peer_got>>
  BY DEF SendItem, Hosted, Passed, TypeInv, TypeOK, consumerVars, producerVars, AllStreams
<1>3. /\ L \in Nat
      /\ \A k \in 1..L : k \in 1..Len(outbound') /\ outbound'[k] = outbound[k]
      /\ \/ outbound' = outbound /\ phase = "down" /\ \A k \in 1..Len(outbound') : k \in 1..L
         \/ /\ L + 1 \in 1..Len(outbound') /\ outbound'[L + 1] = frame
            /\ \A k \in 1..Len(outbound') : k \in 1..L \/ k = L + 1
  BY <1>1, <1>2, SendFrames DEF TypeInv
<1>4. frame.message = Event(n) /\ frame.kind = "Item" /\ frame.stream = s
  OBVIOUS
<1> HIDE DEF frame, n, L
<1>5. NoEnd(q) /\ Len(q) < n
  BY <1>1, <1>2 DEF Frames, PeerGot
<1>6. ASSUME NEW k \in 1..L, IsItem(k, s)
      PROVE  /\ outbound[k].message \notin Ends
             /\ \A j \in 1..MaxItems : outbound[k].message = Event(j) => Len(q) < j /\ j < n
  BY <1>1, <1>2, <1>6 DEF Frames, InFlight, L
<1>7. \A k \in 1..Len(outbound') : IsItem(k, s)' =>
        \/ k \in 1..L /\ IsItem(k, s) /\ outbound'[k] = outbound[k]
        \/ k = L + 1 /\ outbound'[k].message = Event(n)
  BY <1>3, <1>4 DEF IsItem
<1>8. PeerGot(s)'
  BY <1>1, <1>2, <1>5 DEF Frames, PeerGot, IsOrdered, AllBefore, NoEnd
<1>9. InFlight(s)'
  <2> SUFFICES ASSUME NEW k \in 1..Len(outbound'), IsItem(k, s)'
               PROVE  /\ outbound'[k].message \notin Ends
                      /\ \A j \in 1..MaxItems :
                           outbound'[k].message = Event(j) => Len(q) < j /\ j <= n
    BY <1>2, <1>5, Tags DEF InFlight, NoEnd
  <2>1. CASE k \in 1..L /\ IsItem(k, s) /\ outbound'[k] = outbound[k]
    BY <2>1, <1>6, <1>1
  <2>2. CASE outbound'[k].message = Event(n)
    BY <2>2, <1>5, <1>1, Tags
  <2> QED BY <1>7, <2>1, <2>2
<1>10. Increasing(s)'
  <2> SUFFICES ASSUME NEW k \in 1..Len(outbound'), NEW l \in 1..Len(outbound'), k < l,
                      IsItem(k, s)', IsItem(l, s)'
               PROVE  /\ outbound'[k].message \notin Ends
                      /\ \A i, j \in 1..MaxItems :
                           outbound'[k].message = Event(i) /\ outbound'[l].message = Event(j) => i < j
    BY DEF Increasing
  <2>1. k \in 1..L /\ IsItem(k, s) /\ outbound'[k] = outbound[k]
    BY <1>3, <1>7
  <2>2. CASE l \in 1..L /\ IsItem(l, s) /\ outbound'[l] = outbound[l]
    BY <2>1, <2>2 DEF Frames, Increasing, L
  <2>3. CASE outbound'[l].message = Event(n)
    BY <2>1, <2>3, <1>6, Tags
  <2> QED BY <1>7, <2>2, <2>3
<1>11. NoneMissing(s)'
  <2> SUFFICES ASSUME phase # "down", NEW j \in 1..MaxItems, Len(q) < j, j <= n
               PROVE  \E k \in 1..Len(outbound') : IsItem(k, s)' /\ outbound'[k].message = Event(j)
    BY <1>2 DEF NoneMissing
  <2>1. CASE j = n
    BY <2>1, <1>3, <1>4 DEF IsItem
  <2>2. CASE j # n
    <3>1. PICK k \in 1..L : IsItem(k, s) /\ outbound[k].message = Event(j)
      BY <2>2, <1>1, <1>2, <1>5 DEF Frames, NoneMissing, L
    <3> QED BY <3>1, <1>3 DEF IsItem
  <2> QED BY <2>1, <2>2
<1> QED BY <1>8, <1>9, <1>10, <1>11 DEF Frames

\* It sends the end once all is sent; an error ends a stream before its first item.
LEMMA SendsEnd ==
  ASSUME TypeInv, Tables, NEW s \in PeerStreams, Frames(s), NEW x \in {Complete, Failure},
         send_outbound("Item", s, x), host[s] # "done", host'[s] = "done",
         x = Complete => s \in closed /\ taken[s] = produced[s],
         Passed(s)' = Passed(s), UNCHANGED <<phase, closed, produced, taken, peer_got>>
  PROVE  Frames(s)'
<1> DEFINE q == peer_got[s]
           frame == [kind |-> "Item", stream |-> s, message |-> x]
           L == Len(outbound)
<1>1. x \in Message /\ x \in Ends /\ s \in AllStreams
  BY Tags DEF AllStreams
<1>3. /\ L \in Nat
      /\ \A k \in 1..L : k \in 1..Len(outbound') /\ outbound'[k] = outbound[k]
      /\ \/ outbound' = outbound /\ phase = "down" /\ \A k \in 1..Len(outbound') : k \in 1..L
         \/ /\ L + 1 \in 1..Len(outbound') /\ outbound'[L + 1] = frame
            /\ \A k \in 1..Len(outbound') : k \in 1..L \/ k = L + 1
  BY <1>1, SendFrames DEF TypeInv
<1>4. frame.message = x /\ frame.kind = "Item" /\ frame.stream = s
  OBVIOUS
<1> HIDE DEF frame, L
<1>5. NoEnd(q)
  BY DEF Frames, PeerGot
<1>6. \A k \in 1..L : IsItem(k, s) => outbound[k].message \notin Ends
  BY DEF Frames, InFlight, L
<1>7. \A k \in 1..Len(outbound') : IsItem(k, s)' =>
        \/ k \in 1..L /\ IsItem(k, s) /\ outbound'[k] = outbound[k]
        \/ k = L + 1 /\ outbound'[k].message = x
  BY <1>3, <1>4 DEF IsItem
<1>8. PeerGot(s)'
  BY <1>5 DEF Frames, PeerGot, IsOrdered, AllBefore, NoEnd
<1>9. InFlight(s)'
  <2> SUFFICES ASSUME NEW k \in 1..Len(outbound'), IsItem(k, s)'
               PROVE  /\ outbound'[k].message = Complete => s \in closed /\ taken[s] = produced[s]
                      /\ \A j \in 1..MaxItems :
                           outbound'[k].message = Event(j) => Len(q) < j /\ j <= Passed(s)
    BY <1>5 DEF InFlight, NoEnd
  <2>1. CASE k \in 1..L /\ IsItem(k, s) /\ outbound'[k] = outbound[k]
    BY <2>1 DEF Frames, InFlight, L
  <2>2. CASE outbound'[k].message = x
    BY <2>2, <1>1, Tags
  <2> QED BY <1>7, <2>1, <2>2
<1>10. Increasing(s)'
  <2> SUFFICES ASSUME NEW k \in 1..Len(outbound'), NEW l \in 1..Len(outbound'), k < l,
                      IsItem(k, s)', IsItem(l, s)'
               PROVE  /\ outbound'[k].message \notin Ends
                      /\ \A i, j \in 1..MaxItems :
                           outbound'[k].message = Event(i) /\ outbound'[l].message = Event(j) => i < j
    BY DEF Increasing
  <2>1. k \in 1..L /\ IsItem(k, s) /\ outbound'[k] = outbound[k]
    BY <1>3, <1>7
  <2>2. CASE l \in 1..L /\ IsItem(l, s) /\ outbound'[l] = outbound[l]
    BY <2>1, <2>2 DEF Frames, Increasing, L
  <2>3. CASE outbound'[l].message = x
    BY <2>1, <2>3, <1>1, <1>6, Tags
  <2> QED BY <1>7, <2>2, <2>3
<1>11. NoneMissing(s)'
  <2> SUFFICES ASSUME phase # "down", NEW j \in 1..MaxItems, Len(q) < j, j <= Passed(s)
               PROVE  \E k \in 1..Len(outbound') : IsItem(k, s)' /\ outbound'[k].message = Event(j)
    BY DEF NoneMissing
  <2>1. PICK k \in 1..L : IsItem(k, s) /\ outbound[k].message = Event(j)
    BY <1>5 DEF Frames, NoneMissing, L
  <2> QED BY <2>1, <1>3 DEF IsItem
<1> QED BY <1>8, <1>9, <1>10, <1>11 DEF Frames

\* The frames after the first move up by one.
LEMMA PumpKeeps ==
  ASSUME TypeOK, Pump, NEW s \in PeerStreams, Frames(s), ~IsItem(1, s)
  PROVE  Frames(s)'
<1>1. /\ Len(outbound) \in Nat /\ Len(outbound) > 0 /\ Head(outbound) = outbound[1]
      /\ outbound[1] \in Frame
      /\ Len(outbound') = Len(outbound) - 1
      /\ \A k \in 1..Len(outbound') : k + 1 \in 1..Len(outbound) /\ outbound'[k] = outbound[k + 1]
  BY PumpFrames
<1>2. UNCHANGED <<host, produced, closed, taken, phase, hosted>> /\ phase # "down"
  BY DEF Pump, producerVars, consumerVars
<1>3. peer_got'[s] = peer_got[s]
  BY <1>1 DEF Pump, PeerReceives, IsItem, TypeOK
<1>4. /\ (NoEnd(peer_got[s])' <=> NoEnd(peer_got[s])) /\ Passed(s)' = Passed(s)
      /\ \A k \in 1..Len(outbound') : IsItem(k, s)' <=> IsItem(k + 1, s)
  BY <1>1, <1>2, <1>3 DEF NoEnd, Passed, Hosted, IsItem
<1>5. PeerGot(s)'
  BY <1>2, <1>3, <1>4 DEF Frames, PeerGot, IsOrdered, AllBefore
<1>6. InFlight(s)'
  <2> SUFFICES ASSUME NEW k \in 1..Len(outbound'), IsItem(k, s)'
               PROVE  /\ NoEnd(peer_got[s])
                      /\ outbound'[k].message \in Ends => host[s] = "done"
                      /\ outbound'[k].message = Complete => s \in closed /\ taken[s] = produced[s]
                      /\ \A j \in 1..MaxItems :
                           outbound'[k].message = Event(j) => Len(peer_got[s]) < j /\ j <= Passed(s)
    BY <1>2, <1>3, <1>4 DEF InFlight
  <2> QED BY <1>1, <1>4 DEF Frames, InFlight
<1>7. Increasing(s)'
  <2> SUFFICES ASSUME NEW k \in 1..Len(outbound'), NEW l \in 1..Len(outbound'), k < l,
                      IsItem(k, s)', IsItem(l, s)'
               PROVE  /\ outbound'[k].message \notin Ends
                      /\ \A i, j \in 1..MaxItems :
                           outbound'[k].message = Event(i) /\ outbound'[l].message = Event(j) => i < j
    BY DEF Increasing
  <2>1. /\ k + 1 \in 1..Len(outbound) /\ outbound'[k] = outbound[k + 1] /\ IsItem(k + 1, s)
        /\ l + 1 \in 1..Len(outbound) /\ outbound'[l] = outbound[l + 1] /\ IsItem(l + 1, s)
        /\ k + 1 < l + 1
    BY <1>1, <1>4
  <2> QED BY <2>1 DEF Frames, Increasing
<1>8. NoneMissing(s)'
  <2> SUFFICES ASSUME NoEnd(peer_got[s]), NEW j \in 1..MaxItems, Len(peer_got[s]) < j, j <= Passed(s)
               PROVE  \E k \in 1..Len(outbound') : IsItem(k, s)' /\ outbound'[k].message = Event(j)
    BY <1>2, <1>3, <1>4 DEF NoneMissing
  <2>1. PICK k \in 1..Len(outbound) : IsItem(k, s) /\ outbound[k].message = Event(j)
    BY <1>2 DEF Frames, NoneMissing
  <2>2. k - 1 \in 1..Len(outbound') /\ (k - 1) + 1 = k
    BY <2>1, <1>1
  <2> QED BY <2>1, <2>2, <1>1, <1>4
<1> QED BY <1>5, <1>6, <1>7, <1>8 DEF Frames

\* The first frame is the one that comes next: an item in its place, or the end.
LEMMA PumpDelivers ==
  ASSUME TypeOK, Pump, NEW s \in PeerStreams, Frames(s), IsItem(1, s)
  PROVE  Frames(s)'
<1> DEFINE m == outbound[1].message
           q == peer_got[s]
<1>1. /\ Len(outbound) \in Nat /\ Len(outbound) > 0 /\ Head(outbound) = outbound[1]
      /\ outbound[1] \in Frame /\ m \in Message /\ 1 \in 1..Len(outbound)
      /\ Len(outbound') = Len(outbound) - 1
      /\ \A k \in 1..Len(outbound') : k + 1 \in 1..Len(outbound) /\ 1 < k + 1 /\ outbound'[k] = outbound[k + 1]
  BY PumpFrames DEF Frame
<1>2. UNCHANGED <<host, produced, closed, taken, phase, hosted>> /\ phase # "down"
  BY DEF Pump, producerVars, consumerVars
<1>3. /\ q \in Seq(Message) /\ Len(q) \in Nat /\ DOMAIN q = 1..Len(q)
      /\ peer_got'[s] = Append(q, m)
    BY <1>1, LenProperties DEF Pump, PeerReceives, IsItem, TypeOK
<1>4. /\ Passed(s)' = Passed(s)
      /\ \A k \in 1..Len(outbound') : IsItem(k, s)' <=> IsItem(k + 1, s)
  BY <1>1, <1>2 DEF Passed, Hosted, IsItem
<1>5. IsOrdered(q) /\ NoEnd(q) /\ Len(q) <= Passed(s)
  BY <1>1 DEF Frames, PeerGot, InFlight
<1>6. ASSUME m \in Ends, NEW k \in 1..Len(outbound), IsItem(k, s) PROVE k = 1
  BY <1>1, <1>6 DEF Frames, Increasing
<1>7. Increasing(s)'
  <2> SUFFICES ASSUME NEW k \in 1..Len(outbound'), NEW l \in 1..Len(outbound'), k < l,
                      IsItem(k, s)', IsItem(l, s)'
               PROVE  /\ outbound'[k].message \notin Ends
                      /\ \A i, j \in 1..MaxItems :
                           outbound'[k].message = Event(i) /\ outbound'[l].message = Event(j) => i < j
    BY DEF Increasing
  <2>1. /\ k + 1 \in 1..Len(outbound) /\ outbound'[k] = outbound[k + 1] /\ IsItem(k + 1, s)
        /\ l + 1 \in 1..Len(outbound) /\ outbound'[l] = outbound[l + 1] /\ IsItem(l + 1, s)
        /\ k + 1 < l + 1
    BY <1>1, <1>4
  <2> QED BY <2>1 DEF Frames, Increasing
<1>8. CASE m \in Ends
  <2>1. Len(q) = Passed(s)
    <3>1. Passed(s) \in 0..MaxItems
      <4>1. taken[s] \in 0..MaxItems /\ host[s] = "done" /\ Hosted(s)
        BY <1>1, <1>8 DEF TypeOK, Frames, InFlight, AllStreams, Hosted
      <4> QED BY <4>1 DEF Passed
    <3>2. ASSUME Len(q) < Passed(s) PROVE FALSE
      <4>1. Len(q) + 1 \in 1..MaxItems /\ Len(q) < Len(q) + 1 /\ Len(q) + 1 <= Passed(s)
        BY <3>1, <3>2, <1>3, StreamRoutingAssumption
      <4>2. PICK k \in 1..Len(outbound) : IsItem(k, s) /\ outbound[k].message = Event(Len(q) + 1)
        BY <4>1, <1>2, <1>5 DEF Frames, NoneMissing
      <4> QED BY <4>2, <1>6, <1>8, Tags
    <3> QED BY <3>1, <3>2, <1>3, <1>5
  <2>2. /\ host[s] = "done" /\ (m = Complete => s \in closed /\ taken[s] = produced[s])
        /\ Passed(s) = taken[s]
    BY <1>1, <1>8 DEF Frames, InFlight, Passed, Hosted
  <2>3. /\ IsOrdered(Append(q, m))
        /\ \A k \in DOMAIN Append(q, m) : Append(q, m)[k] = Complete => m = Complete /\ k = Len(q) + 1
    BY <1>3, <1>5, <1>8, AppendEnd
  <2>4. ~NoEnd(Append(q, m))
    <3>1. DOMAIN Append(q, m) = 1..(Len(q) + 1) /\ Append(q, m)[Len(q) + 1] = m
      BY <1>1, <1>3, Appending
    <3> QED BY <1>3, <1>8, <3>1 DEF NoEnd
  <2>5. PeerGot(s)'
    BY <1>2, <1>3, <2>1, <2>2, <2>3, <2>4 DEF PeerGot, IsOrdered, AllBefore, NoEnd
  <2>6. \A k \in 1..Len(outbound') : ~IsItem(k, s)'
    BY <1>1, <1>4, <1>6, <1>8
  <2>7. InFlight(s)'
    BY <2>6 DEF InFlight
  <2>8. NoneMissing(s)'
    BY <1>3, <2>4 DEF NoneMissing, NoEnd
  <2> QED BY <1>7, <2>5, <2>7, <2>8 DEF Frames
<1>9. CASE m \notin Ends
  <2>1. PICK n \in 1..MaxItems : m = Event(n)
    BY <1>1, <1>9, Tags
  <2>2. Len(q) < n /\ n <= Passed(s)
    BY <1>1, <2>1 DEF Frames, InFlight
  <2>3. ASSUME NEW k \in 1..Len(outbound), IsItem(k, s), k # 1, NEW j \in 1..MaxItems,
               outbound[k].message = Event(j)
        PROVE  n < j
    BY <1>1, <2>1, <2>3 DEF Frames, Increasing
  <2>4. n = Len(q) + 1
    <3>1. ASSUME n # Len(q) + 1 PROVE FALSE
      <4>1. Passed(s) \in Int
        BY StreamRoutingAssumption DEF Passed, Hosted, TypeOK, AllStreams
      <4>2. Len(q) + 1 \in 1..MaxItems /\ Len(q) < Len(q) + 1 /\ Len(q) + 1 <= Passed(s)
            /\ Len(q) + 1 < n
        BY <2>2, <3>1, <1>3, <4>1, StreamRoutingAssumption
      <4>3. PICK k \in 1..Len(outbound) : IsItem(k, s) /\ outbound[k].message = Event(Len(q) + 1)
        BY <4>2, <1>2, <1>5 DEF Frames, NoneMissing
      <4>4. CASE k = 1
        BY <4>2, <4>3, <4>4, <2>1, Tags
      <4>5. CASE k # 1
        BY <4>2, <4>3, <4>5, <2>3
      <4> QED BY <4>4, <4>5
    <3> QED BY <3>1
  <2>5. IsOrdered(Append(q, m)) /\ NoEnd(Append(q, m)) /\ Len(Append(q, m)) = n
    BY <1>1, <1>3, <1>5, <2>1, <2>4, AppendEvent
  <2>6. PeerGot(s)'
    BY <1>3, <1>4, <2>2, <2>5, Tags DEF PeerGot, IsOrdered, AllBefore, NoEnd
  <2>7. InFlight(s)'
    <3> SUFFICES ASSUME NEW k \in 1..Len(outbound'), IsItem(k, s)'
                 PROVE  /\ outbound'[k].message \in Ends => host[s] = "done"
                        /\ outbound'[k].message = Complete => s \in closed /\ taken[s] = produced[s]
                        /\ \A j \in 1..MaxItems :
                             outbound'[k].message = Event(j) => n < j /\ j <= Passed(s)
      BY <1>2, <1>3, <1>4, <2>5 DEF InFlight, NoEnd
    <3>1. k + 1 \in 1..Len(outbound) /\ k + 1 # 1 /\ IsItem(k + 1, s)
          /\ outbound'[k] = outbound[k + 1]
      BY <1>1, <1>4
    <3> QED BY <3>1, <2>3 DEF Frames, InFlight
  <2>8. NoneMissing(s)'
    <3> SUFFICES ASSUME NEW j \in 1..MaxItems, n < j, j <= Passed(s)
                 PROVE  \E k \in 1..Len(outbound') : IsItem(k, s)' /\ outbound'[k].message = Event(j)
      BY <1>2, <1>3, <1>4, <2>5 DEF NoneMissing
    <3>1. PICK k \in 1..Len(outbound) : IsItem(k, s) /\ outbound[k].message = Event(j)
      BY <1>2, <1>3, <1>5, <2>2 DEF Frames, NoneMissing
    <3>2. k # 1
      BY <3>1, <2>1, Tags
    <3>3. k - 1 \in 1..Len(outbound') /\ (k - 1) + 1 = k
      BY <3>1, <3>2, <1>1
    <3> QED BY <3>1, <3>3, <1>1, <1>4
  <2> QED BY <1>7, <2>6, <2>7, <2>8 DEF Frames
<1> QED BY <1>8, <1>9

LEMMA InitPeerFrames == Init => PeerFrames
<1> SUFFICES ASSUME Init, NEW s \in PeerStreams PROVE Frames(s)
  BY DEF PeerFrames
<1>1. /\ peer_got[s] = <<>> /\ outbound = <<>> /\ Passed(s) = 0 /\ Len(<<>>) = 0
  BY EmptySeq DEF Init, Passed, Hosted, AllStreams
<1> QED BY <1>1 DEF Frames, PeerGot, InFlight, Increasing, NoneMissing, IsOrdered, AllBefore, NoEnd

LEMMA NextPeerFrames == TypeInv /\ Tables /\ PeerFrames /\ [Next]_vars => PeerFrames'
<1> SUFFICES ASSUME TypeInv, Tables, PeerFrames, [Next]_vars PROVE PeerFrames'
  OBVIOUS
<1> SmallTypes /\ TypeOK /\ InHand
  BY Small DEF TypeInv
<1> USE DEF consumerVars, tokenVars, producerVars, HandlePhase, HostPhase, PeerPhase
<1> Streams \subseteq AllStreams /\ PeerStreams \subseteq AllStreams
  BY DEF AllStreams
<1> Streams \cap PeerStreams = {}
  BY StreamRoutingAssumption
<1>0. (\A t \in PeerStreams : QuietPeer(t) /\ SameFrames(t)) => PeerFrames'
  BY QuietFrames DEF PeerFrames
<1>same. UNCHANGED outbound => \A t \in PeerStreams : SameFrames(t)
  BY DEF SameFrames, IsItem
<1>1. ASSUME NEW s \in Streams, Register(s) PROVE PeerFrames'
  <2>1. ASSUME NEW t \in PeerStreams PROVE QuietPeer(t)
    BY <1>1 DEF Register, Tables, Finished, QuietPeer, Passed, Hosted, SmallTypes
  <2>2. UNCHANGED outbound
    BY <1>1 DEF Register
  <2> QED BY <1>0, <1>same, <2>1, <2>2
<1>2. ASSUME NEW s \in Streams, OpenHosted(s) PROVE PeerFrames'
  <2>1. ASSUME NEW t \in PeerStreams PROVE QuietPeer(t)
    BY <1>2 DEF OpenHosted, SpawnDispatch, Tables, Finished, QuietPeer, Passed, Hosted, SmallTypes
  <2>2. UNCHANGED outbound
    BY <1>2 DEF OpenHosted
  <2> QED BY <1>0, <1>same, <2>1, <2>2
<1>3. ASSUME NEW s \in Streams, OpenPeer(s) PROVE PeerFrames'
  <2>1. ASSUME NEW t \in PeerStreams PROVE QuietPeer(t)
    BY <1>3 DEF OpenPeer, Tables, Finished, QuietPeer, Passed, Hosted, SmallTypes
  <2>2. send_outbound("Call", s, Complete)
    BY <1>3 DEF OpenPeer, send_outbound
  <2>3. ASSUME NEW t \in PeerStreams PROVE SameFrames(t)
    BY <2>2, SendOther, Tags
  <2> QED BY <1>0, <2>1, <2>3
<1>4. ASSUME NEW s \in Streams, CancelStream(s) PROVE PeerFrames'
  <2>1. ASSUME NEW t \in PeerStreams PROVE QuietPeer(t)
    BY <1>4 DEF CancelStream, Tables, Finished, QuietPeer, Passed, Hosted, SmallTypes
  <2>2. send_outbound("Cancel", s, Complete)
    BY <1>4 DEF CancelStream, send_outbound
  <2>3. ASSUME NEW t \in PeerStreams PROVE SameFrames(t)
    BY <2>2, SendOther, Tags
  <2> QED BY <1>0, <2>1, <2>3
<1>5. ASSUME NEW s \in Streams, Recv(s) PROVE PeerFrames'
  <2>1. ASSUME NEW t \in PeerStreams PROVE QuietPeer(t)
    BY <1>5 DEF Recv, Tables, Finished, QuietPeer, Passed, Hosted, SmallTypes
  <2>2. UNCHANGED outbound
    BY <1>5 DEF Recv
  <2> QED BY <1>0, <1>same, <2>1, <2>2
<1>6. ASSUME NEW s \in Streams, DropHandle(s) PROVE PeerFrames'
  <2>1. ASSUME NEW t \in PeerStreams PROVE QuietPeer(t)
    BY <1>6 DEF DropHandle, Tables, Finished, QuietPeer, Passed, Hosted, SmallTypes
  <2>2. UNCHANGED outbound
    BY <1>6 DEF DropHandle
  <2> QED BY <1>0, <1>same, <2>1, <2>2
<1>7. ASSUME NEW s \in Streams, PushHosted(s) PROVE PeerFrames'
  <2>1. ASSUME NEW t \in PeerStreams PROVE QuietPeer(t)
    BY <1>7 DEF PushHosted, Tables, Finished, QuietPeer, Passed, Hosted, SmallTypes
  <2>2. UNCHANGED outbound
    BY <1>7 DEF PushHosted
  <2> QED BY <1>0, <1>same, <2>1, <2>2
<1>8. ASSUME NEW s \in Streams, PeerEmit(s) PROVE PeerFrames'
  <2>1. ASSUME NEW t \in PeerStreams PROVE QuietPeer(t)
    BY <1>8 DEF PeerEmit, Tables, Finished, QuietPeer, Passed, Hosted, SmallTypes
  <2>2. UNCHANGED outbound
    BY <1>8 DEF PeerEmit
  <2> QED BY <1>0, <1>same, <2>1, <2>2
<1>9. ASSUME NEW s \in Streams, PeerEmitCancelled(s) PROVE PeerFrames'
  <2>1. ASSUME NEW t \in PeerStreams PROVE QuietPeer(t)
    BY <1>9 DEF PeerEmitCancelled, Tables, Finished, QuietPeer, Passed, Hosted, SmallTypes
  <2>2. UNCHANGED outbound
    BY <1>9 DEF PeerEmitCancelled
  <2> QED BY <1>0, <1>same, <2>1, <2>2
<1>10. ASSUME NEW s \in Streams, PeerPush(s) PROVE PeerFrames'
  <2>1. ASSUME NEW t \in PeerStreams PROVE QuietPeer(t)
    BY <1>10 DEF PeerPush, Tables, Finished, QuietPeer, Passed, Hosted, SmallTypes
  <2>2. UNCHANGED outbound
    BY <1>10 DEF PeerPush
  <2> QED BY <1>0, <1>same, <2>1, <2>2
<1>11. ASSUME NEW s \in AllStreams, OpenStream(s) PROVE PeerFrames'
  <2>1. ASSUME NEW t \in PeerStreams PROVE QuietPeer(t)
    BY <1>11 DEF OpenStream, Tables, Finished, QuietPeer, Passed, Hosted, SmallTypes
  <2>2. UNCHANGED outbound
    BY <1>11 DEF OpenStream
  <2> QED BY <1>0, <1>same, <2>1, <2>2
<1>12. ASSUME NEW s \in AllStreams, Respond(s) PROVE PeerFrames'
  <2>1. ASSUME NEW t \in PeerStreams \ {s} PROVE QuietPeer(t)
    BY <1>12 DEF Respond, QuietPeer, Passed, Hosted, SmallTypes
  <2>2. ASSUME NEW t \in PeerStreams \ {s} PROVE SameFrames(t)
    <3>1. CASE send_outbound("Item", s, Failure)
      BY <3>1, SendOther, Tags
    <3> QED BY <1>12, <3>1, <1>same DEF Respond
  <2>3. ASSUME s \in PeerStreams PROVE Frames(s)'
    <3>1. /\ send_outbound("Item", s, Failure) /\ host[s] = "respond" /\ host'[s] = "done"
          /\ UNCHANGED <<hosted, phase, closed, produced, taken, peer_got>>
      BY <1>12, <2>3 DEF Respond, SmallTypes
    <3>2. Passed(s)' = Passed(s)
      BY <3>1, <2>3 DEF Passed, Hosted
    <3> QED BY <2>3, <3>1, <3>2, SendsEnd, Tags DEF PeerFrames
  <2> QED BY <2>1, <2>2, <2>3, QuietFrames DEF PeerFrames
<1>13. ASSUME NEW s \in AllStreams, Take(s) PROVE PeerFrames'
  <2>1. ASSUME NEW t \in PeerStreams PROVE QuietPeer(t)
    BY <1>13 DEF Take, Tables, Finished, QuietPeer, Passed, Hosted, SmallTypes
  <2>2. UNCHANGED outbound
    BY <1>13 DEF Take
  <2> QED BY <1>0, <1>same, <2>1, <2>2
<1>14. ASSUME NEW s \in AllStreams, RouteEvent(s) PROVE PeerFrames'
  <2>1. ASSUME NEW t \in PeerStreams PROVE QuietPeer(t)
    BY <1>14 DEF RouteEvent, Tables, Finished, QuietPeer, Passed, Hosted, SmallTypes
  <2>2. UNCHANGED outbound
    BY <1>14 DEF RouteEvent
  <2> QED BY <1>0, <1>same, <2>1, <2>2
<1>15. ASSUME NEW s \in AllStreams, LookUp(s) PROVE PeerFrames'
  <2>1. ASSUME NEW t \in PeerStreams PROVE QuietPeer(t)
    BY <1>15 DEF LookUp, Tables, Finished, QuietPeer, Passed, Hosted, SmallTypes
  <2>2. UNCHANGED outbound
    BY <1>15 DEF LookUp
  <2> QED BY <1>0, <1>same, <2>1, <2>2
<1>16. ASSUME NEW s \in AllStreams, LookUpEnd(s) PROVE PeerFrames'
  <2>1. ASSUME NEW t \in PeerStreams PROVE QuietPeer(t)
    BY <1>16 DEF LookUpEnd, Tables, Finished, QuietPeer, Passed, Hosted, SmallTypes
  <2>2. UNCHANGED outbound
    BY <1>16 DEF LookUpEnd
  <2> QED BY <1>0, <1>same, <2>1, <2>2
<1>17. ASSUME NEW s \in AllStreams, SendItem(s) PROVE PeerFrames'
  <2>1. ASSUME NEW t \in PeerStreams \ {s} PROVE QuietPeer(t)
    BY <1>17 DEF SendItem, QuietPeer, Passed, Hosted, SmallTypes
  <2>2. ASSUME NEW t \in PeerStreams \ {s} PROVE SameFrames(t)
    <3>1. CASE host[s] = "send" /\ send_outbound("Item", s, Event(taken[s]))
      <4>1. Event(taken[s]) \in Message
        BY <3>1, Tags DEF InHand, TypeOK
      <4> QED BY <3>1, <4>1, SendOther
    <3>2. CASE send_outbound("Item", s, Complete)
      BY <3>2, SendOther, Tags
    <3> QED BY <1>17, <3>1, <3>2 DEF SendItem
  <2>3. ASSUME s \in PeerStreams PROVE Frames(s)'
    <3>1. CASE host[s] = "send"
      BY <1>17, <2>3, <3>1, SendsItem DEF PeerFrames
    <3>2. CASE host[s] = "end_send"
      <4>1. /\ send_outbound("Item", s, Complete) /\ host'[s] = "done"
            /\ UNCHANGED <<hosted, phase, closed, produced, taken, peer_got>>
        BY <1>17, <3>2 DEF SendItem, SmallTypes
      <4>2. Passed(s)' = Passed(s)
        BY <4>1, <2>3, <3>2 DEF Passed, Hosted
      <4>3. s \in closed /\ taken[s] = produced[s]
        BY <3>2 DEF Tables, Finished
      <4> QED BY <2>3, <3>2, <4>1, <4>2, <4>3, SendsEnd DEF PeerFrames
    <3> QED BY <1>17, <3>1, <3>2 DEF SendItem
  <2> QED BY <2>1, <2>2, <2>3, QuietFrames DEF PeerFrames
<1>18. ASSUME NEW s \in AllStreams, Produce(s) PROVE PeerFrames'
  <2>1. ASSUME NEW t \in PeerStreams PROVE QuietPeer(t)
    BY <1>18 DEF Produce, Tables, Finished, QuietPeer, Passed, Hosted, SmallTypes
  <2>2. UNCHANGED outbound
    BY <1>18 DEF Produce
  <2> QED BY <1>0, <1>same, <2>1, <2>2
<1>19. ASSUME NEW s \in PeerStreams, PeerOpen(s) PROVE PeerFrames'
  <2>1. ASSUME NEW t \in PeerStreams PROVE QuietPeer(t)
    BY <1>19 DEF PeerOpen, SpawnDispatch, Tables, Finished, QuietPeer, Passed, Hosted, SmallTypes
  <2>2. UNCHANGED outbound
    BY <1>19 DEF PeerOpen
  <2> QED BY <1>0, <1>same, <2>1, <2>2
<1>20. ASSUME NEW s \in PeerStreams, PeerCancel(s) PROVE PeerFrames'
  <2>1. ASSUME NEW t \in PeerStreams PROVE QuietPeer(t)
    BY <1>20 DEF PeerCancel, Tables, Finished, QuietPeer, Passed, Hosted, SmallTypes
  <2>2. UNCHANGED outbound
    BY <1>20 DEF PeerCancel
  <2> QED BY <1>0, <1>same, <2>1, <2>2
<1>21. CASE Pump
  BY <1>21, PumpKeeps, PumpDelivers DEF PeerFrames
<1>22. CASE Shutdown
  <2>1. ASSUME NEW t \in PeerStreams PROVE QuietPeer(t)
    BY <1>22 DEF Shutdown, QuietPeer, Passed, Hosted, SmallTypes
  <2>2. UNCHANGED outbound
    BY <1>22 DEF Shutdown
  <2> QED BY <1>0, <1>same, <2>1, <2>2
<1>23. CASE StopPump
  <2> SUFFICES ASSUME NEW t \in PeerStreams PROVE Frames(t)'
    BY DEF PeerFrames
  <2>1. /\ outbound' = <<>> /\ Len(<<>>) = 0 /\ phase' = "down"
        /\ UNCHANGED <<hosted, host, produced, closed, taken, peer, peer_got>>
    BY <1>23, EmptySeq DEF StopPump
  <2>2. Passed(t)' = Passed(t)
    BY <2>1 DEF Passed, Hosted
  <2>3. PeerGot(t)'
    BY <2>1, <2>2 DEF PeerFrames, Frames, PeerGot, IsOrdered, AllBefore, NoEnd
  <2> QED BY <2>1, <2>3 DEF Frames, InFlight, Increasing, NoneMissing
<1>24. CASE UNCHANGED vars
  <2>1. ASSUME NEW t \in PeerStreams PROVE QuietPeer(t)
    BY <1>24 DEF vars, QuietPeer, Passed, Hosted, SmallTypes
  <2>2. UNCHANGED outbound
    BY <1>24 DEF vars
  <2> QED BY <1>0, <1>same, <2>1, <2>2
<1> QED
  BY <1>1, <1>2, <1>3, <1>4, <1>5, <1>6, <1>7, <1>8, <1>9, <1>10, <1>11, <1>12, <1>13, <1>14,
     <1>15, <1>16, <1>17, <1>18, <1>19, <1>20, <1>21, <1>22, <1>23, <1>24
     DEF Next, HandleStep, HostStep, PeerStep
-----------------------------------------------------------------------------
LEMMA Inductive == Spec => []StreamInv
<1>1. Init => StreamInv
  BY InitType, InitTables, InitDeliveries, InitPeerFrames DEF StreamInv, TypeInv
<1>2. StreamInv /\ [Next]_vars => StreamInv'
  BY NextType, NextTables, NextDeliveries, NextPeerFrames DEF StreamInv, TypeInv
<1> QED BY <1>1, <1>2, PTL DEF Spec

\* What a consumer reads, here or at the peer, is a prefix of what the producer
\* emitted, and all of it if it reads Complete, for any streams, any capacity and
\* any race of the pump, the peer, a drop, a cancellation and a shutdown; and a
\* registration has somebody who removes it.
THEOREM StreamsAreWhole == Spec => []StreamsWhole
<1>1. StreamInv => StreamsWhole
  BY DEF StreamInv, StreamsWhole, Tables, StreamsInOrder, CompleteMeansAll, Deliveries, Delivers,
         PeerFrames, Frames, PeerGot
<1> QED BY <1>1, Inductive, PTL
=============================================================================
