---------------------------- MODULE StreamRouting ----------------------------
(***************************************************************************)
(* Event streams through istmo_core::Runtime: the stream registrations and *)
(* their bounded channels, the pump thread of a stream hosted in Rust, the *)
(* frames of a stream served by the peer, dropping a StreamHandle, and     *)
(* shutdown.                                                               *)
(*                                                                         *)
(* Streams are opened by Rust code (Streams), and served by a host of this *)
(* runtime or by the peer; or they are opened by the peer (PeerStreams)    *)
(* and served by a host.  Ids do not meet here: CallRouting shows what     *)
(* happens when they do.  The items of a stream are numbered in the order  *)
(* its producer emits them.                                                *)
(***************************************************************************)
EXTENDS Naturals, Sequences, FiniteSets

CONSTANTS
  Streams,      \* streams opened by Rust code
  PeerStreams,  \* streams opened by the peer
  MaxItems,     \* bound on the items a producer emits
  Capacity,     \* of Runtime::stream; 0 is an unbounded channel
  OutboundCap,  \* RuntimeConfig.outbound_capacity
  MayShutDown   \* whether Runtime::shutdown may be called

ASSUME StreamRoutingAssumption ==
  /\ Streams \cap PeerStreams = {}
  /\ MaxItems \in Nat
  /\ Capacity \in Nat
  /\ OutboundCap \in Nat \ {0}
  /\ MayShutDown \in BOOLEAN

VARIABLES
  pending,     \* streams registered in RoutingTables.pending
  buffer,      \* stream -> messages in its flume channel
  handle,      \* stream -> progress of stream() and of its StreamHandle
  hosted,      \* stream -> served by a host of this runtime
  received,    \* stream -> what the consumer took from the handle
  cancelled_hosted, \* stream -> whose token is in the table
  tripped,     \* streams whose host's token is tripped
  host,        \* stream -> progress of the dispatch, then of the pump thread
  produced,    \* stream -> items its producer emitted
  closed,      \* streams whose producer dropped its sender
  taken,       \* stream -> items its pump took from the producer
  peer,        \* stream -> the peer's work on a stream of ours
  peer_got,    \* peer stream -> what the peer was sent
  outbound,    \* frames in the outbound channel
  phase        \* "up", "cleared" by shutdown, "down": the pump is gone

consumerVars == <<buffer, handle, hosted, received>>
tokenVars == <<cancelled_hosted, tripped>>
producerVars == <<produced, closed, taken>>
vars == <<pending, consumerVars, tokenVars, host, producerVars, peer, peer_got,
          outbound, phase>>

AllStreams == Streams \cup PeerStreams
Hosted(s) == s \in PeerStreams \/ hosted[s]

Event(n) == <<"event", n>>
Complete == <<"complete", 0>>
Cancelled == <<"cancelled", 0>>
Closed == <<"closed", 0>>   \* recv() returned ChannelClosed
Failure == <<"failure", 0>> \* an error Respond
Ends == {Complete, Cancelled, Closed, Failure}
Message == {Event(n) : n \in 1..MaxItems} \cup Ends
Frame == [kind : {"Call", "Cancel", "Item"}, stream : AllStreams, message : Message]

HandlePhase == {"idle", "registered", "failed", "open", "dropping", "dropped"}
HostPhase == {"none", "running", "respond", "pumping", "event", "lookup",
              "blocked", "send", "ending", "end_lookup", "end_blocked",
              "end_send", "done", "discarded"}
PeerPhase == {"none", "serving", "blocked", "blocked_cancelled", "cancelled",
             "end_blocked", "ended"}

TypeOK ==
  /\ pending \subseteq Streams
  /\ buffer \in [Streams -> Seq(Message)]
  /\ \A s \in Streams : Capacity = 0 \/ Len(buffer[s]) <= Capacity
  /\ handle \in [Streams -> HandlePhase]
  /\ hosted \in [Streams -> BOOLEAN]
  /\ received \in [Streams -> Seq(Message)]
  /\ cancelled_hosted \in [AllStreams -> {"none", "host", "fresh"}]
  /\ tripped \subseteq AllStreams
  /\ host \in [AllStreams -> HostPhase]
  /\ produced \in [AllStreams -> 0..MaxItems]
  /\ closed \subseteq AllStreams
  /\ taken \in [AllStreams -> 0..MaxItems]
  /\ peer \in [Streams -> PeerPhase]
  /\ peer_got \in [PeerStreams -> Seq(Message)]
  /\ outbound \in Seq(Frame)
  /\ Len(outbound) <= OutboundCap
  /\ phase \in {"up", "cleared", "down"}

Init ==
  /\ pending = {}
  /\ buffer = [s \in Streams |-> <<>>]
  /\ handle = [s \in Streams |-> "idle"]
  /\ hosted = [s \in Streams |-> FALSE]
  /\ received = [s \in Streams |-> <<>>]
  /\ cancelled_hosted = [s \in AllStreams |-> "none"]
  /\ tripped = {}
  /\ host = [s \in AllStreams |-> "none"]
  /\ produced = [s \in AllStreams |-> 0]
  /\ closed = {}
  /\ taken = [s \in AllStreams |-> 0]
  /\ peer = [s \in Streams |-> "none"]
  /\ peer_got = [s \in PeerStreams |-> <<>>]
  /\ outbound = <<>>
  /\ phase = "up"

-----------------------------------------------------------------------------
(* The channels.                                                           *)

\* flume's bounded send into the outbound channel blocks while it is full.
Enqueue(kind, s, message) ==
  /\ phase # "down"
  /\ Len(outbound) < OutboundCap
  /\ outbound' = Append(outbound, [kind |-> kind, stream |-> s, message |-> message])

send_outbound(kind, s, message) ==
  \/ Enqueue(kind, s, message)
  \/ phase = "down" /\ UNCHANGED outbound

\* The blocking send of a message into a stream's channel: it waits for room
\* and fails once the handle, and so the receiver, is gone.
Push(s, message) ==
  \/ /\ handle[s] # "dropped"
     /\ Capacity = 0 \/ Len(buffer[s]) < Capacity
     /\ buffer' = [buffer EXCEPT ![s] = Append(@, message)]
  \/ /\ handle[s] = "dropped"
     /\ UNCHANGED buffer

\* A sender of the stream's channel is alive: in the table, or cloned by a
\* thread that is about to send.
SenderAlive(s) ==
  \/ s \in pending
  \/ host[s] \in {"blocked", "end_blocked"}
  \/ peer[s] \in {"blocked", "blocked_cancelled", "end_blocked"}

-----------------------------------------------------------------------------
(* The consumer's side.                                                    *)

\* The thread that serves stream s is spawned; its token is in the table.
SpawnDispatch(s) ==
  /\ host' = [host EXCEPT ![s] = "running"]
  /\ cancelled_hosted' = [cancelled_hosted EXCEPT ![s] = "host"]
  /\ tripped' = IF cancelled_hosted[s] = "fresh" THEN tripped \cup {s} ELSE tripped

\* Runtime::stream, up to register_stream and the look-up of the host.
Register(s) ==
  /\ handle[s] = "idle"
  /\ handle' = [handle EXCEPT ![s] = "registered"]
  /\ pending' = pending \cup {s}
  /\ \E h \in BOOLEAN : hosted' = [hosted EXCEPT ![s] = h]
  /\ UNCHANGED <<buffer, received, tokenVars, host, producerVars, peer,
                 peer_got, outbound, phase>>

\* Runtime::stream for a plugin this runtime hosts.
OpenHosted(s) ==
  /\ handle[s] = "registered"
  /\ hosted[s]
  /\ SpawnDispatch(s)
  /\ handle' = [handle EXCEPT ![s] = "open"]
  /\ UNCHANGED <<pending, buffer, hosted, received, producerVars, peer,
                 peer_got, outbound, phase>>

\* Runtime::stream for any other plugin.
OpenPeer(s) ==
  /\ handle[s] = "registered"
  /\ ~hosted[s]
  /\ \/ /\ Enqueue("Call", s, Complete)
        /\ handle' = [handle EXCEPT ![s] = "open"]
     \/ /\ phase = "down"
        /\ handle' = [handle EXCEPT ![s] = "failed"]
        /\ UNCHANGED outbound
  /\ UNCHANGED <<pending, buffer, hosted, received, tokenVars, host,
                 producerVars, peer, peer_got, phase>>

\* StreamHandle::recv, recv_async: the next message, or ChannelClosed when
\* the channel is empty and its last sender gone.
Recv(s) ==
  /\ handle[s] = "open"
  /\ \/ /\ buffer[s] # <<>>
        /\ received' = [received EXCEPT ![s] = Append(@, Head(buffer[s]))]
        /\ buffer' = [buffer EXCEPT ![s] = Tail(@)]
     \/ /\ buffer[s] = <<>>
        /\ ~SenderAlive(s)
        /\ Closed \notin {received[s][k] : k \in DOMAIN received[s]}
        /\ received' = [received EXCEPT ![s] = Append(@, Closed)]
        /\ UNCHANGED buffer
  /\ UNCHANGED <<pending, handle, hosted, tokenVars, host, producerVars, peer,
                 peer_got, outbound, phase>>

\* StreamHandle::drop calls cancel_stream, which removes the registration ...
DropHandle(s) ==
  /\ handle[s] = "open"
  /\ pending' = pending \ {s}
  /\ handle' = [handle EXCEPT ![s] = "dropping"]
  /\ UNCHANGED <<buffer, hosted, received, tokenVars, host, producerVars, peer,
                 peer_got, outbound, phase>>

\* ... and sends a Cancel to the peer, whoever serves the stream; then the
\* receiver is dropped with what it buffers.
CancelStream(s) ==
  /\ handle[s] = "dropping"
  /\ send_outbound("Cancel", s, Complete)
  /\ handle' = [handle EXCEPT ![s] = "dropped"]
  /\ buffer' = [buffer EXCEPT ![s] = <<>>]
  /\ UNCHANGED <<pending, hosted, received, tokenVars, host, producerVars,
                 peer, peer_got, phase>>
-----------------------------------------------------------------------------
(* A stream served by a host of this runtime.                              *)

\* The method returns: the token leaves the table, a cancelled outcome is
\* discarded, StreamOpened starts the pump thread, anything else responds.
OpenStream(s) ==
  /\ host[s] = "running"
  /\ cancelled_hosted' = [cancelled_hosted EXCEPT ![s] = "none"]
  /\ \E outcome \in {"pumping", "respond"} :
       host' = [host EXCEPT ![s] = IF s \in tripped THEN "discarded" ELSE outcome]
  /\ UNCHANGED <<pending, consumerVars, tripped, producerVars, peer, peer_got,
                 outbound, phase>>

\* Variant: the mismatch is noticed before the registration is taken.
RespondKeepingEntry(s) ==
  /\ host[s] = "respond"
  /\ host' = [host EXCEPT ![s] = "done"]
  /\ \/ s \in pending /\ UNCHANGED outbound
     \/ s \notin pending /\ send_outbound("Item", s, Failure)
  /\ UNCHANGED <<pending, consumerVars, tokenVars, producerVars, peer, peer_got,
                 phase>>

\* send_respond for a stream: the registration is taken, and the error lost
\* with it ("response landed on a stream registration").
Respond(s) ==
  /\ host[s] = "respond"
  /\ host' = [host EXCEPT ![s] = "done"]
  /\ \/ s \in pending /\ pending' = pending \ {s} /\ UNCHANGED outbound
     \/ s \notin pending /\ send_outbound("Item", s, Failure) /\ UNCHANGED pending
  /\ UNCHANGED <<consumerVars, tokenVars, producerVars, peer, peer_got, phase>>

\* The plugin emits an item, or drops its sender.
Produce(s) ==
  /\ host[s] \in {"pumping", "event", "lookup", "blocked", "send"}
  /\ s \notin closed
  /\ \/ /\ produced[s] < MaxItems
        /\ produced' = [produced EXCEPT ![s] = @ + 1]
        /\ UNCHANGED closed
     \/ /\ closed' = closed \cup {s}
        /\ UNCHANGED produced
  /\ UNCHANGED <<pending, consumerVars, tokenVars, host, taken, peer, peer_got,
                 outbound, phase>>

\* Variant: the pump ends as soon as the producer is gone.
TakeUntilClosed(s) ==
  /\ host[s] = "pumping"
  /\ \/ /\ s \notin closed
        /\ taken[s] < produced[s]
        /\ taken' = [taken EXCEPT ![s] = @ + 1]
        /\ host' = [host EXCEPT ![s] = "event"]
     \/ /\ s \in closed
        /\ host' = [host EXCEPT ![s] = "ending"]
        /\ UNCHANGED taken
  /\ UNCHANGED <<pending, consumerVars, tokenVars, produced, closed, peer,
                 peer_got, outbound, phase>>

\* spawn_stream_pump: receiver.recv() ...
Take(s) ==
  /\ host[s] = "pumping"
  /\ \/ /\ taken[s] < produced[s]
        /\ taken' = [taken EXCEPT ![s] = @ + 1]
        /\ host' = [host EXCEPT ![s] = "event"]
     \/ /\ taken[s] = produced[s]
        /\ s \in closed
        /\ host' = [host EXCEPT ![s] = "ending"]
        /\ UNCHANGED taken
  /\ UNCHANGED <<pending, consumerVars, tokenVars, produced, closed, peer,
                 peer_got, outbound, phase>>

\* ... send_event decides on has_pending ...
RouteEvent(s) ==
  /\ host[s] \in {"event", "ending"}
  /\ host' = [host EXCEPT ![s] =
                IF host[s] = "event"
                THEN IF s \in pending THEN "lookup" ELSE "send"
                ELSE IF s \in pending THEN "end_lookup" ELSE "end_send"]
  /\ UNCHANGED <<pending, consumerVars, tokenVars, producerVars, peer, peer_got,
                 outbound, phase>>

\* ... deliver_event clones the sender, if it is still there ...
LookUp(s) ==
  /\ host[s] = "lookup"
  /\ host' = [host EXCEPT ![s] = IF s \in pending THEN "blocked" ELSE "pumping"]
  /\ UNCHANGED <<pending, consumerVars, tokenVars, producerVars, peer, peer_got,
                 outbound, phase>>

\* ... and deliver_stream_end takes the registration itself.
LookUpEnd(s) ==
  /\ host[s] = "end_lookup"
  /\ host' = [host EXCEPT ![s] = IF s \in pending THEN "end_blocked" ELSE "done"]
  /\ pending' = pending \ {s}
  /\ UNCHANGED <<consumerVars, tokenVars, producerVars, peer, peer_got,
                 outbound, phase>>

\* The send into the stream's channel.
PushHosted(s) ==
  /\ \/ /\ host[s] = "blocked"
        /\ Push(s, Event(taken[s]))
        /\ host' = [host EXCEPT ![s] = "pumping"]
     \/ /\ host[s] = "end_blocked"
        /\ Push(s, Complete)
        /\ host' = [host EXCEPT ![s] = "done"]
  /\ UNCHANGED <<pending, handle, hosted, received, tokenVars, producerVars,
                 peer, peer_got, outbound, phase>>

\* The frame for a stream that is not registered here.
SendItem(s) ==
  /\ \/ /\ host[s] = "send"
        /\ send_outbound("Item", s, Event(taken[s]))
        /\ host' = [host EXCEPT ![s] = "pumping"]
     \/ /\ host[s] = "end_send"
        /\ send_outbound("Item", s, Complete)
        /\ host' = [host EXCEPT ![s] = "done"]
  /\ UNCHANGED <<pending, consumerVars, tokenVars, producerVars, peer,
                 peer_got, phase>>

-----------------------------------------------------------------------------
(* The peer: streams it opens and cancels, streams of ours it serves.      *)

\* Inbound Call of the peer for a stream method.
PeerOpen(s) ==
  /\ host[s] = "none"
  /\ SpawnDispatch(s)
  /\ UNCHANGED <<pending, consumerVars, producerVars, peer, peer_got, outbound,
                 phase>>

\* Inbound Cancel: the host's token if it is in the table, a fresh one if not.
PeerCancel(s) ==
  /\ \/ /\ cancelled_hosted[s] = "host"
        /\ tripped' = tripped \cup {s}
        /\ UNCHANGED cancelled_hosted
     \/ /\ cancelled_hosted[s] = "none"
        /\ cancelled_hosted' = [cancelled_hosted EXCEPT ![s] = "fresh"]
        /\ UNCHANGED tripped
  /\ UNCHANGED <<pending, consumerVars, host, producerVars, peer, peer_got,
                 outbound, phase>>

\* The peer's producer of a stream of ours: an item, an end, an error Respond,
\* or a failure of its flow, which it reports like a cancellation.  Items and
\* ends are injected by dispatch_inbound, by one sequential collector.
PeerEmit(s) ==
  /\ peer[s] = "serving"
  /\ \/ /\ produced[s] < MaxItems
        /\ produced' = [produced EXCEPT ![s] = @ + 1]
        /\ peer' = [peer EXCEPT ![s] = IF s \in pending THEN "blocked" ELSE "serving"]
        /\ UNCHANGED <<closed, pending>>
     \/ /\ closed' = closed \cup {s}
        /\ pending' = pending \ {s}
        /\ peer' = [peer EXCEPT ![s] = IF s \in pending THEN "end_blocked" ELSE "ended"]
        /\ UNCHANGED produced
     \/ /\ closed' = closed \cup {s}
        /\ pending' = pending \ {s}
        /\ peer' = [peer EXCEPT ![s] = "ended"]
        /\ UNCHANGED produced
     \/ /\ peer' = [peer EXCEPT ![s] = "cancelled"]
        /\ UNCHANGED <<produced, closed, pending>>
  /\ UNCHANGED <<consumerVars, tokenVars, host, taken, peer_got, outbound, phase>>

\* A cancelled or failed collector reports StreamEnd(Cancelled).
PeerEmitCancelled(s) ==
  /\ peer[s] = "cancelled"
  /\ pending' = pending \ {s}
  /\ peer' = [peer EXCEPT ![s] = IF s \in pending THEN "end_blocked" ELSE "ended"]
  /\ UNCHANGED <<consumerVars, tokenVars, host, producerVars, peer_got,
                 outbound, phase>>

\* The blocking send of what the peer injected.
PeerPush(s) ==
  /\ \/ /\ peer[s] \in {"blocked", "blocked_cancelled"}
        /\ Push(s, Event(produced[s]))
        /\ peer' = [peer EXCEPT ![s] = IF @ = "blocked" THEN "serving" ELSE "cancelled"]
     \/ /\ peer[s] = "end_blocked"
        /\ Push(s, IF s \in closed THEN Complete ELSE Cancelled)
        /\ peer' = [peer EXCEPT ![s] = "ended"]
  /\ UNCHANGED <<pending, handle, hosted, received, tokenVars, host,
                 producerVars, peer_got, outbound, phase>>

\* What the peer does with a frame: it starts or cancels its work on a stream
\* of ours, or passes an item of a stream of its own on.
PeerReceives(frame) ==
  LET s == frame.stream IN
  \/ /\ frame.kind = "Call"
     /\ peer' = [peer EXCEPT ![s] = "serving"]
     /\ UNCHANGED peer_got
  \/ /\ frame.kind = "Cancel"
     /\ peer' = [peer EXCEPT ![s] = CASE @ = "serving" -> "cancelled"
                                      [] @ = "blocked" -> "blocked_cancelled"
                                      [] OTHER -> @]
     /\ UNCHANGED peer_got
  \/ /\ frame.kind = "Item"
     /\ peer_got' = IF s \in PeerStreams
                    THEN [peer_got EXCEPT ![s] = Append(@, frame.message)]
                    ELSE peer_got
     /\ UNCHANGED peer

\* One turn of the transport's pump.
Pump ==
  /\ phase # "down"
  /\ outbound # <<>>
  /\ PeerReceives(Head(outbound))
  /\ outbound' = Tail(outbound)
  /\ UNCHANGED <<pending, consumerVars, tokenVars, host, producerVars, phase>>

\* Runtime::shutdown clears the pending table ...
Shutdown ==
  /\ MayShutDown
  /\ phase = "up"
  /\ phase' = "cleared"
  /\ pending' = {}
  /\ UNCHANGED <<consumerVars, tokenVars, host, producerVars, peer, peer_got,
                 outbound>>

\* ... and the transport stops its pump.
StopPump ==
  /\ phase = "cleared"
  /\ phase' = "down"
  /\ outbound' = <<>>
  /\ UNCHANGED <<pending, consumerVars, tokenVars, host, producerVars, peer,
                 peer_got>>
-----------------------------------------------------------------------------
HandleStep(s) == OpenHosted(s) \/ OpenPeer(s) \/ CancelStream(s)

HostStep(s) ==
  \/ OpenStream(s) \/ Respond(s) \/ Take(s) \/ RouteEvent(s) \/ LookUp(s)
  \/ LookUpEnd(s) \/ SendItem(s)

PeerStep(s) == PeerEmitCancelled(s) \/ PeerPush(s)

Next ==
  \/ \E s \in Streams :
       \/ Register(s) \/ HandleStep(s) \/ Recv(s) \/ DropHandle(s)
       \/ PushHosted(s) \/ PeerEmit(s) \/ PeerStep(s)
  \/ \E s \in AllStreams : HostStep(s) \/ Produce(s)
  \/ \E s \in PeerStreams : PeerOpen(s) \/ PeerCancel(s)
  \/ Pump \/ Shutdown \/ StopPump

Spec == Init /\ [][Next]_vars

\* Every thread of the process runs and the peer's pump turns.  Nobody has to
\* open, read, drop or cancel a stream, and no producer has to emit or end.
Fairness ==
  /\ \A s \in Streams :
       /\ WF_vars(HandleStep(s))
       /\ WF_vars(PushHosted(s))
       /\ WF_vars(PeerStep(s))
  /\ \A s \in AllStreams : WF_vars(HostStep(s))
  /\ WF_vars(Pump)
  /\ WF_vars(StopPump)

FairSpec == Spec /\ Fairness

\* The consumers also keep reading.
ReadingSpec == FairSpec /\ \A s \in Streams : WF_vars(Recv(s))
-----------------------------------------------------------------------------
(* Safety.                                                                 *)

\* The item at place k is the kth its producer emitted, and nothing follows an
\* end, but the ChannelClosed the consumer then reads.
IsOrdered(messages) ==
  \A k \in DOMAIN messages :
    \/ messages[k] = Event(k)
    \/ /\ messages[k] \in Ends
       /\ \A j \in (k + 1)..Len(messages) : messages[j] = Closed /\ messages[k] # Closed

\* What the consumer has read, and what is buffered for it.
Delivered(s) == received[s] \o buffer[s]

\* What a consumer reads, with what is buffered for it, are the items in the
\* order of the producer, none missing and none twice, then the end; the same
\* for what a peer is sent.  ("Items are delivered in publish order".)
StreamsInOrder ==
  /\ \A s \in Streams : IsOrdered(Delivered(s))
  /\ \A s \in PeerStreams : IsOrdered(peer_got[s])

\* Complete comes after the last item the producer of s emitted before it ended.
AllBefore(s, messages) ==
  \A k \in DOMAIN messages :
    messages[k] = Complete => s \in closed /\ k = produced[s] + 1

\* A stream that reads Complete has read every item, however the end of the
\* producer races the pump, a full channel, a cancellation and a shutdown.
CompleteMeansAll ==
  /\ \A s \in Streams : AllBefore(s, Delivered(s))
  /\ \A s \in PeerStreams : AllBefore(s, peer_got[s])

\* A registration is held by a live handle, or by the call to stream() that
\* makes it: dropping the handle, the end of the stream and an error leave
\* none behind, except when the send that opens the stream fails.
RegistrationHasHandle ==
  \A s \in pending : handle[s] \in {"registered", "open", "failed"}

\* Dropping the handle of a stream trips its host's token (dispatch.rs: it
\* "fires when the caller either drops its handle or sends Frame::Cancel").
DroppedHandleTripsToken ==
  \A s \in Streams :
    handle[s] = "dropped" /\ host[s] \in {"running", "pumping"} => s \in tripped

-----------------------------------------------------------------------------
(* Liveness.                                                               *)

Ended(s) == \E k \in DOMAIN received[s] : received[s][k] \in Ends

\* A producer that waits for room goes on once the handle is dropped, read or
\* not, although the drop itself first waits to send a Cancel.  (FairSpec)
DropUnblocksProducer ==
  \A s \in Streams :
    (handle[s] = "dropping" /\ SenderAlive(s)) ~>
      host[s] \notin {"blocked", "end_blocked"} /\ peer[s] \notin {"blocked", "blocked_cancelled", "end_blocked"}

\* A consumer that keeps reading learns of the end of its stream, also when
\* it ended with an error or was shut down.  (ReadingSpec)
EndIsSeen ==
  \A s \in Streams :
    (handle[s] = "open" /\ (s \in closed \/ s \notin pending \/ host[s] = "done")) ~>
      Ended(s) \/ handle[s] # "open"

\* A stream of the peer whose producer ends is ended at the peer, unless the
\* runtime is shut down first.  (FairSpec)
PeerEndIsSent ==
  \A s \in PeerStreams :
    s \in closed ~>
      (\E k \in DOMAIN peer_got[s] : peer_got[s][k] = Complete) \/ phase # "up"

\* The variables have their types, a registration has somebody who removes it, and
\* what is read is a prefix of what was produced, and all of it if Complete.
StreamsWhole == TypeOK /\ RegistrationHasHandle /\ StreamsInOrder /\ CompleteMeansAll

\* Neither producer nor consumer waits for ever: a drop frees the producer,
\* an end reaches its reader, here and at the peer.
StreamsGoOn == DropUnblocksProducer /\ EndIsSeen /\ PeerEndIsSent
=============================================================================
