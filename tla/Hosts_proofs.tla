---------------------------- MODULE Hosts_proofs ----------------------------
(***************************************************************************)
(* What holds of the runtimes a platform runs and of the bridge between    *)
(* two processes, for any calls of both directions.                        *)
(*                                                                         *)
(* First the bridge (RemoteBridge): the frames of a call whose number only *)
(* one side uses go where the call went, or where it came from.  Then      *)
(* queues, about which only three things are ever needed: whether a block  *)
(* is in one, whether it is there once, and which of two comes first.  On  *)
(* them rest the invariants of SwiftHost (SwiftInv) and of KotlinHost      *)
(* (KotlinInv), each preserved part by part, and HostsTrack.               *)
(***************************************************************************)
EXTENDS MCHosts, SequenceTheorems, TLAPS

\* What is noted down about a call of this runtime, until its handle is gone.
OwnNoted(c) ==
  /\ own[c] = "idle" <=> went[c] = "nowhere"
  /\ own[c] = "idle" => c \notin remote_calls
  /\ own[c] \in {"open", "done"} => (c \in remote_calls <=> went[c] = "remote")

\* What is noted down about a call of a peer, until its last frame is sent.
InboundNoted(n) ==
  /\ inbound[n] = "none" <=> from[n] = "nobody"
  /\ n \in marked => from[n] = "remote"
  /\ n \notin marked => n \notin remote_calls \cup remote_streams
  /\ n \in marked /\ inbound[n] = "running" => n \in remote_calls
  /\ n \in marked /\ inbound[n] \in {"running", "pumping"} => n \in remote_streams

\* A frame under way to p is there for a reason ...
OfCall(f) == f.kind \in {"call", "cancel"}

Routed(p, f) ==
  /\ OfCall(f) /\ f.id \notin Inbound => own[f.id] # "idle" /\ p = went[f.id]
  /\ ~OfCall(f) /\ f.id \notin Own =>
       /\ inbound[f.id] # "none"
       /\ Origin(f.id) # "unknown" => p = Origin(f.id)
       /\ f.kind = "end" => inbound[f.id] = "over"

\* ... and f before g does not say that a stream ended too early.
InTurn(f, g) == f.kind = "end" /\ f.id \notin Own => g.id # f.id

Lanes ==
  \A p \in Peers :
    /\ \A i \in DOMAIN lane[p] : Routed(p, lane[p][i])
    /\ \A i, j \in DOMAIN lane[p] : i < j => InTurn(lane[p][i], lane[p][j])

BridgeInv ==
  /\ TypeOK /\ Lanes
  /\ \A c \in Own \ Inbound : OwnNoted(c)
  /\ \A n \in Inbound \ Own : InboundNoted(n)
-----------------------------------------------------------------------------
(* Sending.                                                                *)

\* A frame is put behind those of one peer, the remote one only if there is a sink.
Puts(p, f) == lane' = [lane EXCEPT ![p] = Append(@, f)]

LEMMA Sent ==
  ASSUME NEW kind, NEW id, NEW isRemote, NEW calls, NEW streams,
         [kind |-> kind, id |-> id] \in Frame,
         send_outbound(kind, id, isRemote, calls, streams)
  PROVE  \E f \in Frame :
           /\ f.kind = kind /\ f.id = id
           /\ \/ /\ installed /\ isRemote /\ Puts("remote", f)
                 /\ remote_calls' = calls /\ remote_streams' = streams
              \/ /\ ~installed \/ ~isRemote
                 /\ Puts("platform", f) /\ UNCHANGED tables
BY DEF send_outbound, SendTo, Puts

\* The types that matter, once and for all.
Typed ==
  /\ own \in [Own -> {"idle", "open", "done", "awaited", "dropped"}]
  /\ went \in [Own -> Peers \cup {"nowhere"}]
  /\ inbound \in [Inbound -> {"none", "running", "pumping", "over", "cancelled"}]
  /\ from \in [Inbound -> Peers \cup {"nobody"}]
  /\ lane \in [Peers -> Seq(Frame)]
  /\ "remote" \in Peers /\ "platform" \in Peers
  /\ Peers = {"remote", "platform"}

\* The sends of this module, seen from outside.
Sends ==
  \/ lane' = lane
  \/ \E p \in Peers : lane[p] # <<>> /\ lane' = [lane EXCEPT ![p] = Tail(@)]
  \/ \E p \in Peers, f \in Frame : Puts(p, f)

LEMMA SendsTyped ==
  ASSUME TypeOK, Sends
  PROVE  lane' \in [Peers -> Seq(Frame)]
<1>1. lane \in [Peers -> Seq(Frame)]
  BY DEF TypeOK
<1>2. ASSUME NEW p \in Peers, lane[p] # <<>>, lane' = [lane EXCEPT ![p] = Tail(@)]
      PROVE  lane' \in [Peers -> Seq(Frame)]
  <2>1. lane[p] \in Seq(Frame)
    BY <1>1
  <2>2. Tail(lane[p]) \in Seq(Frame)
    BY <1>2, <2>1
  <2> QED BY <1>1, <1>2, <2>2
<1>3. ASSUME NEW p \in Peers, NEW f \in Frame, Puts(p, f)
      PROVE  lane' \in [Peers -> Seq(Frame)]
  <2>1. lane[p] \in Seq(Frame)
    BY <1>1
  <2>2. Append(lane[p], f) \in Seq(Frame)
    BY <2>1
  <2> QED BY <1>1, <1>3, <2>2 DEF Puts
<1> QED BY <1>1, <1>2, <1>3 DEF Sends

-----------------------------------------------------------------------------
(* Where calls were sent and come from never changes afterwards.           *)

Forward ==
  /\ \A c \in Own : own[c] # "idle" => own'[c] # "idle" /\ went'[c] = went[c]
  /\ \A n \in Inbound : inbound[n] # "none" =>
       /\ inbound'[n] # "none" /\ from'[n] = from[n]
       /\ n \in marked' <=> n \in marked
       /\ inbound[n] = "over" => inbound'[n] = "over"

LEMMA NextForward ==
  ASSUME TypeOK, [Next]_vars
  PROVE  Forward
<1> USE DEF Forward
<1>0. Typed
  BY DEF TypeOK, Peers, Typed
<1>1. ASSUME NEW c \in Own, NEW q \in Peers, Call(c, q) PROVE Forward
  BY <1>0, <1>1 DEF Typed, Call, inVars
<1>2. ASSUME NEW c \in Own, NEW q \in Peers, PeerAnswers(q, c) PROVE Forward
  BY <1>0, <1>2 DEF Typed, PeerAnswers, inVars
<1>3. ASSUME NEW c \in Own, Await(c) \/ Cancel(c) PROVE Forward
  BY <1>0, <1>3 DEF Typed, Await, Cancel, inVars
<1>4. ASSUME NEW n \in Inbound, NEW q \in Peers, NEW mark \in BOOLEAN, dispatch_inbound(n, q, mark)
      PROVE  Forward
  BY <1>0, <1>4 DEF Typed, dispatch_inbound, ownVars
<1>5. ASSUME NEW n \in Inbound, send_respond(n) \/ send_stream_end(n) PROVE Forward
  BY <1>0, <1>5 DEF Typed, send_respond, send_stream_end, has_pending
<1>6. ASSUME NEW n \in Inbound, StreamOpened(n) \/ cancel_hosted(n) PROVE Forward
  BY <1>0, <1>6 DEF Typed, StreamOpened, cancel_hosted, ownVars
<1>7. CASE UNCHANGED <<ownVars, inVars>>
  BY <1>7 DEF ownVars, inVars
<1>8. ASSUME NEW q \in Peers, PeerTakes(q) PROVE UNCHANGED <<ownVars, inVars>>
  BY <1>8 DEF PeerTakes
<1>9. ASSUME NEW n \in Inbound, send_event(n) PROVE UNCHANGED <<ownVars, inVars>>
  BY <1>9 DEF send_event
<1>10. CASE install_remote_envelope_sink
  BY <1>7, <1>10 DEF install_remote_envelope_sink
<1> QED
  BY <1>0, <1>1, <1>2, <1>3, <1>4, <1>5, <1>6, <1>7, <1>8, <1>9, <1>10 DEF Next, HostRuns, vars,
     Typed

-----------------------------------------------------------------------------
(* The lanes.                                                              *)

LEMMA RoutedForward ==
  ASSUME TypeOK, Forward, NEW p \in Peers, NEW f \in Frame, Routed(p, f)
  PROVE  Routed(p, f)'
BY DEF Forward, Routed, OfCall, Origin, Frame

\* A frame that is sent has its reason, and no stream was at its end before.
LEMMA LanesPut ==
  ASSUME TypeOK, Lanes, Forward, NEW p \in Peers, NEW f \in Frame, Puts(p, f), Routed(p, f)',
         ~OfCall(f) /\ f.id \notin Own => inbound[f.id] # "over"
  PROVE  Lanes'
<1>1. lane \in [Peers -> Seq(Frame)]
  BY DEF TypeOK
<1> SUFFICES ASSUME NEW q \in Peers
             PROVE  /\ \A i \in DOMAIN lane'[q] : \E g \in Frame : g = lane'[q][i] /\ Routed(q, g)'
                    /\ \A i, j \in DOMAIN lane'[q] : i < j => InTurn(lane'[q][i], lane'[q][j])
  BY DEF Lanes, Routed, InTurn
<1>2. lane[q] \in Seq(Frame)
  BY <1>1
<1>3. ASSUME NEW i \in DOMAIN lane[q] PROVE \E g \in Frame : g = lane[q][i] /\ Routed(q, g)
             /\ Routed(q, g)'
  <2>1. lane[q][i] \in Frame /\ Routed(q, lane[q][i])
    BY <1>2 DEF Lanes
  <2> PICK g \in Frame : g = lane[q][i] /\ Routed(q, g)
    BY <2>1
  <2> QED BY RoutedForward
<1>4. CASE q # p
  <2>1. lane'[q] = lane[q]
    BY <1>1, <1>4 DEF Puts
  <2> QED BY <1>3, <2>1 DEF Lanes
<1>5. CASE q = p
  <2>1. lane'[q] = Append(lane[q], f)
    BY <1>1, <1>5 DEF Puts
  <2>2. ASSUME NEW i \in DOMAIN lane'[q]
        PROVE  \/ i \in DOMAIN lane[q] /\ lane'[q][i] = lane[q][i]
               \/ i = Len(lane[q]) + 1 /\ lane'[q][i] = f
    BY <1>2, <2>1
  <2>3. \A i \in DOMAIN lane'[q] : \E g \in Frame : g = lane'[q][i] /\ Routed(q, g)'
    BY <1>3, <1>5, <2>2
  <2>4. ASSUME NEW i \in DOMAIN lane'[q], NEW j \in DOMAIN lane'[q], i < j
        PROVE  InTurn(lane'[q][i], lane'[q][j])
    <3>1. i \in DOMAIN lane[q] /\ lane'[q][i] = lane[q][i]
      BY <1>2, <2>1, <2>2, <2>4
    <3>2. CASE j \in DOMAIN lane[q] /\ lane'[q][j] = lane[q][j]
      BY <2>4, <3>1, <3>2 DEF Lanes
    <3>3. CASE lane'[q][j] = f
      <4> PICK g \in Frame : g = lane[q][i] /\ Routed(q, g)
        BY <1>3, <3>1
      <4>1. InTurn(g, f)
        BY DEF InTurn, Routed, OfCall, Frame
      <4> QED BY <3>1, <3>3, <4>1
    <3> QED BY <2>2, <3>2, <3>3
  <2> QED BY <2>3, <2>4
<1> QED BY <1>4, <1>5

LEMMA LanesShrink ==
  ASSUME TypeOK, Lanes, Forward,
         \/ lane' = lane
         \/ \E p \in Peers : lane[p] # <<>> /\ lane' = [lane EXCEPT ![p] = Tail(@)]
  PROVE  Lanes'
<1>1. lane \in [Peers -> Seq(Frame)]
  BY DEF TypeOK
<1> SUFFICES ASSUME NEW q \in Peers
             PROVE  /\ \A i \in DOMAIN lane'[q] : \E g \in Frame : g = lane'[q][i] /\ Routed(q, g)'
                    /\ \A i, j \in DOMAIN lane'[q] : i < j => InTurn(lane'[q][i], lane'[q][j])
  BY DEF Lanes, Routed, InTurn
<1>2. lane[q] \in Seq(Frame)
  BY <1>1
<1>3. ASSUME NEW i \in DOMAIN lane[q] PROVE \E g \in Frame : g = lane[q][i] /\ Routed(q, g)'
  <2>1. lane[q][i] \in Frame /\ Routed(q, lane[q][i])
    BY <1>2 DEF Lanes
  <2> PICK g \in Frame : g = lane[q][i] /\ Routed(q, g)
    BY <2>1
  <2> QED BY RoutedForward
<1>4. CASE lane'[q] = lane[q]
  BY <1>3, <1>4 DEF Lanes
<1>5. CASE lane[q] # <<>> /\ lane'[q] = Tail(lane[q])
  <2>1. ASSUME NEW i \in DOMAIN lane'[q] PROVE i + 1 \in DOMAIN lane[q]
               /\ lane'[q][i] = lane[q][i + 1]
    BY <1>2, <1>5
  <2>2. ASSUME NEW i \in DOMAIN lane'[q], NEW j \in DOMAIN lane'[q], i < j PROVE i + 1 < j + 1
    BY <1>2, <1>5, <2>2
  <2> QED BY <1>3, <2>1, <2>2 DEF Lanes
<1> QED BY <1>1, <1>4, <1>5

LEMMA NextLanes ==
  ASSUME BridgeInv, [Next]_vars
  PROVE  Lanes'
<1>0. TypeOK /\ Lanes /\ Forward /\ Typed
  BY NextForward DEF BridgeInv, TypeOK, Typed, Peers
<1>1. ASSUME NEW c \in Own, NEW q \in Peers, Call(c, q) PROVE Lanes'
  <2>1. [kind |-> "call", id |-> c] \in Frame
    BY DEF Frame
  <2> PICK f \in Frame :
        /\ f.kind = "call" /\ f.id = c
        /\ \/ installed /\ q = "remote" /\ Puts("remote", f)
           \/ (~installed \/ q # "remote") /\ Puts("platform", f)
    BY <1>1, <2>1 DEF Call, send_outbound, SendTo, Puts
  <2>2. own'[c] = "open" /\ went'[c] = IF installed THEN q ELSE "platform"
    BY <1>0, <1>1 DEF Call, Typed
  <2>3. \A p \in Peers : p = went'[c] => Routed(p, f)'
    BY <2>2 DEF Routed, OfCall
  <2> QED BY <1>0, <2>2, <2>3, LanesPut DEF OfCall, Typed
<1>2. ASSUME NEW c \in Own, Cancel(c) PROVE Lanes'
  <2>1. [kind |-> "cancel", id |-> c] \in Frame
    BY DEF Frame
  <2> PICK f \in Frame :
        /\ f.kind = "cancel" /\ f.id = c
        /\ \/ installed /\ c \in remote_calls /\ Puts("remote", f)
           \/ (~installed \/ c \notin remote_calls) /\ Puts("platform", f)
    BY <1>2, <2>1 DEF Cancel, send_outbound, SendTo, Puts
  <2>2. own'[c] = "dropped" /\ went'[c] = went[c] /\ own[c] \in {"open", "done"}
    BY <1>0, <1>2 DEF Cancel, Typed
  <2>3. c \in remote_calls => installed
    BY <1>0 DEF TypeOK
  <2>4. c \notin Inbound => (c \in remote_calls <=> went[c] = "remote") /\ went[c] \in Peers
    BY <1>0, <2>2 DEF BridgeInv, OwnNoted, Typed
  <2>5. \A p \in Peers : (c \notin Inbound => p = went[c]) => Routed(p, f)'
    BY <2>2 DEF Routed, OfCall
  <2> QED BY <1>0, <2>3, <2>4, <2>5, LanesPut DEF OfCall, Typed
\* A frame about a call of a peer, by the table it is looked up in.
<1>3. ASSUME NEW n \in Inbound, NEW kind \in {"respond", "event", "end"},
             NEW noted, n \notin Own => (noted <=> n \in marked),
             NEW calls, NEW streams, send_outbound(kind, n, noted, calls, streams),
             inbound[n] \in {"running", "pumping"}, inbound'[n] \in {"running", "pumping", "over"},
             kind = "end" => inbound'[n] = "over"
      PROVE  Lanes'
  <2>1. [kind |-> kind, id |-> n] \in Frame
    BY DEF Frame
  <2> PICK f \in Frame :
        /\ f.kind = kind /\ f.id = n
        /\ \/ installed /\ noted /\ Puts("remote", f)
           \/ (~installed \/ ~noted) /\ Puts("platform", f)
    BY <1>3, <2>1, Sent
  <2>2. from'[n] = from[n] /\ (n \in marked' <=> n \in marked)
    BY <1>0, <1>3 DEF Forward
  <2>3. n \notin Own => /\ from[n] \in Peers
                        /\ n \in marked => from[n] = "remote" /\ installed
    BY <1>0, <1>3 DEF BridgeInv, InboundNoted, Typed, TypeOK
  <2>4. \A p \in Peers : (n \notin Own => Origin(n)' \in {p, "unknown"}) => Routed(p, f)'
    BY <1>3 DEF Routed, OfCall
  <2>5. n \notin Own => Origin(n)' = IF n \in marked THEN "remote" ELSE IF from[n] = "remote" THEN "unknown" ELSE "platform"
    BY <1>0, <2>2, <2>3 DEF Origin, Typed
  <2>6. \A p \in Peers : Puts(p, f) => (n \notin Own => Origin(n)' \in {p, "unknown"}) \/ Lanes'
    <3>1. CASE n \notin Own /\ n \in marked
      BY <1>0, <1>3, <2>3, <2>4, <2>5, <3>1, LanesPut DEF Typed
    <3> QED BY <1>0, <1>3, <2>3, <2>4, <2>5, <3>1, LanesPut DEF Typed
  <2> QED BY <1>0, <1>3, <2>4, <2>6, LanesPut DEF OfCall, Typed
<1>4. CASE UNCHANGED lane
  BY <1>0, <1>4, LanesShrink
<1>5. ASSUME NEW q \in Peers, PeerTakes(q) PROVE Lanes'
  BY <1>0, <1>5, LanesShrink DEF PeerTakes
<1>6. ASSUME NEW n \in Inbound, send_respond(n) PROVE Lanes'
  <2>1. inbound[n] = "running" /\ inbound'[n] = "over"
    BY <1>0, <1>6 DEF send_respond, Typed
  <2>2. n \notin Own => (n \in remote_calls <=> n \in marked)
    BY <2>1 DEF BridgeInv, InboundNoted
  <2>3. CASE has_pending(n)
    BY <1>4, <1>6, <2>3 DEF send_respond
  <2>4. CASE ~has_pending(n)
    <3>1. send_outbound("respond", n, n \in remote_calls, remote_calls \ {n}, remote_streams)
      BY <1>6, <2>4 DEF send_respond
    <3> QED BY <1>3, <2>1, <2>2, <3>1
  <2> QED BY <2>3, <2>4
<1>7. ASSUME NEW n \in Inbound, send_stream_end(n) PROVE Lanes'
  <2>1. inbound[n] = "pumping" /\ inbound'[n] = "over"
    BY <1>0, <1>7 DEF send_stream_end, Typed
  <2>2. n \notin Own => (n \in remote_streams <=> n \in marked)
    BY <2>1 DEF BridgeInv, InboundNoted
  <2>3. CASE has_pending(n)
    BY <1>4, <1>7, <2>3 DEF send_stream_end
  <2>4. CASE ~has_pending(n)
    <3>1. send_outbound("end", n, n \in remote_streams, remote_calls, remote_streams \ {n})
      BY <1>7, <2>4 DEF send_stream_end
    <3> QED BY <1>3, <2>1, <2>2, <3>1
  <2> QED BY <2>3, <2>4
<1>8. ASSUME NEW n \in Inbound, send_event(n) PROVE Lanes'
  <2>1. inbound[n] = "pumping" /\ inbound'[n] = "pumping"
    BY <1>8 DEF send_event, inVars
  <2>2. n \notin Own => (n \in remote_streams <=> n \in marked)
    BY <2>1 DEF BridgeInv, InboundNoted
  <2>3. send_outbound("event", n, n \in remote_streams, remote_calls, remote_streams)
    BY <1>8 DEF send_event
  <2> QED BY <1>3, <2>1, <2>2, <2>3
<1> QED
  <2>1. ASSUME NEW c \in Own, NEW q \in Peers, PeerAnswers(q, c) PROVE Lanes'
    BY <1>4, <2>1 DEF PeerAnswers
  <2>2. ASSUME NEW c \in Own, Await(c) PROVE Lanes'
    BY <1>4, <2>2 DEF Await
  <2>3. ASSUME NEW n \in Inbound, NEW q, NEW mark \in BOOLEAN, dispatch_inbound(n, q, mark) PROVE Lanes'
    BY <1>4, <2>3 DEF dispatch_inbound
  <2>4. ASSUME NEW n \in Inbound, StreamOpened(n) \/ cancel_hosted(n) PROVE Lanes'
    BY <1>4, <2>4 DEF StreamOpened, cancel_hosted
  <2>5. CASE install_remote_envelope_sink \/ UNCHANGED vars
    BY <1>4, <2>5 DEF install_remote_envelope_sink, vars
  <2> QED
    BY <1>1, <1>2, <1>5, <1>6, <1>7, <1>8, <2>1, <2>2, <2>3, <2>4, <2>5 DEF Next, HostRuns

-----------------------------------------------------------------------------
(* What is noted down.                                                     *)

LEMMA NextOwnNoted ==
  ASSUME BridgeInv, [Next]_vars, NEW c \in Own \ Inbound
  PROVE  OwnNoted(c)'
<1>0. TypeOK /\ Typed /\ OwnNoted(c) /\ (c \in remote_calls => installed)
  BY DEF BridgeInv, TypeOK, Typed, Peers
<1>1. ASSUME NEW d \in Own, NEW q \in Peers, Call(d, q) PROVE OwnNoted(c)'
  <2>1. \/ /\ installed /\ q = "remote" /\ remote_calls' = remote_calls \cup {d}
        \/ /\ ~installed \/ q # "remote"
           /\ remote_calls' = remote_calls
    BY <1>1 DEF Call, send_outbound, tables
  <2>2. /\ own[d] = "idle" /\ own' = [own EXCEPT ![d] = "open"]
        /\ went' = [went EXCEPT ![d] = IF installed THEN q ELSE "platform"]
    BY <1>1 DEF Call
  <2> QED BY <1>0, <2>1, <2>2 DEF OwnNoted, Typed
<1>2. ASSUME NEW d \in Own, Cancel(d) PROVE OwnNoted(c)'
  <2>1. remote_calls' \in {remote_calls, remote_calls \ {d}}
    BY <1>2 DEF Cancel, send_outbound, tables
  <2> QED BY <1>0, <1>2, <2>1 DEF Cancel, OwnNoted, Typed
<1>3. ASSUME NEW d \in Own, Await(d) PROVE OwnNoted(c)'
  BY <1>0, <1>3 DEF Await, OwnNoted, Typed, tables
<1>4. ASSUME NEW d \in Own, NEW q \in Peers, PeerAnswers(q, d) PROVE OwnNoted(c)'
  BY <1>0, <1>4 DEF PeerAnswers, OwnNoted, Typed, tables
<1>5. ASSUME own'[c] = own[c], went'[c] = went[c], c \in remote_calls' <=> c \in remote_calls
      PROVE  OwnNoted(c)'
  BY <1>0, <1>5 DEF OwnNoted
<1>6. ASSUME NEW n \in Inbound, send_respond(n) \/ send_stream_end(n) \/ send_event(n) PROVE OwnNoted(c)'
  <2>1. own'[c] = own[c] /\ went'[c] = went[c]
    BY <1>0, <1>6 DEF send_respond, send_stream_end, send_event, ownVars, Typed
  <2>2. remote_calls' \in {remote_calls, remote_calls \ {n}}
    BY <1>6 DEF send_respond, send_stream_end, send_event, send_outbound, tables
  <2> QED BY <1>5, <2>1, <2>2
<1>7. ASSUME NEW n \in Inbound, NEW q, NEW mark \in BOOLEAN, dispatch_inbound(n, q, mark) PROVE OwnNoted(c)'
  BY <1>5, <1>7 DEF dispatch_inbound, mark_call_remote, ownVars, tables
<1>8. ASSUME NEW n \in Inbound, StreamOpened(n) \/ cancel_hosted(n) PROVE OwnNoted(c)'
  BY <1>5, <1>8 DEF StreamOpened, cancel_hosted, ownVars, tables
<1>9. ASSUME NEW q \in Peers, PeerTakes(q) PROVE OwnNoted(c)'
  BY <1>5, <1>9 DEF PeerTakes, ownVars, tables
<1>10. CASE install_remote_envelope_sink \/ UNCHANGED vars
  BY <1>5, <1>10 DEF install_remote_envelope_sink, vars, ownVars, tables
<1> QED
  BY <1>1, <1>2, <1>3, <1>4, <1>6, <1>7, <1>8, <1>9, <1>10 DEF Next, HostRuns

LEMMA NextInboundNoted ==
  ASSUME BridgeInv, [Next]_vars, NEW n \in Inbound \ Own
  PROVE  InboundNoted(n)'
<1>0. TypeOK /\ Typed /\ InboundNoted(n)
  BY DEF BridgeInv, TypeOK, Typed, Peers
<1>1. ASSUME inbound'[n] = inbound[n], from'[n] = from[n], n \in marked' <=> n \in marked,
             n \in remote_calls' <=> n \in remote_calls, n \in remote_streams' <=> n \in remote_streams
      PROVE  InboundNoted(n)'
  BY <1>0, <1>1 DEF InboundNoted
<1>2. ASSUME NEW c \in Own, NEW q \in Peers, Call(c, q) PROVE InboundNoted(n)'
  <2>1. /\ remote_calls' \in {remote_calls, remote_calls \cup {c}}
        /\ remote_streams' \in {remote_streams, remote_streams \cup {c}}
    BY <1>2 DEF Call, send_outbound, tables
  <2> QED BY <1>1, <1>2, <2>1 DEF Call, inVars
<1>3. ASSUME NEW c \in Own, Cancel(c) PROVE InboundNoted(n)'
  <2>1. /\ remote_calls' \in {remote_calls, remote_calls \ {c}}
        /\ remote_streams' \in {remote_streams, remote_streams \ {c}}
    BY <1>3 DEF Cancel, send_outbound, tables
  <2> QED BY <1>1, <1>3, <2>1 DEF Cancel, inVars
<1>4. ASSUME NEW c \in Own, Await(c) PROVE InboundNoted(n)'
  BY <1>1, <1>4 DEF Await, tables, inVars
<1>5. ASSUME NEW c \in Own, NEW q \in Peers, PeerAnswers(q, c) PROVE InboundNoted(n)'
  BY <1>1, <1>5 DEF PeerAnswers, tables, inVars
<1>6. ASSUME NEW m \in Inbound, NEW q \in Peers, NEW mark \in BOOLEAN, mark => q = "remote",
             dispatch_inbound(m, q, mark)
      PROVE  InboundNoted(n)'
  <2>1. /\ inbound[m] = "none" /\ inbound' = [inbound EXCEPT ![m] = "running"]
        /\ from' = [from EXCEPT ![m] = q]
        /\ \/ /\ mark /\ marked' = marked \cup {m} /\ q = "remote"
              /\ remote_calls' = remote_calls \cup {m} /\ remote_streams' = remote_streams \cup {m}
           \/ UNCHANGED <<marked, remote_calls, remote_streams>>
    BY <1>6 DEF dispatch_inbound, mark_call_remote, tables
  <2>2. CASE m # n
    BY <1>0, <1>1, <2>1, <2>2 DEF Typed
  <2>3. CASE m = n
    BY <1>0, <2>1, <2>3 DEF InboundNoted, Typed
  <2> QED BY <2>2, <2>3
<1>7. ASSUME NEW m \in Inbound, send_respond(m) PROVE InboundNoted(n)'
  <2>1. /\ remote_calls' \in {remote_calls, remote_calls \ {m}} /\ remote_streams' = remote_streams
    BY <1>7 DEF send_respond, send_outbound, tables
  <2> QED BY <1>0, <1>7, <2>1 DEF send_respond, InboundNoted, Typed
<1>8. ASSUME NEW m \in Inbound, send_stream_end(m) PROVE InboundNoted(n)'
  <2>1. /\ remote_streams' \in {remote_streams, remote_streams \ {m}}
        /\ remote_calls' = remote_calls
    BY <1>8 DEF send_stream_end, send_outbound, tables
  <2> QED BY <1>0, <1>8, <2>1 DEF send_stream_end, InboundNoted, Typed
<1>9. ASSUME NEW m \in Inbound, send_event(m) PROVE InboundNoted(n)'
  BY <1>1, <1>9 DEF send_event, send_outbound, tables, inVars
<1>10. ASSUME NEW m \in Inbound, StreamOpened(m) \/ cancel_hosted(m) PROVE InboundNoted(n)'
  BY <1>0, <1>10 DEF StreamOpened, cancel_hosted, InboundNoted, Typed, tables
<1>11. ASSUME NEW q \in Peers, PeerTakes(q) PROVE InboundNoted(n)'
  BY <1>1, <1>11 DEF PeerTakes, inVars, tables
<1>12. CASE install_remote_envelope_sink \/ UNCHANGED vars
  BY <1>1, <1>12 DEF install_remote_envelope_sink, vars, inVars, tables
<1>13. "remote" \in Peers /\ "platform" \in Peers
  BY DEF Peers
<1> QED
  BY <1>2, <1>3, <1>4, <1>5, <1>6, <1>7, <1>8, <1>9, <1>10, <1>11, <1>12, <1>13 DEF Next, HostRuns

-----------------------------------------------------------------------------
(* The variables have their types.                                         *)

LEMMA NextTypeOK ==
  ASSUME TypeOK, [Next]_vars
  PROVE  TypeOK'
<1>0. Typed
  BY DEF TypeOK, Typed, Peers
<1>takes. ASSUME NEW q \in Peers, PeerTakes(q) PROVE UNCHANGED <<installed, tables, ownVars, inVars, marked>>
  BY <1>takes DEF PeerTakes, inVars
<1>1. lane' \in [Peers -> Seq(Frame)]
  <2>1. ASSUME NEW c \in Own, NEW q \in Peers, Call(c, q) PROVE Sends
    <3>1. [kind |-> "call", id |-> c] \in Frame
      BY DEF Frame
    <3> QED BY <1>0, <2>1, <3>1 DEF Call, send_outbound, SendTo, Sends, Puts, Typed
  <2>2. ASSUME NEW c \in Own, Cancel(c) PROVE Sends
    <3>1. [kind |-> "cancel", id |-> c] \in Frame
      BY DEF Frame
    <3> QED BY <1>0, <2>2, <3>1 DEF Cancel, send_outbound, SendTo, Sends, Puts, Typed
  <2>3. ASSUME NEW n \in Inbound, HostRuns(n) \/ send_event(n) PROVE Sends
    <3>1. /\ [kind |-> "respond", id |-> n] \in Frame /\ [kind |-> "event", id |-> n] \in Frame
          /\ [kind |-> "end", id |-> n] \in Frame
      BY DEF Frame
    <3> QED
      BY <1>0, <2>3, <3>1
      DEF HostRuns, send_respond, send_stream_end, StreamOpened, send_event, send_outbound, SendTo,
          Sends, Puts, Typed
  <2>4. ASSUME NEW q \in Peers, PeerTakes(q) PROVE Sends
    BY <2>4 DEF PeerTakes, Sends
  <2>5. ASSUME UNCHANGED lane PROVE Sends
    BY <2>5 DEF Sends
  <2>6. Sends
    BY <2>1, <2>2, <2>3, <2>4, <2>5
    DEF Next, Await, PeerAnswers, dispatch_inbound, cancel_hosted, install_remote_envelope_sink, vars
  <2> QED BY <2>6, SendsTyped
<1>2. /\ own' \in [Own -> {"idle", "open", "done", "awaited", "dropped"}]
      /\ went' \in [Own -> Peers \cup {"nowhere"}]
  <2> DEFINE Kept == /\ own' \in [Own -> {"idle", "open", "done", "awaited", "dropped"}]
                     /\ went' \in [Own -> Peers \cup {"nowhere"}]
  <2>1. ASSUME NEW c \in Own, NEW q \in Peers, Call(c, q) PROVE Kept
    BY <1>0, <2>1 DEF Call, Typed
  <2>2. ASSUME NEW c \in Own, Await(c) \/ Cancel(c) PROVE Kept
    BY <1>0, <2>2 DEF Await, Cancel, Typed
  <2>3. ASSUME NEW c \in Own, NEW q \in Peers, PeerAnswers(q, c) PROVE Kept
    BY <1>0, <2>3 DEF PeerAnswers, Typed
  <2>4. ASSUME NEW n \in Inbound, send_respond(n) \/ send_stream_end(n) PROVE Kept
    BY <1>0, <2>4 DEF send_respond, send_stream_end, Typed
  <2>5. ASSUME UNCHANGED ownVars PROVE Kept
    BY <1>0, <2>5 DEF ownVars, Typed
  <2> HIDE DEF Kept
  <2>6. Kept
    <3>1. ASSUME NEW n \in Inbound, NEW q, NEW mark, dispatch_inbound(n, q, mark) PROVE UNCHANGED ownVars
      BY <3>1 DEF dispatch_inbound
    <3>2. ASSUME NEW n \in Inbound, StreamOpened(n) \/ cancel_hosted(n) \/ send_event(n)
          PROVE  UNCHANGED ownVars
      BY <3>2 DEF StreamOpened, cancel_hosted, send_event
    <3>3. CASE install_remote_envelope_sink \/ UNCHANGED vars
      BY <2>5, <3>3 DEF install_remote_envelope_sink, vars
    <3> QED BY <1>takes, <2>1, <2>2, <2>3, <2>4, <2>5, <3>1, <3>2, <3>3 DEF Next, HostRuns
  <2> QED BY <2>6 DEF Kept
<1>3. /\ inbound' \in [Inbound -> {"none", "running", "pumping", "over", "cancelled"}]
      /\ from' \in [Inbound -> Peers \cup {"nobody"}]
      /\ marked' \subseteq Inbound
  <2> DEFINE Kept == /\ inbound' \in [Inbound -> {"none", "running", "pumping", "over", "cancelled"}]
                     /\ from' \in [Inbound -> Peers \cup {"nobody"}]
                     /\ marked' \subseteq Inbound
  <2>1. ASSUME NEW n \in Inbound, NEW q \in Peers, NEW mark \in BOOLEAN, dispatch_inbound(n, q, mark) PROVE Kept
    BY <1>0, <2>1 DEF dispatch_inbound, Typed, TypeOK
  <2>2. ASSUME NEW n \in Inbound, HostRuns(n) \/ cancel_hosted(n) PROVE Kept
    BY <1>0, <2>2 DEF HostRuns, send_respond, send_stream_end, StreamOpened, cancel_hosted, Typed,
       TypeOK
  <2>3. ASSUME UNCHANGED inVars PROVE Kept
    BY <1>0, <2>3 DEF inVars, Typed, TypeOK
  <2> HIDE DEF Kept
  <2>4. Kept
    <3>1. ASSUME NEW c \in Own, NEW q \in Peers, Call(c, q) \/ PeerAnswers(q, c) PROVE UNCHANGED inVars
      BY <3>1 DEF Call, PeerAnswers
    <3>2. ASSUME NEW c \in Own, Await(c) \/ Cancel(c) PROVE UNCHANGED inVars
      BY <3>2 DEF Await, Cancel
    <3>3. ASSUME NEW n \in Inbound, send_event(n) PROVE UNCHANGED inVars
      BY <3>3 DEF send_event
    <3>4. CASE install_remote_envelope_sink \/ UNCHANGED vars
      BY <2>3, <3>4 DEF install_remote_envelope_sink, vars
    <3>5. "remote" \in Peers /\ "platform" \in Peers
      BY DEF Peers
    <3> QED BY <1>takes, <2>1, <2>2, <2>3, <3>1, <3>2, <3>3, <3>4, <3>5 DEF Next
  <2> QED BY <2>4 DEF Kept
<1>4. /\ installed' \in BOOLEAN
      /\ remote_calls' \subseteq Own \cup Inbound /\ remote_streams' \subseteq Own \cup Inbound
      /\ ~installed' => remote_calls' \cup remote_streams' \cup marked' = {}
  <2> DEFINE Kept == /\ installed' \in BOOLEAN
                     /\ remote_calls' \subseteq Own \cup Inbound /\ remote_streams' \subseteq Own \cup Inbound
                     /\ ~installed' => remote_calls' \cup remote_streams' \cup marked' = {}
  <2>1. ASSUME NEW c \in Own, NEW q \in Peers, Call(c, q) PROVE Kept
    BY <2>1 DEF Call, send_outbound, tables, inVars, TypeOK
  <2>2. ASSUME NEW c \in Own, Cancel(c) PROVE Kept
    BY <2>2 DEF Cancel, send_outbound, tables, inVars, TypeOK
  <2>3. ASSUME NEW n \in Inbound, send_respond(n) \/ send_stream_end(n) \/ send_event(n) PROVE Kept
    BY <2>3 DEF send_respond, send_stream_end, send_event, send_outbound, tables, inVars, TypeOK
  <2>4. ASSUME NEW n \in Inbound, NEW q, NEW mark \in BOOLEAN, mark => installed, dispatch_inbound(n, q, mark)
        PROVE  Kept
    BY <2>4 DEF dispatch_inbound, mark_call_remote, tables, TypeOK
  <2>5. ASSUME install_remote_envelope_sink PROVE Kept
    BY <2>5 DEF install_remote_envelope_sink, tables, inVars, TypeOK
  <2>6. ASSUME UNCHANGED <<installed, tables, marked>> PROVE Kept
    BY <2>6 DEF tables, TypeOK
  <2> HIDE DEF Kept
  <2>7. Kept
    <3>1. ASSUME NEW c \in Own, NEW q \in Peers, Await(c) \/ PeerAnswers(q, c)
          PROVE  UNCHANGED <<installed, tables, marked>>
      BY <3>1 DEF Await, PeerAnswers, inVars
    <3>2. ASSUME NEW n \in Inbound, StreamOpened(n) \/ cancel_hosted(n)
          PROVE  UNCHANGED <<installed, tables, marked>>
      BY <3>2 DEF StreamOpened, cancel_hosted
    <3>3. CASE UNCHANGED vars
      BY <2>6, <3>3 DEF vars, inVars
    <3>4. "remote" \in Peers /\ "platform" \in Peers
      BY DEF Peers
    <3> QED
      BY <1>takes, <2>1, <2>2, <2>3, <2>4, <2>5, <2>6, <3>1, <3>2, <3>3, <3>4 DEF Next, HostRuns
  <2> QED BY <2>7 DEF Kept
<1>5. serving' \in [Peers -> SUBSET Own]
  <2>1. ASSUME NEW q \in Peers, PeerTakes(q) PROVE serving' \in [Peers -> SUBSET Own]
    <3> PICK f \in Frame : f = Head(lane[q])
      BY <1>0, <2>1 DEF PeerTakes, Typed
    <3> DEFINE left == CASE f.kind = "call" -> serving[q] \cup {f.id}
                         [] f.kind = "cancel" -> serving[q] \ {f.id}
                         [] OTHER -> serving[q]
    <3>1. serving' = [serving EXCEPT ![q] = left]
      BY <2>1 DEF PeerTakes
    <3>2. /\ f.kind = "call" => f.id \in Own /\ left = serving[q] \cup {f.id}
          /\ f.kind = "cancel" => left = serving[q] \ {f.id}
          /\ f.kind \notin {"call", "cancel"} => left = serving[q]
      <4>1. f.kind = "call" => f.id \in Own
        BY DEF Frame
      <4>2. f.kind = "call" => left = serving[q] \cup {f.id}
        OBVIOUS
      <4>3. f.kind = "cancel" => left = serving[q] \ {f.id}
        OBVIOUS
      <4>4. f.kind \notin {"call", "cancel"} => left = serving[q]
        OBVIOUS
      <4> HIDE DEF left
      <4> QED BY <4>1, <4>2, <4>3, <4>4
    <3> HIDE DEF left
    <3>3. left \in SUBSET Own
      BY <3>2 DEF TypeOK
    <3> QED BY <3>1, <3>3 DEF TypeOK
  <2>2. ASSUME NEW c \in Own, NEW q \in Peers, PeerAnswers(q, c) PROVE serving' \in [Peers -> SUBSET Own]
    BY <2>2 DEF PeerAnswers, TypeOK
  <2> QED
    BY <2>1, <2>2
    DEF Next, HostRuns, Call, Await, Cancel, send_respond, send_stream_end, send_event, StreamOpened,
        dispatch_inbound, cancel_hosted, install_remote_envelope_sink, vars, TypeOK
<1>6. answered' \subseteq Inbound
  <2>1. ASSUME NEW q \in Peers, PeerTakes(q) PROVE answered' \subseteq Inbound
    <3> PICK f \in Frame : f = Head(lane[q])
      BY <1>0, <2>1 DEF PeerTakes, Typed
    <3>1. f.kind \in {"respond", "end"} => f.id \in Inbound
      BY DEF Frame
    <3>2. answered' \in {answered, answered \cup {f.id}}
          /\ (f.kind \notin {"respond", "end"} => answered' = answered)
      BY <2>1 DEF PeerTakes
    <3> QED BY <3>1, <3>2 DEF TypeOK
  <2> QED
    BY <2>1
    DEF Next, HostRuns, Call, Await, Cancel, PeerAnswers, send_respond, send_stream_end, send_event,
        StreamOpened, dispatch_inbound, cancel_hosted, install_remote_envelope_sink, vars, TypeOK
<1> QED BY <1>1, <1>2, <1>3, <1>4, <1>5, <1>6 DEF TypeOK

-----------------------------------------------------------------------------
\* Whichever numbers the two directions use, every frame about a call whose number
\* only one of them uses goes where the call went, or where it came from if the
\* runtime was told, and the end of a stream after all its items.
THEOREM FramesAlwaysFollow == Spec => []FramesFollow
<1>1. Init => BridgeInv
  <2> SUFFICES ASSUME Init PROVE BridgeInv
    OBVIOUS
  <2>1. lane \in [Peers -> Seq(Frame)] /\ \A p \in Peers : DOMAIN lane[p] = {}
    BY DEF Init
  <2> QED BY <2>1 DEF Init, BridgeInv, TypeOK, Lanes, OwnNoted, InboundNoted
<1>2. BridgeInv /\ [Next]_vars => BridgeInv'
  BY NextTypeOK, NextLanes, NextOwnNoted, NextInboundNoted DEF BridgeInv
<1>3. BridgeInv => FramesFollow
  <2> SUFFICES ASSUME BridgeInv PROVE FramesFollow
    OBVIOUS
  <2>1. CancelFollowsCall
    BY DEF BridgeInv, Lanes, Routed, OfCall, CancelFollowsCall, Frames
  <2>2. AnswersGoBack
    <3> SUFFICES ASSUME NEW p \in Peers, NEW i \in DOMAIN lane[p],
                        lane[p][i].kind \in {"respond", "event", "end"}, lane[p][i].id \notin Own,
                        Origin(lane[p][i].id) # "unknown"
                 PROVE  /\ p = Origin(lane[p][i].id)
                        /\ lane[p][i].kind = "end" =>
                             \A j \in DOMAIN lane[p] : lane[p][j].id = lane[p][i].id => j <= i
      BY DEF AnswersGoBack
    <3>1. p = Origin(lane[p][i].id)
      BY DEF BridgeInv, Lanes, Routed, OfCall
    <3>2. DOMAIN lane[p] \subseteq Nat
      BY DEF BridgeInv, TypeOK
    <3>3. lane[p][i].kind = "end" => \A j \in DOMAIN lane[p] : lane[p][j].id = lane[p][i].id => ~(i < j)
      BY DEF BridgeInv, Lanes, InTurn
    <3> QED BY <3>1, <3>2, <3>3
  <2> QED BY <2>1, <2>2 DEF BridgeInv, FramesFollow
<1> QED BY <1>1, <1>2, <1>3, PTL DEF Spec
-----------------------------------------------------------------------------
(* Queues.                                                                 *)

\* A block or a frame.
B(kind, id) == [kind |-> kind, id |-> id]

Has(q, b) == \E i \in DOMAIN q : q[i] = b
Once(q, b) == \A i, j \in DOMAIN q : q[i] = b /\ q[j] = b => i = j
Before(q, a, b) == \A i, j \in DOMAIN q : q[i] = a /\ q[j] = b => i < j

\* r is q with e behind it.
Put(q, r, e) ==
  /\ \A b : Has(r, b) <=> Has(q, b) \/ b = e
  /\ \A b : Once(q, b) /\ (b = e => ~Has(q, b)) => Once(r, b)
  /\ \A a, b : Before(q, a, b) /\ a # b /\ (a = e => ~Has(q, b)) => Before(r, a, b)

\* r is q without e at its head.
Took(q, r, e) ==
  /\ \A b : Has(q, b) <=> Has(r, b) \/ b = e
  /\ \A b : Once(q, b) => Once(r, b)
  /\ Once(q, e) => ~Has(r, e)
  /\ \A a, b : Before(q, a, b) => Before(r, a, b)
  /\ \A a : Before(q, a, e) => ~Has(q, a)

LEMMA Appends ==
  ASSUME NEW T, NEW q \in Seq(T), NEW e \in T
  PROVE  /\ Append(q, e) \in Seq(T)
         /\ Put(q, Append(q, e), e)
<1> DEFINE r == Append(q, e)
<1>1. /\ r \in Seq(T) /\ Len(r) = Len(q) + 1
      /\ \A i \in DOMAIN q : r[i] = q[i]
      /\ r[Len(q) + 1] = e
      /\ DOMAIN q = 1..Len(q) /\ DOMAIN r = 1..(Len(q) + 1) /\ Len(q) \in Nat
  OBVIOUS
<1> HIDE DEF r
<1>2. \A b : Has(r, b) <=> Has(q, b) \/ b = e
  BY <1>1 DEF Has
<1>3. ASSUME NEW b, Once(q, b), b = e => ~Has(q, b) PROVE Once(r, b)
  BY <1>1, <1>3 DEF Once, Has
<1>4. ASSUME NEW a, NEW b, Before(q, a, b), a # b, a = e => ~Has(q, b) PROVE Before(r, a, b)
  <2> SUFFICES ASSUME NEW i \in DOMAIN r, NEW j \in DOMAIN r, r[i] = a, r[j] = b PROVE i < j
    BY DEF Before
  <2>1. CASE i \in DOMAIN q /\ j \in DOMAIN q
    BY <1>1, <1>4, <2>1 DEF Before
  <2>2. CASE i \in DOMAIN q /\ j \notin DOMAIN q
    BY <1>1, <2>2
  <2>3. CASE i \notin DOMAIN q
    <3>1. a = e
      BY <1>1, <2>3
    <3>2. j \notin DOMAIN q
      BY <1>1, <1>4, <3>1 DEF Has
    <3> QED BY <1>1, <1>4, <2>3, <3>2
  <2> QED BY <2>1, <2>2, <2>3
<1> QED BY <1>1, <1>2, <1>3, <1>4 DEF Put, r

LEMMA Takes ==
  ASSUME NEW T, NEW q \in Seq(T), q # <<>>
  PROVE  /\ Head(q) \in T /\ Tail(q) \in Seq(T)
         /\ Len(Tail(q)) = Len(q) - 1
         /\ Has(q, Head(q)) /\ Took(q, Tail(q), Head(q))
<1> DEFINE r == Tail(q)
<1>1. /\ r \in Seq(T) /\ Len(r) = Len(q) - 1 /\ Head(q) = q[1]
      /\ DOMAIN q = 1..Len(q) /\ DOMAIN r = 1..(Len(q) - 1) /\ Len(q) \in Nat \ {0}
      /\ \A i \in DOMAIN r : r[i] = q[i + 1]
  OBVIOUS
<1>2. Head(q) \in T
  BY <1>1
<1> HIDE DEF r
<1>3. \A b : Has(q, b) <=> Has(r, b) \/ b = Head(q)
  <2>1. ASSUME NEW b, Has(q, b), b # Head(q) PROVE Has(r, b)
    <3> PICK i \in DOMAIN q : q[i] = b
      BY <2>1 DEF Has
    <3>1. i - 1 \in DOMAIN r /\ r[i - 1] = b
      BY <1>1, <2>1
    <3> QED BY <3>1 DEF Has
  <2>2. ASSUME NEW b, Has(r, b) PROVE Has(q, b)
    <3> PICK i \in DOMAIN r : r[i] = b
      BY <2>2 DEF Has
    <3>1. i + 1 \in DOMAIN q /\ q[i + 1] = b
      BY <1>1
    <3> QED BY <3>1 DEF Has
  <2>3. Has(q, Head(q))
    BY <1>1 DEF Has
  <2> QED BY <2>1, <2>2, <2>3
<1>4. ASSUME NEW b, Once(q, b) PROVE Once(r, b)
  <2> SUFFICES ASSUME NEW i \in DOMAIN r, NEW j \in DOMAIN r, r[i] = b, r[j] = b PROVE i = j
    BY DEF Once
  <2>1. i + 1 \in DOMAIN q /\ j + 1 \in DOMAIN q /\ q[i + 1] = b /\ q[j + 1] = b
    BY <1>1
  <2> QED BY <1>1, <1>4, <2>1 DEF Once
<1>5. ASSUME Once(q, Head(q)) PROVE ~Has(r, Head(q))
  <2> SUFFICES ASSUME NEW i \in DOMAIN r, r[i] = Head(q) PROVE FALSE
    BY DEF Has
  <2>1. i + 1 \in DOMAIN q /\ q[i + 1] = Head(q) /\ 1 \in DOMAIN q /\ q[1] = Head(q)
    BY <1>1
  <2>2. i + 1 = 1
    BY <1>5, <2>1 DEF Once
  <2> QED BY <1>1, <2>2
<1>6. ASSUME NEW a, NEW b, Before(q, a, b) PROVE Before(r, a, b)
  <2> SUFFICES ASSUME NEW i \in DOMAIN r, NEW j \in DOMAIN r, r[i] = a, r[j] = b PROVE i < j
    BY DEF Before
  <2>1. i + 1 \in DOMAIN q /\ j + 1 \in DOMAIN q /\ q[i + 1] = a /\ q[j + 1] = b
    BY <1>1
  <2> QED BY <1>1, <1>6, <2>1 DEF Before
<1>7. ASSUME NEW a, Before(q, a, Head(q)) PROVE ~Has(q, a)
  BY <1>1, <1>7 DEF Before, Has
<1> QED BY <1>1, <1>2, <1>3, <1>4, <1>5, <1>6, <1>7 DEF Took, r
-----------------------------------------------------------------------------
(* The runtime of Swift.                                                   *)

\* A continuation that was not resumed is where an answer, cancel or shutdown
\* find it, or the block that puts it there is still to come.
CallKept(c) ==
  /\ resumed[c] \in {0, 1}
  /\ c \in registered \/ c \notin made => resumed[c] = 0
  /\ c \in made /\ resumed[c] = 0 => c \in registered \/ Has(queue, B("submit", c))

\* A call or stream is submitted once.
SubmittedOnce(c) ==
  /\ Once(queue, B("submit", c))
  /\ Has(queue, B("submit", c)) =>
       c \in made /\ c \notin registered /\ (c \in Calls => resumed[c] = 0)

\* The removal of a stream is queued once, behind its submission.
StreamKept(c) ==
  /\ Once(queue, B("forget", c)) /\ Before(queue, B("submit", c), B("forget", c))
  /\ Has(queue, B("forget", c)) => c \in dropped
  /\ c \in dropped /\ (c \in registered \/ Has(queue, B("submit", c))) => Has(queue, B("forget", c))

\* The pump waits for one block at a time.
AwaitedBlocks == [kind : {"lookup", "spawn", "cancel"}, id : Hosted]
PumpAwaitsOne ==
  \A a \in AwaitedBlocks : Has(queue, a) =>
    /\ pump = "waits" /\ Once(queue, a)
    /\ \A b \in AwaitedBlocks : Has(queue, b) => a = b

\* A hosted call on its way to its Task.
Looked(h) == Has(queue, B("lookup", h)) \/ Has(queue, B("spawn", h))
Coming(h) == Has(outbound, B("call", h)) \/ Looked(h)
CancelComing(h) == Has(outbound, B("cancel", h)) \/ Has(queue, B("cancel", h))

\* It starts one Task, and its Cancel comes behind it.
HostedInTurn(h) ==
  /\ rust[h] = "idle" => ~Coming(h) /\ ~CancelComing(h)
  /\ Coming(h) \/ rust[h] = "idle" => task[h] = "none"
  /\ Has(outbound, B("call", h)) => ~Looked(h) /\ ~Has(queue, B("cancel", h))
  /\ Once(outbound, B("call", h)) /\ Before(outbound, B("call", h), B("cancel", h))
  /\ Has(queue, B("remove", h)) => task[h] = "done"

\* What Rust has given up is cancelled, or will be.
GivenUp(h) ==
  rust[h] = "cancelled" /\ pump # "exited" /\ (Coming(h) \/ (task[h] = "running" /\ h \notin cancelled))
    => CancelComing(h)

Tracked(h) ==
  /\ task[h] \in {"running", "answering"} /\ h \notin cancelled => h \in hostedTasks
  /\ h \in hostedTasks /\ task[h] = "done" => Has(queue, B("remove", h))

SwiftInv ==
  /\ S!TypeOK
  /\ \A f \in S!Frame : Has(outbound, f) /\ f.kind = "end" => f.id \in Streams
  /\ \A c \in S!OwnIds : SubmittedOnce(c)
  /\ \A c \in Calls : CallKept(c)
  /\ \A c \in Streams : StreamKept(c)
  /\ PumpAwaitsOne
  /\ \A h \in Hosted : HostedInTurn(h) /\ GivenUp(h) /\ Tracked(h)

\* A step of the queue that leaves blocks of these kinds where they are.
Same(q, r, kinds) ==
  \A a, b : a.kind \in kinds /\ b.kind \in kinds =>
    /\ Has(r, a) <=> Has(q, a)
    /\ Once(q, a) => Once(r, a)
    /\ Before(q, a, b) /\ a # b => Before(r, a, b)

LEMMA OthersStay ==
  ASSUME NEW q, NEW r, NEW e, NEW kinds, Put(q, r, e) \/ Took(q, r, e), e.kind \notin kinds
  PROVE  Same(q, r, kinds)
<1>1. CASE Put(q, r, e)
  BY <1>1 DEF Put, Same
<1>2. CASE Took(q, r, e)
  BY <1>2 DEF Took, Same
<1> QED BY <1>1, <1>2

LEMMA SameTwice ==
  ASSUME NEW q, NEW r, NEW s, NEW kinds, Same(q, r, kinds), Same(r, s, kinds)
  PROVE  Same(q, s, kinds)
BY DEF Same

\* What blocks and frames do to the queues.
LEMMA Queueing ==
  ASSUME S!TypeOK
  PROVE  /\ \A kind, id : S!Waiting(kind, id) <=> Has(queue, B(kind, id))
         /\ \A kind, id : B(kind, id) \in S!Block =>
              /\ S!Queued(kind, id) \in Seq(S!Block)
              /\ Put(queue, S!Queued(kind, id), B(kind, id))
         /\ \A kind, id : S!AtHead(kind, id) =>
              /\ Tail(queue) \in Seq(S!Block) /\ Has(queue, B(kind, id))
              /\ Took(queue, Tail(queue), B(kind, id))
<1>1. queue \in Seq(S!Block)
  BY DEF S!TypeOK
<1>2. \A kind, id : S!Waiting(kind, id) <=> Has(queue, B(kind, id))
  BY DEF S!Waiting, Has, B
<1>3. ASSUME NEW kind, NEW id, B(kind, id) \in S!Block
      PROVE  /\ S!Queued(kind, id) \in Seq(S!Block)
             /\ Put(queue, S!Queued(kind, id), B(kind, id))
  <2>1. S!Queued(kind, id) = Append(queue, B(kind, id))
    BY DEF S!Queued, B
  <2> QED BY <1>1, <1>3, <2>1, Appends
<1>4. ASSUME NEW kind, NEW id, S!AtHead(kind, id)
      PROVE  /\ Tail(queue) \in Seq(S!Block) /\ Has(queue, B(kind, id))
             /\ Took(queue, Tail(queue), B(kind, id))
  <2>1. queue # <<>> /\ Head(queue) = B(kind, id)
    BY <1>4 DEF S!AtHead, B
  <2> QED BY <1>1, <2>1, Takes
<1> QED BY <1>2, <1>3, <1>4

LEMMA Sending ==
  ASSUME S!SwiftHostAssumption, S!TypeOK, NEW kind, NEW id, B(kind, id) \in S!Frame,
         S!send_outbound(kind, id)
  PROVE  /\ outbound' \in Seq(S!Frame) /\ Len(outbound') <= Capacity
         /\ \/ pump = "exited" /\ outbound' = outbound
            \/ pump # "exited" /\ Put(outbound, outbound', B(kind, id))
<1>1. outbound \in Seq(S!Frame) /\ Len(outbound) <= Capacity /\ Capacity \in Nat
  BY DEF S!TypeOK, S!SwiftHostAssumption
<1>2. CASE pump = "exited" /\ UNCHANGED outbound
  BY <1>1, <1>2
<1>3. CASE pump # "exited" /\ Len(outbound) < Capacity /\ outbound' = Append(outbound, B(kind, id))
  <2>1. outbound' \in Seq(S!Frame) /\ Put(outbound, outbound', B(kind, id))
    BY <1>1, <1>3, Appends
  <2>2. Len(outbound') = Len(outbound) + 1 /\ Len(outbound) \in Nat
    BY <1>1, <1>3
  <2> QED BY <1>1, <1>3, <2>1, <2>2
<1> QED BY <1>2, <1>3 DEF S!send_outbound, B

\* Which blocks and frames there are.
LEMMA Blocks ==
  /\ \A c \in S!OwnIds : B("submit", c) \in S!Block
  /\ \A c \in Streams : B("end", c) \in S!Block /\ B("forget", c) \in S!Block
  /\ \A h \in Hosted :
       /\ B("lookup", h) \in S!Block /\ B("spawn", h) \in S!Block
       /\ B("cancel", h) \in S!Block /\ B("remove", h) \in S!Block
  /\ B("shutdown", "all") \in S!Block /\ B("cancelAll", "all") \in S!Block
  /\ \A h \in Hosted : B("call", h) \in S!Frame /\ B("cancel", h) \in S!Frame
  /\ \A c \in S!OwnIds :
       B("respond", c) \in S!Block /\ B("respond", c) \in S!Frame /\ B("end", c) \in S!Frame
BY DEF B, S!Block, S!Frame, S!OwnIds

\* The pump hands the block of a frame to the queue.
BlockOf(f) == IF f.kind = "call" THEN B("lookup", f.id) ELSE f

LEMMA Delivering ==
  ASSUME S!SwiftHostAssumption, SwiftInv, S!deliver
  PROVE  \E f \in S!Frame, g \in S!Block :
           /\ Has(outbound, f) /\ Took(outbound, outbound', f)
           /\ outbound' \in Seq(S!Frame) /\ Len(outbound') <= Capacity
           /\ Put(queue, queue', g) /\ queue' \in Seq(S!Block)
           /\ g = BlockOf(f) /\ g.kind \in {"lookup", "cancel", "respond", "end"}
           /\ pump' = IF f.kind \in {"call", "cancel"} THEN "waits" ELSE "idle"
<1> DEFINE f == Head(outbound)
<1>0. /\ S!TypeOK /\ outbound # <<>> /\ outbound \in Seq(S!Frame) /\ Len(outbound) <= Capacity
      /\ Capacity \in Nat
  BY DEF SwiftInv, S!TypeOK, S!deliver, S!SwiftHostAssumption
<1>1. /\ f \in S!Frame /\ Has(outbound, f) /\ Took(outbound, Tail(outbound), f)
      /\ Tail(outbound) \in Seq(S!Frame) /\ Len(Tail(outbound)) = Len(outbound) - 1
  BY <1>0, Takes
<1>2. /\ outbound' = Tail(outbound)
      /\ queue' = S!Queued(IF f.kind = "call" THEN "lookup" ELSE f.kind, f.id)
      /\ pump' = IF f.kind \in {"call", "cancel"} THEN "waits" ELSE "idle"
  BY DEF S!deliver
<1>3. f.kind = "end" => f.id \in Streams
  BY <1>1 DEF SwiftInv
<1> HIDE DEF f
<1>4. BlockOf(f) = B(IF f.kind = "call" THEN "lookup" ELSE f.kind, f.id)
  BY <1>1 DEF BlockOf, B, S!Frame
<1>5. BlockOf(f) \in S!Block /\ BlockOf(f).kind \in {"lookup", "cancel", "respond", "end"}
  BY <1>1, <1>3 DEF BlockOf, B, S!Frame, S!Block, S!OwnIds
<1>6. Put(queue, queue', BlockOf(f)) /\ queue' \in Seq(S!Block)
  BY <1>0, <1>2, <1>4, <1>5, Queueing
<1>7. Len(outbound') <= Capacity
  BY <1>0, <1>1, <1>2
<1> QED BY <1>1, <1>2, <1>5, <1>6, <1>7

\* One block goes, another comes.
LEMMA Respawn ==
  ASSUME S!TypeOK, NEW h \in Hosted, S!AtHead("lookup", h), queue' = Tail(S!Queued("spawn", h))
  PROVE  /\ queue' \in Seq(S!Block)
         /\ \E r : Put(queue, r, B("spawn", h)) /\ Took(r, queue', B("lookup", h))
         /\ \A kinds : kinds \cap {"spawn", "lookup"} = {} => Same(queue, queue', kinds)
<1> DEFINE r == S!Queued("spawn", h)
<1>1. r \in Seq(S!Block) /\ Put(queue, r, B("spawn", h))
  BY Queueing, Blocks
<1>2. r # <<>> /\ Head(r) = B("lookup", h)
  <2>1. /\ queue \in Seq(S!Block) /\ queue # <<>> /\ Head(queue) = B("lookup", h)
        /\ r = Append(queue, B("spawn", h))
    BY DEF S!Queued, S!AtHead, S!TypeOK, B
  <2>2. Len(queue) \in Nat \ {0} /\ Head(queue) = queue[1] /\ 1 \in 1..Len(queue)
    BY <2>1
  <2>3. Len(r) = Len(queue) + 1 /\ r[1] = queue[1]
    BY <2>1, <2>2
  <2> QED BY <2>1, <2>2, <2>3
<1> HIDE DEF r
<1>3. Tail(r) \in Seq(S!Block) /\ Took(r, Tail(r), B("lookup", h))
  BY <1>1, <1>2, Takes
<1>4. B("spawn", h).kind = "spawn" /\ B("lookup", h).kind = "lookup"
  BY DEF B
<1>5. ASSUME NEW kinds, kinds \cap {"spawn", "lookup"} = {} PROVE Same(queue, queue', kinds)
  <2>1. Same(queue, r, kinds)
    BY <1>1, <1>4, <1>5, OthersStay
  <2>2. Same(r, Tail(r), kinds)
    BY <1>3, <1>4, <1>5, OthersStay
  <2> QED BY <2>1, <2>2, SameTwice DEF r
<1> QED BY <1>1, <1>3, <1>5 DEF r
-----------------------------------------------------------------------------
(* Swift's own calls and streams.                                          *)

CallsInv ==
  /\ \A c \in S!OwnIds : SubmittedOnce(c)
  /\ \A c \in Calls : CallKept(c)
  /\ \A c \in Streams : StreamKept(c)

LEMMA CallsUndisturbed ==
  ASSUME CallsInv, UNCHANGED S!swiftVars, Same(queue, queue', {"submit", "forget"})
  PROVE  CallsInv'
<1>1. UNCHANGED <<made, registered, dropped, resumed>>
  BY DEF S!swiftVars
<1>2. \A c : /\ Has(queue', B("submit", c)) <=> Has(queue, B("submit", c))
             /\ Has(queue', B("forget", c)) <=> Has(queue, B("forget", c))
             /\ Once(queue, B("submit", c)) => Once(queue', B("submit", c))
             /\ Once(queue, B("forget", c)) => Once(queue', B("forget", c))
             /\ Before(queue, B("submit", c), B("forget", c)) =>
                  Before(queue', B("submit", c), B("forget", c))
  BY DEF Same, B
<1> QED BY <1>1, <1>2 DEF CallsInv, SubmittedOnce, CallKept, StreamKept

LEMMA NextCalls ==
  ASSUME S!SwiftHostAssumption, SwiftInv, S!Next
  PROVE  CallsInv'
<1> DEFINE kinds == {"submit", "forget"}
<1>0. /\ S!TypeOK /\ CallsInv /\ Calls \cap Streams = {} /\ S!OwnIds = Calls \cup Streams
      /\ made \subseteq S!OwnIds /\ registered \subseteq made /\ dropped \subseteq made
      /\ resumed \in [Calls -> 0..2]
  BY DEF SwiftInv, CallsInv, S!SwiftHostAssumption, S!OwnIds, S!TypeOK
<1>eq. \A k, i, l, j : B(k, i) = B(l, j) <=> k = l /\ i = j
  BY DEF B
<1>kind. \A k, i : B(k, i).kind = k
  BY DEF B
<1>1. ASSUME NEW c \in S!OwnIds, S!call(c) PROVE CallsInv'
  <2>1. Put(queue, queue', B("submit", c))
    BY <1>0, <1>1, Queueing, Blocks DEF S!call
  <2>2. /\ c \notin made /\ made' = made \cup {c}
        /\ UNCHANGED <<registered, dropped, resumed>>
    BY <1>1 DEF S!call
  <2>3. ~Has(queue, B("submit", c)) /\ ~(c \in Streams /\ Has(queue, B("forget", c)))
    BY <1>0, <2>2 DEF CallsInv, SubmittedOnce, StreamKept
  <2>4. ASSUME NEW d \in S!OwnIds PROVE SubmittedOnce(d)'
    <3>1. Once(queue', B("submit", d))
      BY <1>0, <1>eq, <2>1, <2>3 DEF Put, CallsInv, SubmittedOnce
    <3>2. Has(queue', B("submit", d)) => Has(queue, B("submit", d)) \/ d = c
      BY <1>eq, <2>1 DEF Put
    <3>3. c \notin registered /\ (c \in Calls => resumed[c] = 0)
      BY <1>0, <2>2 DEF CallsInv, CallKept
    <3> QED BY <1>0, <2>2, <3>1, <3>2, <3>3 DEF CallsInv, SubmittedOnce
  <2>5. ASSUME NEW d \in Calls PROVE CallKept(d)'
    BY <1>0, <2>1, <2>2 DEF Put, CallsInv, CallKept
  <2>6. ASSUME NEW d \in Streams PROVE StreamKept(d)'
    <3>1. /\ Has(queue', B("forget", d)) <=> Has(queue, B("forget", d))
          /\ Has(queue', B("submit", d)) <=> Has(queue, B("submit", d)) \/ d = c
          /\ Once(queue, B("forget", d)) => Once(queue', B("forget", d))
      BY <1>eq, <2>1 DEF Put
    <3>2. Before(queue', B("submit", d), B("forget", d))
      BY <1>0, <1>eq, <2>1, <2>3 DEF Put, CallsInv, StreamKept
    <3> QED BY <1>0, <2>2, <3>1, <3>2 DEF CallsInv, StreamKept
  <2> QED BY <2>4, <2>5, <2>6 DEF CallsInv
<1>2. ASSUME NEW c \in S!OwnIds, S!Submit(c) PROVE CallsInv'
  <2>1. Took(queue, queue', B("submit", c)) /\ Has(queue, B("submit", c))
    BY <1>0, <1>2, Queueing DEF S!Submit, S!Runs
  <2>2. registered' = registered \cup {c} /\ UNCHANGED <<made, dropped, resumed>>
    BY <1>2 DEF S!Submit
  <2>3. c \in made /\ ~Has(queue', B("submit", c)) /\ (c \in Calls => resumed[c] = 0)
    BY <1>0, <2>1 DEF Took, CallsInv, SubmittedOnce
  <2>4. ASSUME NEW d \in S!OwnIds PROVE SubmittedOnce(d)'
    BY <1>0, <2>1, <2>2, <2>3 DEF Took, CallsInv, SubmittedOnce
  <2>5. ASSUME NEW d \in Calls PROVE CallKept(d)'
    BY <1>0, <1>eq, <2>1, <2>2, <2>3 DEF Took, CallsInv, CallKept
  <2>6. ASSUME NEW d \in Streams PROVE StreamKept(d)'
    <3>1. /\ Has(queue', B("forget", d)) <=> Has(queue, B("forget", d))
          /\ Has(queue', B("submit", d)) => Has(queue, B("submit", d))
          /\ Once(queue, B("forget", d)) => Once(queue', B("forget", d))
          /\ Before(queue, B("submit", d), B("forget", d)) =>
               Before(queue', B("submit", d), B("forget", d))
      BY <1>eq, <2>1 DEF Took
    <3>2. d = c => Has(queue, B("submit", d))
      BY <2>1
    <3> QED BY <1>0, <2>2, <3>1, <3>2 DEF CallsInv, StreamKept
  <2> QED BY <2>4, <2>5, <2>6 DEF CallsInv
\* Entries go, the continuations of calls among them are resumed.
<1>gone. ASSUME NEW e, Took(queue, queue', e), e.kind \notin kinds,
                registered' \subseteq registered, UNCHANGED <<made, dropped>>,
                resumed' = [d \in Calls |-> resumed[d] + IF d \in registered \ registered' THEN 1 ELSE 0]
         PROVE  CallsInv'
  <2>1. Same(queue, queue', kinds)
    BY <1>gone, OthersStay
  <2>2. \A d : /\ Has(queue', B("submit", d)) <=> Has(queue, B("submit", d))
               /\ Has(queue', B("forget", d)) <=> Has(queue, B("forget", d))
               /\ Once(queue, B("submit", d)) => Once(queue', B("submit", d))
               /\ Once(queue, B("forget", d)) => Once(queue', B("forget", d))
               /\ Before(queue, B("submit", d), B("forget", d)) =>
                    Before(queue', B("submit", d), B("forget", d))
    BY <1>kind, <1>eq, <2>1 DEF Same
  <2>3. ASSUME NEW d \in Calls PROVE CallKept(d)'
    <3>1. CallKept(d)
      BY <1>0 DEF CallsInv
    <3>2. d \in registered => d \in made
      BY <1>0
    <3>3. resumed'[d] = resumed[d] + IF d \in registered \ registered' THEN 1 ELSE 0
      BY <1>gone
    <3> QED BY <1>gone, <2>2, <3>1, <3>2, <3>3 DEF CallKept
  <2>4. ASSUME NEW d \in S!OwnIds PROVE SubmittedOnce(d)'
    <3>1. SubmittedOnce(d)
      BY <1>0 DEF CallsInv
    <3>2. d \notin registered /\ d \in Calls => resumed'[d] = resumed[d]
      BY <1>0, <1>gone
    <3> QED BY <1>gone, <2>2, <3>1, <3>2 DEF SubmittedOnce
  <2>5. ASSUME NEW d \in Streams PROVE StreamKept(d)'
    BY <1>0, <1>gone, <2>2 DEF CallsInv, StreamKept
  <2> QED BY <2>3, <2>4, <2>5 DEF CallsInv
<1>3. ASSUME NEW c \in S!OwnIds, S!handleRespond(c) PROVE CallsInv'
  <2>1. Took(queue, queue', B("respond", c)) /\ UNCHANGED <<made, dropped>>
    BY <1>0, <1>3, Queueing DEF S!handleRespond, S!Runs
  <2>2. CASE c \in registered \cap Calls
    <3>1. registered' = registered \ {c} /\ resumed' = [resumed EXCEPT ![c] = @ + 1]
      BY <1>3, <2>2 DEF S!handleRespond
    <3>2. resumed' = [d \in Calls |-> resumed[d] + IF d \in registered \ registered' THEN 1 ELSE 0]
      <4>1. \A d \in Calls : d \in registered \ registered' <=> d = c
        BY <2>2, <3>1
      <4>2. \A d \in Calls : resumed'[d] = resumed[d] + IF d = c THEN 1 ELSE 0
        BY <1>0, <2>2, <3>1
      <4> QED BY <1>0, <3>1, <4>1, <4>2
    <3>3. registered' \subseteq registered /\ B("respond", c).kind \notin kinds
      BY <1>kind, <3>1
    <3> QED BY <1>gone, <2>1, <3>2, <3>3
  <2>3. CASE c \notin registered \cap Calls
    <3>1. UNCHANGED <<registered, resumed>>
      BY <1>3, <2>3 DEF S!handleRespond
    <3>2. resumed' = [d \in Calls |-> resumed[d] + IF d \in registered \ registered' THEN 1 ELSE 0]
      BY <1>0, <3>1
    <3> QED BY <1>kind, <1>gone, <2>1, <3>1, <3>2
  <2> QED BY <2>2, <2>3
<1>4. ASSUME NEW c \in Streams, S!handleStreamEnd(c) PROVE CallsInv'
  <2>1. /\ Took(queue, queue', B("end", c)) /\ UNCHANGED <<made, dropped, resumed>>
        /\ registered' = registered \ {c}
    BY <1>0, <1>4, Queueing DEF S!handleStreamEnd, S!Runs
  <2>2. resumed' = [d \in Calls |-> resumed[d] + IF d \in registered \ registered' THEN 1 ELSE 0]
    BY <1>0, <2>1
  <2> QED BY <1>kind, <1>gone, <2>1, <2>2
<1>5. ASSUME NEW c \in Streams, S!Terminate(c) PROVE CallsInv'
  <2>1. Put(queue, queue', B("forget", c))
    BY <1>0, <1>5, Queueing, Blocks DEF S!Terminate
  <2>2. c \notin dropped /\ dropped' = dropped \cup {c} /\ UNCHANGED <<made, registered, resumed>>
    BY <1>5 DEF S!Terminate
  <2>3. ~Has(queue, B("forget", c))
    BY <1>0, <2>2 DEF CallsInv, StreamKept
  <2>4. \A d : /\ Has(queue', B("submit", d)) <=> Has(queue, B("submit", d))
               /\ Has(queue', B("forget", d)) <=> Has(queue, B("forget", d)) \/ d = c
               /\ Once(queue, B("submit", d)) => Once(queue', B("submit", d))
               /\ Once(queue, B("forget", d)) => Once(queue', B("forget", d))
               /\ Before(queue, B("submit", d), B("forget", d)) =>
                    Before(queue', B("submit", d), B("forget", d))
    BY <1>eq, <2>1, <2>3 DEF Put
  <2> QED BY <1>0, <2>2, <2>4 DEF CallsInv, SubmittedOnce, CallKept, StreamKept
<1>6. ASSUME NEW c \in Streams, S!Forget(c) PROVE CallsInv'
  <2>1. /\ Took(queue, queue', B("forget", c)) /\ Has(queue, B("forget", c))
        /\ registered' = registered \ {c} /\ UNCHANGED <<made, dropped, resumed>>
    BY <1>0, <1>6, Queueing DEF S!Forget, S!Runs
  <2>2. ~Has(queue, B("submit", c)) /\ ~Has(queue', B("forget", c))
    BY <1>0, <2>1 DEF Took, CallsInv, StreamKept
  <2>3. \A d : /\ Has(queue', B("submit", d)) <=> Has(queue, B("submit", d))
               /\ Has(queue', B("forget", d)) <=> Has(queue, B("forget", d)) /\ d # c
               /\ Once(queue, B("submit", d)) => Once(queue', B("submit", d))
               /\ Once(queue, B("forget", d)) => Once(queue', B("forget", d))
               /\ Before(queue, B("submit", d), B("forget", d)) =>
                    Before(queue', B("submit", d), B("forget", d))
    BY <1>eq, <2>1, <2>2 DEF Took
  <2>4. ASSUME NEW d \in Streams PROVE StreamKept(d)'
    <3>1. StreamKept(d)
      BY <1>0 DEF CallsInv
    <3> QED BY <2>1, <2>2, <2>3, <3>1 DEF StreamKept
  <2>5. ASSUME NEW d \in Calls PROVE CallKept(d)'
    BY <1>0, <2>1, <2>3 DEF CallsInv, CallKept
  <2>6. ASSUME NEW d \in S!OwnIds PROVE SubmittedOnce(d)'
    BY <1>0, <2>1, <2>3 DEF CallsInv, SubmittedOnce
  <2> QED BY <2>4, <2>5, <2>6 DEF CallsInv
<1>7. ASSUME S!CancelAll PROVE CallsInv'
  <2>1. /\ Took(queue, queue', B("cancelAll", "all")) /\ UNCHANGED <<made, dropped>>
        /\ registered' = registered \ Calls
        /\ resumed' = [d \in Calls |-> resumed[d] + IF d \in registered THEN 1 ELSE 0]
    BY <1>0, <1>7, Queueing DEF S!CancelAll, S!Runs, S!ResumeAll
  <2>2. resumed' = [d \in Calls |-> resumed[d] + IF d \in registered \ registered' THEN 1 ELSE 0]
    BY <2>1
  <2> QED BY <1>kind, <1>gone, <2>1, <2>2
<1>8. ASSUME S!ShutdownEnds PROVE CallsInv'
  <2>1. /\ Took(queue, queue', B("shutdown", "all")) /\ UNCHANGED <<made, dropped>>
        /\ registered' = {}
        /\ resumed' = [d \in Calls |-> resumed[d] + IF d \in registered THEN 1 ELSE 0]
    BY <1>0, <1>8, Queueing DEF S!ShutdownEnds, S!Runs, S!ResumeAll
  <2>2. resumed' = [d \in Calls |-> resumed[d] + IF d \in registered \ registered' THEN 1 ELSE 0]
    BY <2>1
  <2> QED BY <1>kind, <1>gone, <2>1, <2>2
<1>rest. ASSUME UNCHANGED S!swiftVars, NEW e, e.kind \notin kinds,
                \/ queue' = queue \/ Put(queue, queue', e) \/ Took(queue, queue', e)
         PROVE  CallsInv'
  <2>1. Same(queue, queue', kinds)
    BY <1>rest, OthersStay DEF Same
  <2> QED BY <1>0, <1>rest, <2>1, CallsUndisturbed
<1>9. ASSUME S!cancel \/ S!shutdown PROVE CallsInv'
  <2>1. UNCHANGED S!swiftVars
    BY <1>9 DEF S!cancel, S!shutdown
  <2>2. Put(queue, queue', B("cancelAll", "all")) \/ Put(queue, queue', B("shutdown", "all"))
    BY <1>0, <1>9, Queueing, Blocks DEF S!cancel, S!shutdown
  <2> QED BY <1>kind, <1>rest, <2>1, <2>2
<1>10. ASSUME S!deliver PROVE CallsInv'
  <2>1. UNCHANGED S!swiftVars
    BY <1>10 DEF S!deliver
  <2> PICK f \in S!Frame, g \in S!Block : Put(queue, queue', g) /\ g.kind \notin kinds
    BY <1>10, Delivering
  <2> QED BY <1>rest, <2>1
<1>11. ASSUME NEW h \in Hosted, S!handleCall(h) PROVE CallsInv'
  <2>1. UNCHANGED S!swiftVars
    BY <1>11 DEF S!handleCall
  <2>2. CASE queue' = Tail(queue)
    BY <1>0, <1>11, <1>kind, <1>rest, <2>1, <2>2, Queueing DEF S!handleCall
  <2>3. CASE queue' = Tail(S!Queued("spawn", h))
    <3>1. S!AtHead("lookup", h)
      BY <1>11 DEF S!handleCall
    <3>2. Same(queue, queue', kinds)
      BY <1>0, <2>3, <3>1, Respawn
    <3> QED BY <1>0, <2>1, <3>2, CallsUndisturbed
  <2> QED BY <1>11, <2>2, <2>3 DEF S!handleCall
<1>12. ASSUME NEW h \in Hosted, S!spawnHosted(h) \/ S!handleCancel(h) \/ S!Remove(h) PROVE CallsInv'
  <2>1. UNCHANGED S!swiftVars
    BY <1>12 DEF S!spawnHosted, S!handleCancel, S!Remove
  <2>2. \/ S!AtHead("spawn", h) \/ S!AtHead("cancel", h) \/ S!AtHead("remove", h)
    BY <1>12 DEF S!spawnHosted, S!handleCancel, S!Remove, S!Runs
  <2>3. queue' = Tail(queue)
    BY <1>12 DEF S!spawnHosted, S!handleCancel, S!Remove, S!Runs
  <2>4. PICK kind \in {"spawn", "cancel", "remove"} : Took(queue, queue', B(kind, h))
    BY <1>0, <2>2, <2>3, Queueing
  <2> QED BY <1>kind, <1>rest, <2>1, <2>4
<1>13. ASSUME NEW h \in Hosted, S!TaskRuns(h) PROVE CallsInv'
  <2>1. UNCHANGED S!swiftVars
    BY <1>13 DEF S!TaskRuns, S!BodyEnds, S!submitResponse
  <2>2. queue' = queue \/ Put(queue, queue', B("remove", h))
    BY <1>0, <1>13, Queueing, Blocks DEF S!TaskRuns, S!BodyEnds, S!submitResponse
  <2> QED BY <1>kind, <1>rest, <2>1, <2>2
<1>14. ASSUME \/ S!PumpExits \/ S!istmo_ios_shutdown
              \/ \E c \in S!OwnIds : S!HostAnswers(c)
              \/ \E h \in Hosted : S!CallSwift(h) \/ S!DropCall(h)
       PROVE  CallsInv'
  <2>1. UNCHANGED <<queue, S!swiftVars>>
    BY <1>14 DEF S!PumpExits, S!istmo_ios_shutdown, S!HostAnswers, S!CallSwift, S!DropCall
  <2>2. B("remove", "all").kind \notin kinds
    BY DEF B
  <2> QED BY <1>rest, <2>1, <2>2
<1> QED
  BY <1>1, <1>2, <1>3, <1>4, <1>5, <1>6, <1>7, <1>8, <1>9, <1>10, <1>11, <1>12, <1>13, <1>14
  DEF S!Next, S!QueueRuns
-----------------------------------------------------------------------------
(* Types.                                                                  *)

QueuesTyped ==
  /\ queue \in Seq(S!Block)
  /\ outbound \in Seq(S!Frame) /\ Len(outbound) <= Capacity
  /\ \A f \in S!Frame : Has(outbound, f) /\ f.kind = "end" => f.id \in Streams

LEMMA NextQueues ==
  ASSUME S!SwiftHostAssumption, SwiftInv, S!Next
  PROVE  QueuesTyped'
<1>0. S!TypeOK /\ QueuesTyped /\ S!OwnIds = Calls \cup Streams /\ (S!Frame)' = S!Frame
  BY DEF SwiftInv, S!TypeOK, QueuesTyped, S!OwnIds, S!Frame
<1>1. ASSUME queue' \in Seq(S!Block), UNCHANGED outbound PROVE QueuesTyped'
  BY <1>0, <1>1 DEF QueuesTyped
<1>2. ASSUME UNCHANGED queue \/ queue' \in Seq(S!Block), NEW kind, NEW id, B(kind, id) \in S!Frame,
             kind = "end" => id \in Streams, S!send_outbound(kind, id)
      PROVE  QueuesTyped'
  <2>1. /\ outbound' \in Seq(S!Frame) /\ Len(outbound') <= Capacity
        /\ outbound' = outbound \/ Put(outbound, outbound', B(kind, id))
    BY <1>0, <1>2, Sending
  <2>2. \A f : Has(outbound', f) => Has(outbound, f) \/ f = B(kind, id)
    BY <2>1 DEF Put
  <2>3. B(kind, id).kind = kind /\ B(kind, id).id = id
    BY DEF B
  <2> QED BY <1>0, <1>2, <2>1, <2>2, <2>3 DEF QueuesTyped
<1>3. \A kind, id : S!AtHead(kind, id) => Tail(queue) \in Seq(S!Block)
  BY <1>0, Queueing
<1>4. \A kind, id : B(kind, id) \in S!Block => S!Queued(kind, id) \in Seq(S!Block)
  BY <1>0, Queueing
<1>5. ASSUME NEW c \in S!OwnIds, S!Submit(c) PROVE QueuesTyped'
  <2>1. queue' \in Seq(S!Block)
    BY <1>3, <1>5 DEF S!Submit, S!Runs
  <2>2. UNCHANGED outbound \/ S!send_outbound("respond", c)
    BY <1>5 DEF S!Submit
  <2> QED BY <1>1, <1>2, <2>1, <2>2, Blocks
<1>6. ASSUME NEW c \in S!OwnIds, S!HostAnswers(c) PROVE QueuesTyped'
  <2>1. UNCHANGED queue
    BY <1>6 DEF S!HostAnswers
  <2>2. S!send_outbound("respond", c) \/ (c \in Streams /\ S!send_outbound("end", c))
    BY <1>6 DEF S!HostAnswers
  <2> QED BY <1>2, <2>1, <2>2, Blocks
<1>7. ASSUME NEW h \in Hosted, S!CallSwift(h) \/ S!DropCall(h) PROVE QueuesTyped'
  <2>1. UNCHANGED queue
    BY <1>7 DEF S!CallSwift, S!DropCall
  <2>2. S!send_outbound("call", h) \/ S!send_outbound("cancel", h)
    BY <1>7 DEF S!CallSwift, S!DropCall
  <2> QED BY <1>2, <2>1, <2>2, Blocks
<1>8. ASSUME S!deliver PROVE QueuesTyped'
  <2> PICK f \in S!Frame : /\ queue' \in Seq(S!Block) /\ outbound' \in Seq(S!Frame)
                           /\ Len(outbound') <= Capacity /\ Took(outbound, outbound', f)
    BY <1>8, Delivering
  <2> QED BY <1>0 DEF QueuesTyped, Took
<1>9. ASSUME NEW c \in Streams, S!handleStreamEnd(c) \/ S!Forget(c) \/ S!Terminate(c) PROVE QueuesTyped'
  <2>1. queue' \in Seq(S!Block)
    BY <1>3, <1>4, <1>9, Blocks DEF S!handleStreamEnd, S!Forget, S!Runs, S!Terminate
  <2> QED BY <1>1, <1>9, <2>1 DEF S!handleStreamEnd, S!Forget, S!Terminate, S!rustVars
<1>10. ASSUME NEW c \in S!OwnIds, S!call(c) \/ S!handleRespond(c) PROVE QueuesTyped'
  <2>1. queue' \in Seq(S!Block)
    BY <1>3, <1>4, <1>10, Blocks DEF S!call, S!handleRespond, S!Runs
  <2> QED BY <1>1, <1>10, <2>1 DEF S!call, S!handleRespond, S!rustVars
<1>11. ASSUME NEW h \in Hosted, S!handleCall(h) PROVE QueuesTyped'
  <2>1. queue' \in Seq(S!Block)
    BY <1>0, <1>3, <1>11, Respawn DEF S!handleCall
  <2> QED BY <1>1, <1>11, <2>1 DEF S!handleCall
<1>12. ASSUME NEW h \in Hosted, S!spawnHosted(h) \/ S!handleCancel(h) \/ S!Remove(h) PROVE QueuesTyped'
  <2>1. queue' \in Seq(S!Block)
    BY <1>3, <1>12 DEF S!spawnHosted, S!handleCancel, S!Remove, S!Runs
  <2> QED BY <1>1, <1>12, <2>1 DEF S!spawnHosted, S!handleCancel, S!Remove, S!rustVars
<1>13. ASSUME NEW h \in Hosted, S!TaskRuns(h) PROVE QueuesTyped'
  <2>1. queue' \in Seq(S!Block)
    BY <1>0, <1>4, <1>13, Blocks DEF S!TaskRuns, S!BodyEnds, S!submitResponse, QueuesTyped
  <2> QED BY <1>1, <1>13, <2>1 DEF S!TaskRuns, S!BodyEnds, S!submitResponse, S!rustVars
<1>14. ASSUME \/ S!CancelAll \/ S!ShutdownEnds \/ S!istmo_ios_shutdown \/ S!PumpExits
              \/ S!cancel \/ S!shutdown
       PROVE  QueuesTyped'
  <2>1. queue' \in Seq(S!Block)
    BY <1>0, <1>3, <1>4, <1>14, Blocks
    DEF S!CancelAll, S!ShutdownEnds, S!istmo_ios_shutdown, S!PumpExits, S!cancel, S!shutdown,
        S!Runs, QueuesTyped
  <2> QED BY <1>1, <1>14, <2>1
    DEF S!CancelAll, S!ShutdownEnds, S!istmo_ios_shutdown, S!PumpExits, S!cancel, S!shutdown, S!rustVars
<1> QED
  BY <1>5, <1>6, <1>7, <1>8, <1>9, <1>10, <1>11, <1>12, <1>13, <1>14 DEF S!Next, S!QueueRuns

LEMMA NextTypes ==
  ASSUME S!SwiftHostAssumption, SwiftInv, S!Next
  PROVE  S!TypeOK'
<1> DEFINE SwiftTyped ==
             /\ registered \subseteq made /\ made \subseteq S!OwnIds /\ dropped \subseteq made \cap Streams
             /\ DOMAIN resumed = Calls /\ resumed = [c \in Calls |-> resumed[c]]
           TasksTyped ==
             /\ hostedTasks \subseteq Hosted /\ cancelled \subseteq Hosted
             /\ task \in [Hosted -> {"none", "running", "answering", "done"}]
             /\ hosting \subseteq S!OwnIds \ Unhosted /\ refused \subseteq S!OwnIds
             /\ rust \in [Hosted -> {"idle", "waiting", "answered", "cancelled", "closed"}]
             /\ pump \in {"idle", "waits", "exited"} /\ (pump = "exited" => stopping)
<1>0. S!TypeOK /\ SwiftTyped /\ TasksTyped
  BY DEF SwiftInv, S!TypeOK
<1>1. SwiftTyped'
  <2>1. ASSUME NEW c \in Streams, S!handleStreamEnd(c) \/ S!Forget(c) \/ S!Terminate(c)
        PROVE  SwiftTyped'
    BY <1>0, <2>1 DEF S!handleStreamEnd, S!Forget, S!Terminate
  <2>2. ASSUME NEW c \in S!OwnIds, S!call(c) PROVE SwiftTyped'
    BY <1>0, <2>2 DEF S!call
  <2>3. ASSUME NEW c \in S!OwnIds, S!handleRespond(c) PROVE SwiftTyped'
    BY <1>0, <2>3 DEF S!handleRespond
  <2>4. ASSUME NEW c \in S!OwnIds, S!Submit(c) PROVE SwiftTyped'
    <3>1. Has(queue, B("submit", c))
      BY <1>0, <2>4, Queueing DEF S!Submit, S!Runs
    <3>2. c \in made
      BY <3>1 DEF SwiftInv, SubmittedOnce
    <3> QED BY <1>0, <2>4, <3>2 DEF S!Submit
  <2>5. ASSUME S!CancelAll \/ S!ShutdownEnds PROVE SwiftTyped'
    BY <1>0, <2>5 DEF S!CancelAll, S!ShutdownEnds, S!ResumeAll
  <2>6. ASSUME UNCHANGED S!swiftVars PROVE SwiftTyped'
    BY <1>0, <2>6 DEF S!swiftVars
  <2> HIDE DEF SwiftTyped
  <2>7. ASSUME \/ \E h \in Hosted : \/ S!handleCall(h) \/ S!spawnHosted(h) \/ S!handleCancel(h)
                                    \/ S!Remove(h) \/ S!CallSwift(h) \/ S!DropCall(h) \/ S!TaskRuns(h)
               \/ S!istmo_ios_shutdown \/ S!deliver \/ S!PumpExits \/ S!cancel \/ S!shutdown
               \/ \E c \in S!OwnIds : S!HostAnswers(c)
        PROVE  SwiftTyped'
    <3>1. UNCHANGED S!swiftVars
      BY <2>7
      DEF S!handleCall, S!spawnHosted, S!handleCancel, S!Remove, S!CallSwift, S!DropCall, S!TaskRuns,
          S!BodyEnds, S!submitResponse, S!istmo_ios_shutdown, S!deliver, S!PumpExits, S!cancel,
          S!shutdown, S!HostAnswers
    <3> QED BY <2>6, <3>1
  <2> QED BY <2>1, <2>2, <2>3, <2>4, <2>5, <2>7 DEF S!Next, S!QueueRuns
<1>2. TasksTyped'
  <2>1. ASSUME NEW c \in S!OwnIds, S!Submit(c) \/ S!HostAnswers(c) PROVE TasksTyped'
    BY <1>0, <2>1 DEF S!Submit, S!HostAnswers, S!taskVars
  <2>2. ASSUME NEW h \in Hosted, S!CallSwift(h) \/ S!DropCall(h) PROVE TasksTyped'
    BY <1>0, <2>2 DEF S!CallSwift, S!DropCall, S!taskVars
  <2>3. ASSUME NEW h \in Hosted, S!handleCall(h) PROVE TasksTyped'
    BY <1>0, <2>3 DEF S!handleCall, S!Responded, S!taskVars
  <2>4. ASSUME NEW h \in Hosted, S!spawnHosted(h) \/ S!handleCancel(h) \/ S!Remove(h) PROVE TasksTyped'
    BY <1>0, <2>4 DEF S!spawnHosted, S!handleCancel, S!Remove, S!rustVars
  <2>5. ASSUME NEW h \in Hosted, S!BodyEnds(h) PROVE TasksTyped'
    BY <1>0, <2>5 DEF S!BodyEnds, S!rustVars
  <2>6. ASSUME NEW h \in Hosted, S!submitResponse(h) PROVE TasksTyped'
    BY <1>0, <2>6 DEF S!submitResponse, S!Responded
  <2>7. ASSUME S!istmo_ios_shutdown PROVE TasksTyped'
    BY <1>0, <2>7 DEF S!istmo_ios_shutdown, S!taskVars
  <2>8. ASSUME S!ShutdownEnds PROVE TasksTyped'
    BY <1>0, <2>8 DEF S!ShutdownEnds, S!rustVars
  <2>9. ASSUME S!deliver PROVE TasksTyped'
    BY <1>0, <2>9 DEF S!deliver, S!taskVars
  <2>10. ASSUME S!PumpExits PROVE TasksTyped'
    BY <1>0, <2>10 DEF S!PumpExits, S!taskVars, S!rustVars
  <2>11. ASSUME UNCHANGED <<S!taskVars, S!rustVars, pump, stopping>> PROVE TasksTyped'
    BY <1>0, <2>11 DEF S!taskVars, S!rustVars
  <2> HIDE DEF TasksTyped
  <2>12. ASSUME \/ S!CancelAll \/ S!cancel \/ S!shutdown
                \/ \E c \in S!OwnIds : S!call(c) \/ S!handleRespond(c)
                \/ \E c \in Streams : S!handleStreamEnd(c) \/ S!Forget(c) \/ S!Terminate(c)
         PROVE  TasksTyped'
    BY <2>11, <2>12
    DEF S!CancelAll, S!cancel, S!shutdown, S!call, S!handleRespond, S!handleStreamEnd, S!Forget, S!Terminate
  <2> QED
    BY <2>1, <2>2, <2>3, <2>4, <2>5, <2>6, <2>7, <2>8, <2>9, <2>10, <2>12
    DEF S!Next, S!QueueRuns, S!TaskRuns
<1>3. resumed' \in [Calls -> 0..2]
  <2>1. \A c \in Calls : resumed'[c] \in {0, 1}
    BY NextCalls DEF CallsInv, CallKept
  <2> QED BY <1>1, <2>1
<1> QED BY <1>1, <1>2, <1>3, NextQueues DEF S!TypeOK, QueuesTyped
-----------------------------------------------------------------------------
(* Calls of Rust to Swift's handlers.                                      *)

LEMMA NoneIsOnce ==
  ASSUME NEW q, NEW b, ~Has(q, b)
  PROVE  Once(q, b)
BY DEF Has, Once

\* Swift's own calls and streams have nothing to do with it.
OwnSteps ==
  \/ \E c \in S!OwnIds : S!call(c) \/ S!Submit(c) \/ S!HostAnswers(c) \/ S!handleRespond(c)
  \/ \E c \in Streams : S!handleStreamEnd(c) \/ S!Forget(c) \/ S!Terminate(c)
  \/ S!cancel \/ S!CancelAll \/ S!shutdown

LEMMA OwnStepsElsewhere ==
  ASSUME S!SwiftHostAssumption, SwiftInv, OwnSteps
  PROVE  /\ UNCHANGED <<hostedTasks, task, cancelled, rust, pump>>
         /\ Same(queue, queue', {"lookup", "spawn", "cancel", "remove"})
         /\ Same(outbound, outbound', {"call", "cancel"})
<1> DEFINE kinds == {"lookup", "spawn", "cancel", "remove"}
<1>0. S!TypeOK /\ (\A k, i : B(k, i).kind = k)
  BY DEF SwiftInv, B
<1>1. UNCHANGED <<hostedTasks, task, cancelled, rust, pump>>
  BY DEF OwnSteps, S!call, S!Submit, S!HostAnswers, S!handleRespond, S!handleStreamEnd, S!Forget,
    S!Terminate, S!cancel, S!CancelAll, S!shutdown, S!taskVars, S!rustVars
<1>2. ASSUME NEW kind, NEW id, kind \notin kinds,
             S!Runs(kind, id) \/ (B(kind, id) \in S!Block /\ queue' = S!Queued(kind, id))
      PROVE  Same(queue, queue', kinds)
  <2>1. Took(queue, queue', B(kind, id)) \/ Put(queue, queue', B(kind, id))
    BY <1>0, <1>2, Queueing DEF S!Runs
  <2> QED BY <1>0, <1>2, <2>1, OthersStay
<1>3. Same(queue, queue', kinds)
  <2>1. ASSUME NEW c \in S!OwnIds, S!call(c) \/ S!Submit(c) \/ S!handleRespond(c)
        PROVE  Same(queue, queue', kinds)
    <3>1. \/ queue' = S!Queued("submit", c) \/ S!Runs("submit", c) \/ S!Runs("respond", c)
      BY <2>1 DEF S!call, S!Submit, S!handleRespond
    <3> QED BY <1>2, <3>1, Blocks
  <2>2. ASSUME NEW c \in Streams, S!handleStreamEnd(c) \/ S!Forget(c) \/ S!Terminate(c)
        PROVE  Same(queue, queue', kinds)
    <3>1. \/ queue' = S!Queued("forget", c) \/ S!Runs("forget", c) \/ S!Runs("end", c)
      BY <2>2 DEF S!handleStreamEnd, S!Forget, S!Terminate
    <3> QED BY <1>2, <3>1, Blocks
  <2>3. ASSUME S!cancel \/ S!CancelAll \/ S!shutdown PROVE Same(queue, queue', kinds)
    <3>1. \/ queue' = S!Queued("cancelAll", "all") \/ S!Runs("cancelAll", "all")
          \/ queue' = S!Queued("shutdown", "all")
      BY <2>3 DEF S!cancel, S!CancelAll, S!shutdown
    <3> QED BY <1>2, <3>1, Blocks
  <2>4. ASSUME NEW c \in S!OwnIds, S!HostAnswers(c) PROVE Same(queue, queue', kinds)
    BY <2>4 DEF S!HostAnswers, Same
  <2> QED BY <2>1, <2>2, <2>3, <2>4 DEF OwnSteps
<1>4. Same(outbound, outbound', {"call", "cancel"})
  <2>1. ASSUME NEW kind \in {"respond", "end"}, NEW c \in S!OwnIds, S!send_outbound(kind, c)
        PROVE  Same(outbound, outbound', {"call", "cancel"})
    <3>1. outbound' = outbound \/ Put(outbound, outbound', B(kind, c))
      BY <1>0, <2>1, Sending, Blocks
    <3>2. B(kind, c).kind \notin {"call", "cancel"}
      BY <1>0
    <3>3. CASE outbound' = outbound
      BY <3>3 DEF Same
    <3>4. CASE Put(outbound, outbound', B(kind, c))
      BY <3>2, <3>4, OthersStay
    <3> QED BY <3>1, <3>3, <3>4
  <2>2. outbound' = outbound \/ \E c \in S!OwnIds : S!send_outbound("respond", c) \/ S!send_outbound("end", c)
    BY DEF OwnSteps, S!call, S!Submit, S!HostAnswers, S!handleRespond, S!handleStreamEnd, S!Forget,
      S!Terminate, S!cancel, S!CancelAll, S!shutdown, S!rustVars
  <2>3. CASE outbound' = outbound
    BY <2>3 DEF Same
  <2> QED BY <2>1, <2>2, <2>3
<1> QED BY <1>1, <1>3, <1>4

\* All steps but these.
LEMMA SwiftSteps ==
  ASSUME S!Next
  PROVE  \/ OwnSteps
         \/ \E h \in Hosted :
              \/ S!handleCall(h) \/ S!spawnHosted(h) \/ S!handleCancel(h) \/ S!Remove(h)
              \/ S!CallSwift(h) \/ S!DropCall(h) \/ S!BodyEnds(h) \/ S!submitResponse(h)
         \/ S!istmo_ios_shutdown \/ S!ShutdownEnds \/ S!deliver \/ S!PumpExits
BY DEF OwnSteps, S!Next, S!QueueRuns, S!TaskRuns

LEMMA NextPump ==
  ASSUME S!SwiftHostAssumption, SwiftInv, S!Next
  PROVE  PumpAwaitsOne'
<1> DEFINE kinds == {"lookup", "spawn", "cancel"}
<1>0. S!TypeOK /\ PumpAwaitsOne
  BY DEF SwiftInv
<1>eq. \A k, i, l, j : B(k, i) = B(l, j) <=> k = l /\ i = j
  BY DEF B
<1>kind. \A k, i : B(k, i).kind = k
  BY DEF B
<1>in. /\ \A a \in AwaitedBlocks : a.kind \in kinds
       /\ \A h \in Hosted : /\ B("lookup", h) \in AwaitedBlocks /\ B("spawn", h) \in AwaitedBlocks
                            /\ B("cancel", h) \in AwaitedBlocks
  BY DEF AwaitedBlocks, B
<1>same. ASSUME Same(queue, queue', kinds), pump' = pump PROVE PumpAwaitsOne'
  BY <1>0, <1>in, <1>same DEF PumpAwaitsOne, Same
<1>none. ASSUME \A a \in AwaitedBlocks : ~Has(queue', a) PROVE PumpAwaitsOne'
  BY <1>none DEF PumpAwaitsOne
<1>idle. pump # "waits" => \A a \in AwaitedBlocks : ~Has(queue, a)
  BY <1>0 DEF PumpAwaitsOne
<1>runs. ASSUME NEW a \in AwaitedBlocks, Has(queue, a), Took(queue, queue', a) PROVE PumpAwaitsOne'
  <2>1. \A b \in AwaitedBlocks : Has(queue, b) => a = b
    BY <1>0, <1>runs DEF PumpAwaitsOne
  <2>2. ~Has(queue', a) /\ \A b : Has(queue', b) => Has(queue, b)
    BY <1>0, <1>runs DEF PumpAwaitsOne, Took
  <2> QED BY <1>none, <2>1, <2>2
<1>1. ASSUME OwnSteps PROVE PumpAwaitsOne'
  <2>1. Same(queue, queue', {"lookup", "spawn", "cancel", "remove"}) /\ pump' = pump
    BY <1>1, OwnStepsElsewhere
  <2>2. Same(queue, queue', kinds)
    BY <2>1 DEF Same
  <2> QED BY <1>same, <2>1, <2>2
<1>2. ASSUME NEW h \in Hosted, S!handleCall(h) PROVE PumpAwaitsOne'
  <2>1. S!AtHead("lookup", h) /\ Has(queue, B("lookup", h))
    BY <1>0, <1>2, Queueing DEF S!handleCall
  <2>2. CASE queue' = Tail(queue)
    <3>1. Took(queue, queue', B("lookup", h))
      BY <1>0, <2>1, <2>2, Queueing
    <3> QED BY <1>in, <1>runs, <2>1, <3>1
  <2>3. CASE queue' = Tail(S!Queued("spawn", h)) /\ UNCHANGED pump
    <3>1. PICK r : Put(queue, r, B("spawn", h)) /\ Took(r, queue', B("lookup", h))
      BY <1>0, <2>1, <2>3, Respawn
    <3>2. /\ pump = "waits" /\ Once(queue, B("lookup", h))
          /\ \A b \in AwaitedBlocks : Has(queue, b) => b = B("lookup", h)
      BY <1>0, <1>in, <2>1 DEF PumpAwaitsOne
    <3>3. ~Has(queue, B("spawn", h))
      BY <1>eq, <1>in, <3>2
    <3>4. Once(queue', B("spawn", h))
      BY <3>1, <3>3, NoneIsOnce DEF Put, Took
    <3>5. ~Has(queue', B("lookup", h))
      BY <1>eq, <3>1, <3>2 DEF Put, Took
    <3>6. \A b \in AwaitedBlocks : Has(queue', b) => b = B("spawn", h)
      BY <3>1, <3>2, <3>5 DEF Put, Took
    <3> QED BY <2>3, <3>2, <3>4, <3>6 DEF PumpAwaitsOne
  <2> QED BY <1>2, <2>2, <2>3 DEF S!handleCall
<1>3. ASSUME NEW h \in Hosted, S!spawnHosted(h) \/ S!handleCancel(h) PROVE PumpAwaitsOne'
  <2>1. /\ S!AtHead("spawn", h) \/ S!AtHead("cancel", h)
        /\ queue' = Tail(queue)
    BY <1>3 DEF S!spawnHosted, S!handleCancel, S!Runs
  <2>2. \E a \in {B("spawn", h), B("cancel", h)} : Has(queue, a) /\ Took(queue, queue', a)
    BY <1>0, <2>1, Queueing
  <2> QED BY <1>in, <1>runs, <2>2
<1>4. ASSUME NEW h \in Hosted, S!Remove(h) \/ S!BodyEnds(h) \/ S!submitResponse(h) PROVE PumpAwaitsOne'
  <2>1. \/ S!AtHead("remove", h) /\ queue' = Tail(queue)
        \/ queue' = S!Queued("remove", h) \/ queue' = queue
    BY <1>4 DEF S!Remove, S!Runs, S!BodyEnds, S!submitResponse
  <2>2. \/ Took(queue, queue', B("remove", h)) \/ Put(queue, queue', B("remove", h))
        \/ queue' = queue
    BY <1>0, <2>1, Queueing, Blocks
  <2>3. Same(queue, queue', kinds)
    <3>1. CASE queue' = queue
      BY <3>1 DEF Same
    <3>2. CASE Took(queue, queue', B("remove", h)) \/ Put(queue, queue', B("remove", h))
      <4>1. B("remove", h).kind \notin kinds
        BY <1>kind
      <4> QED BY <3>2, <4>1, OthersStay
    <3> QED BY <2>2, <3>1, <3>2
  <2>4. pump' = pump
    BY <1>4 DEF S!Remove, S!BodyEnds, S!submitResponse
  <2> QED BY <1>same, <2>3, <2>4
<1>5. ASSUME S!istmo_ios_shutdown \/ \E h \in Hosted : S!CallSwift(h) \/ S!DropCall(h) PROVE PumpAwaitsOne'
  <2>1. UNCHANGED <<queue, pump>>
    BY <1>5 DEF S!istmo_ios_shutdown, S!CallSwift, S!DropCall
  <2> QED BY <1>same, <2>1 DEF Same
<1>6. ASSUME S!ShutdownEnds PROVE PumpAwaitsOne'
  <2>1. Took(queue, queue', B("shutdown", "all")) /\ pump' = pump
    BY <1>0, <1>6, Queueing DEF S!ShutdownEnds, S!Runs
  <2>2. Same(queue, queue', kinds)
    BY <1>kind, <2>1, OthersStay
  <2> QED BY <1>same, <2>1, <2>2
<1>7. ASSUME S!PumpExits PROVE PumpAwaitsOne'
  <2>1. queue' = queue /\ pump = "idle"
    BY <1>7 DEF S!PumpExits
  <2> QED BY <1>idle, <1>none, <2>1
<1>8. ASSUME S!deliver PROVE PumpAwaitsOne'
  <2> PICK f \in S!Frame, g \in S!Block :
        /\ Put(queue, queue', g) /\ g = BlockOf(f)
        /\ pump' = IF f.kind \in {"call", "cancel"} THEN "waits" ELSE "idle"
    BY <1>8, Delivering
  <2>1. \A a \in AwaitedBlocks : ~Has(queue, a)
    BY <1>8, <1>idle DEF S!deliver
  <2>2. \A a \in AwaitedBlocks : Has(queue', a) => a = g
    BY <2>1 DEF Put
  <2>3. g \in AwaitedBlocks => Once(queue', g) /\ pump' = "waits"
    <3>1. g \in AwaitedBlocks => f.kind \in {"call", "cancel"}
      BY DEF BlockOf, AwaitedBlocks, S!Frame
    <3>2. g \in AwaitedBlocks => Once(queue', g)
      BY <2>1, NoneIsOnce DEF Put
    <3> QED BY <3>1, <3>2
  <2> QED BY <2>2, <2>3 DEF PumpAwaitsOne
<1> QED BY <1>1, <1>2, <1>3, <1>4, <1>5, <1>6, <1>7, <1>8, SwiftSteps

HostedKept(h) == HostedInTurn(h) /\ GivenUp(h) /\ Tracked(h)

\* What a step leaves alone of a hosted call.
QueueKeeps(h) ==
  \A k \in {"lookup", "spawn", "cancel", "remove"} : Has(queue', B(k, h)) <=> Has(queue, B(k, h))
LaneKeeps(h) ==
  /\ \A k \in {"call", "cancel"} : Has(outbound', B(k, h)) <=> Has(outbound, B(k, h))
  /\ Once(outbound, B("call", h)) => Once(outbound', B("call", h))
  /\ Before(outbound, B("call", h), B("cancel", h)) => Before(outbound', B("call", h), B("cancel", h))

LEMMA SameKeepsQueue ==
  ASSUME Same(queue, queue', {"lookup", "spawn", "cancel", "remove"}), NEW h
  PROVE  QueueKeeps(h)
BY DEF Same, QueueKeeps, B

LEMMA SameKeepsLane ==
  ASSUME Same(outbound, outbound', {"call", "cancel"}), NEW h
  PROVE  LaneKeeps(h)
BY DEF Same, LaneKeeps, B

\* Nothing moves, but that a call may be answered or closed, and the pump may end.
LEMMA HostedUndisturbed ==
  ASSUME NEW h \in Hosted, HostedKept(h), QueueKeeps(h), LaneKeeps(h),
         task'[h] = task[h], h \in cancelled' <=> h \in cancelled, h \in hostedTasks' <=> h \in hostedTasks,
         rust'[h] = rust[h] \/ (rust[h] # "idle" /\ rust'[h] \notin {"idle", "cancelled"}),
         pump' = "exited" \/ pump # "exited"
  PROVE  HostedKept(h)'
<1>1. /\ Has(queue', B("lookup", h)) <=> Has(queue, B("lookup", h))
      /\ Has(queue', B("spawn", h)) <=> Has(queue, B("spawn", h))
      /\ Has(queue', B("cancel", h)) <=> Has(queue, B("cancel", h))
      /\ Has(queue', B("remove", h)) <=> Has(queue, B("remove", h))
  BY DEF QueueKeeps
<1>2. /\ Has(outbound', B("call", h)) <=> Has(outbound, B("call", h))
      /\ Has(outbound', B("cancel", h)) <=> Has(outbound, B("cancel", h))
  BY DEF LaneKeeps
<1>3. /\ Looked(h)' <=> Looked(h)
      /\ Coming(h)' <=> Coming(h)
      /\ CancelComing(h)' <=> CancelComing(h)
  BY <1>1, <1>2 DEF Looked, Coming, CancelComing
<1>4. HostedInTurn(h)'
  BY <1>1, <1>2, <1>3 DEF HostedKept, HostedInTurn, LaneKeeps
<1>5. GivenUp(h)'
  BY <1>3 DEF HostedKept, GivenUp
<1>6. Tracked(h)'
  BY <1>1 DEF HostedKept, Tracked
<1> QED BY <1>4, <1>5, <1>6 DEF HostedKept

LEMMA NextHosted ==
  ASSUME S!SwiftHostAssumption, SwiftInv, S!Next, NEW h \in Hosted
  PROVE  HostedKept(h)'
<1> DEFINE kinds == {"lookup", "spawn", "cancel", "remove"}
<1>0. /\ S!TypeOK /\ PumpAwaitsOne /\ HostedKept(h)
      /\ task \in [Hosted -> {"none", "running", "answering", "done"}]
      /\ rust \in [Hosted -> {"idle", "waiting", "answered", "cancelled", "closed"}]
  BY DEF SwiftInv, HostedKept, S!TypeOK
<1>eq. \A k, i, l, j : B(k, i) = B(l, j) <=> k = l /\ i = j
  BY DEF B
<1>in. \A g \in Hosted : /\ B("lookup", g) \in AwaitedBlocks /\ B("spawn", g) \in AwaitedBlocks
                         /\ B("cancel", g) \in AwaitedBlocks
  BY DEF AwaitedBlocks, B
<1>still. outbound' = outbound => LaneKeeps(h)
  BY DEF LaneKeeps
<1>quiet. queue' = queue => QueueKeeps(h)
  BY DEF QueueKeeps
\* Blocks and frames of other calls.
<1>other. ASSUME NEW k, NEW g, g # h,
                 \/ Put(queue, queue', B(k, g)) \/ Took(queue, queue', B(k, g))
          PROVE  QueueKeeps(h)
  BY <1>eq, <1>other DEF QueueKeeps, Put, Took
<1>frame. ASSUME NEW e, e # B("call", h), e # B("cancel", h),
                 Put(outbound, outbound', e) \/ Took(outbound, outbound', e)
          PROVE  LaneKeeps(h)
  BY <1>eq, <1>frame DEF LaneKeeps, Put, Took
<1>1. ASSUME OwnSteps PROVE HostedKept(h)'
  <2>1. /\ UNCHANGED <<hostedTasks, task, cancelled, rust, pump>>
        /\ QueueKeeps(h) /\ LaneKeeps(h)
    BY <1>1, OwnStepsElsewhere, SameKeepsQueue, SameKeepsLane
  <2> QED BY <1>0, <2>1, HostedUndisturbed
<1>2. ASSUME NEW g \in Hosted, S!CallSwift(g) PROVE HostedKept(h)'
  <2>1. /\ UNCHANGED <<queue, hostedTasks, task, cancelled, pump>>
        /\ rust[g] = "idle"
        /\ rust' = [rust EXCEPT ![g] = IF pump = "exited" THEN "closed" ELSE "waiting"]
    BY <1>2 DEF S!CallSwift, S!taskVars
  <2>2. \/ pump = "exited" /\ outbound' = outbound
        \/ pump # "exited" /\ Put(outbound, outbound', B("call", g))
    BY <1>0, <1>2, Sending, Blocks DEF S!CallSwift
  <2>3. CASE g # h
    <3>1. LaneKeeps(h)
      BY <1>eq, <1>still, <1>frame, <2>2, <2>3
    <3>2. rust'[h] = rust[h]
      BY <1>0, <2>1, <2>3
    <3> QED BY <1>0, <1>quiet, <2>1, <3>1, <3>2, HostedUndisturbed
  <2>4. CASE g = h
    <3>1. /\ ~Coming(h) /\ ~CancelComing(h) /\ task[h] = "none" /\ ~Has(queue, B("remove", h))
          /\ rust'[h] \in {"closed", "waiting"}
      BY <1>0, <2>1, <2>4 DEF HostedKept, HostedInTurn
    <3>2. Once(outbound', B("call", h)) /\ Before(outbound', B("call", h), B("cancel", h))
      <4>1. ~Has(outbound, B("call", h)) /\ ~Has(outbound, B("cancel", h))
        BY <3>1 DEF Coming, CancelComing
      <4>2. Once(outbound, B("call", h)) /\ Before(outbound, B("call", h), B("cancel", h))
        BY <1>0 DEF HostedKept, HostedInTurn
      <4> QED BY <1>eq, <2>2, <2>4, <4>1, <4>2 DEF Put
    <3>3. ~Looked(h)' /\ ~Has(queue', B("cancel", h)) /\ ~Has(queue', B("remove", h))
          /\ task'[h] = "none"
      BY <2>1, <3>1 DEF Coming, Looked, CancelComing
    <3>4. HostedInTurn(h)'
      BY <3>1, <3>2, <3>3 DEF HostedInTurn
    <3> QED BY <3>1, <3>3, <3>4 DEF HostedKept, GivenUp, Tracked
  <2> QED BY <2>3, <2>4
<1>3. ASSUME NEW g \in Hosted, S!DropCall(g) PROVE HostedKept(h)'
  <2>1. /\ UNCHANGED <<queue, hostedTasks, task, cancelled, pump>>
        /\ rust[g] = "waiting" /\ rust' = [rust EXCEPT ![g] = "cancelled"]
    BY <1>3 DEF S!DropCall, S!taskVars
  <2>2. \/ pump = "exited" /\ outbound' = outbound
        \/ pump # "exited" /\ Put(outbound, outbound', B("cancel", g))
    BY <1>0, <1>3, Sending, Blocks DEF S!DropCall
  <2>3. CASE g # h
    <3>1. LaneKeeps(h)
      BY <1>eq, <1>still, <1>frame, <2>2, <2>3
    <3>2. rust'[h] = rust[h]
      BY <1>0, <2>1, <2>3
    <3> QED BY <1>0, <1>quiet, <2>1, <3>1, <3>2, HostedUndisturbed
  <2>4. CASE g = h
    <3>1. rust'[h] = "cancelled"
      BY <1>0, <2>1, <2>4
    <3>2. /\ Has(outbound', B("call", h)) <=> Has(outbound, B("call", h))
          /\ Once(outbound', B("call", h)) /\ Before(outbound', B("call", h), B("cancel", h))
      <4>1. Once(outbound, B("call", h)) /\ Before(outbound, B("call", h), B("cancel", h))
        BY <1>0 DEF HostedKept, HostedInTurn
      <4> QED BY <1>eq, <2>2, <2>4, <4>1 DEF Put
    <3>3. /\ Coming(h)' <=> Coming(h)
          /\ Looked(h)' <=> Looked(h)
      BY <2>1, <3>2 DEF Coming, Looked
    <3>4. HostedInTurn(h)'
      BY <1>0, <2>1, <3>1, <3>2, <3>3 DEF HostedKept, HostedInTurn
    <3>5. GivenUp(h)'
      BY <2>1, <2>2, <2>4 DEF GivenUp, CancelComing, Put
    <3> QED BY <1>0, <2>1, <3>4, <3>5 DEF HostedKept, Tracked
  <2> QED BY <2>3, <2>4
<1>4. ASSUME S!deliver PROVE HostedKept(h)'
  <2> PICK f \in S!Frame, e \in S!Block :
        /\ Has(outbound, f) /\ Took(outbound, outbound', f)
        /\ Put(queue, queue', e) /\ e = BlockOf(f)
        /\ pump' = IF f.kind \in {"call", "cancel"} THEN "waits" ELSE "idle"
    BY <1>4, Delivering
  <2>1. pump = "idle" /\ UNCHANGED <<hostedTasks, task, cancelled, rust>>
    BY <1>4 DEF S!deliver, S!taskVars
  <2>2. ~Looked(h) /\ ~Has(queue, B("cancel", h))
    BY <1>0, <1>in, <2>1 DEF PumpAwaitsOne, Looked
  <2>3. pump' # "exited"
    OBVIOUS
  <2>4. /\ HostedInTurn(h) /\ GivenUp(h) /\ Tracked(h)
        /\ Once(outbound', B("call", h)) /\ Before(outbound', B("call", h), B("cancel", h))
    BY <1>0 DEF HostedKept, HostedInTurn, Took
  <2>5. CASE f = B("call", h)
    <3>1. e = B("lookup", h)
      BY <2>5 DEF BlockOf, B
    <3>2. task[h] = "none" /\ rust[h] # "idle" /\ ~Has(queue, B("remove", h))
      BY <2>4, <2>5 DEF HostedInTurn, Coming
    <3>3. /\ ~Has(outbound', B("call", h))
          /\ Has(outbound', B("cancel", h)) <=> Has(outbound, B("cancel", h))
      BY <1>eq, <2>4, <2>5 DEF HostedInTurn, Took
    <3>4. /\ ~Has(queue', B("remove", h)) /\ ~Has(queue', B("cancel", h))
      BY <1>eq, <2>2, <3>1, <3>2 DEF Put
    <3>5. HostedInTurn(h)'
      BY <2>1, <2>4, <3>2, <3>3, <3>4 DEF HostedInTurn
    <3>6. GivenUp(h)'
      BY <2>1, <2>2, <2>4, <2>5, <3>3 DEF GivenUp, Coming, CancelComing
    <3> QED BY <2>1, <2>4, <3>2, <3>5, <3>6 DEF HostedKept, Tracked
  <2>6. CASE f = B("cancel", h)
    <3>1. e = B("cancel", h)
      BY <2>6 DEF BlockOf, B
    <3>2. ~Has(outbound, B("call", h)) /\ rust[h] # "idle"
      BY <2>4, <2>6 DEF HostedInTurn, Took, CancelComing
    <3>3. ~Has(outbound', B("call", h))
      BY <3>2 DEF Took
    <3>4. /\ Has(queue', B("remove", h)) <=> Has(queue, B("remove", h))
          /\ ~Looked(h)' /\ Has(queue', B("cancel", h))
      BY <1>eq, <2>2, <3>1 DEF Put, Looked
    <3>5. HostedInTurn(h)'
      BY <2>1, <2>4, <3>2, <3>3, <3>4 DEF HostedInTurn, Coming
    <3> QED BY <2>1, <2>4, <3>4, <3>5 DEF HostedKept, Tracked, GivenUp, CancelComing
  <2>7. CASE f # B("call", h) /\ f # B("cancel", h)
    <3>1. LaneKeeps(h)
      BY <1>frame, <2>7
    <3>2. QueueKeeps(h)
      <4>1. \A k \in kinds : e # B(k, h)
        BY <2>7 DEF BlockOf, B, S!Frame
      <4> QED BY <4>1 DEF Put, QueueKeeps
    <3> QED BY <1>0, <2>1, <2>3, <3>1, <3>2, HostedUndisturbed
  <2> QED BY <2>5, <2>6, <2>7
<1>5. ASSUME S!PumpExits PROVE HostedKept(h)'
  <2>1. pump' = "exited" /\ UNCHANGED <<queue, outbound, hostedTasks, task, cancelled, rust>>
    BY <1>5 DEF S!PumpExits, S!taskVars, S!rustVars
  <2> QED BY <1>0, <1>still, <1>quiet, <2>1, HostedUndisturbed
<1>6. ASSUME NEW g \in Hosted, S!handleCall(g) PROVE HostedKept(h)'
  <2>1. /\ S!AtHead("lookup", g) /\ Has(queue, B("lookup", g))
        /\ UNCHANGED <<hostedTasks, task, cancelled, outbound>>
    BY <1>0, <1>6, Queueing DEF S!handleCall, S!taskVars
  <2>2. /\ pump = "waits" /\ Once(queue, B("lookup", g))
        /\ \A b \in AwaitedBlocks : Has(queue, b) => b = B("lookup", g)
    BY <1>0, <1>in, <2>1 DEF PumpAwaitsOne
  <2>3. CASE queue' = Tail(queue) /\ pump' = "idle" /\ rust' = S!Responded(g)
    <3>1. Took(queue, queue', B("lookup", g))
      BY <1>0, <2>1, <2>3, Queueing
    <3>2. rust'[h] = rust[h] \/ (rust[h] = "waiting" /\ rust'[h] = "answered")
      BY <1>0, <2>3 DEF S!Responded
    <3>3. CASE g # h
      BY <1>0, <1>other, <1>still, <2>1, <2>2, <2>3, <3>1, <3>2, <3>3, HostedUndisturbed
    <3>4. CASE g = h
      <4>1. /\ Looked(h) /\ Coming(h) /\ task[h] = "none" /\ rust[h] # "idle"
            /\ ~Has(outbound, B("call", h)) /\ ~Has(queue, B("remove", h))
        BY <1>0, <2>1, <3>4 DEF HostedKept, HostedInTurn, Looked, Coming
      <4>2. ~Looked(h)' /\ ~Has(queue', B("cancel", h)) /\ ~Has(queue', B("remove", h))
        BY <1>eq, <1>in, <2>2, <3>1, <3>4, <4>1 DEF Looked, Took
      <4>3. ~Coming(h)'
        BY <2>1, <4>1, <4>2 DEF Coming
      <4>4. HostedInTurn(h)'
        BY <1>0, <2>1, <3>2, <4>1, <4>2, <4>3 DEF HostedKept, HostedInTurn, CancelComing
      <4> QED BY <2>1, <4>1, <4>3, <4>4 DEF HostedKept, GivenUp, Tracked
    <3> QED BY <3>3, <3>4
  <2>4. CASE queue' = Tail(S!Queued("spawn", g)) /\ UNCHANGED <<pump, rust>>
    <3>1. PICK r : Put(queue, r, B("spawn", g)) /\ Took(r, queue', B("lookup", g))
      BY <1>0, <2>1, <2>4, Respawn
    <3>2. CASE g # h
      <4>1. QueueKeeps(h)
        BY <1>eq, <3>1, <3>2 DEF Put, Took, QueueKeeps
      <4> QED BY <1>0, <1>still, <2>1, <2>2, <2>4, <4>1, HostedUndisturbed
    <3>3. CASE g = h
      <4>1. Has(queue', B("spawn", h)) /\ Looked(h) /\ Looked(h)'
        BY <1>eq, <2>1, <3>1, <3>3 DEF Put, Took, Looked
      <4>2. /\ Has(queue', B("cancel", h)) <=> Has(queue, B("cancel", h))
            /\ Has(queue', B("remove", h)) <=> Has(queue, B("remove", h))
        BY <1>eq, <3>1 DEF Put, Took
      <4>3. /\ Coming(h) /\ Coming(h)'
            /\ CancelComing(h)' <=> CancelComing(h)
        BY <2>1, <4>1, <4>2 DEF Coming, CancelComing
      <4>4. HostedInTurn(h)'
        BY <1>0, <2>1, <2>4, <4>1, <4>2, <4>3 DEF HostedKept, HostedInTurn
      <4> QED BY <1>0, <2>1, <2>4, <4>2, <4>3, <4>4 DEF HostedKept, GivenUp, Tracked
    <3> QED BY <3>2, <3>3
  <2> QED BY <1>6, <2>3, <2>4 DEF S!handleCall
<1>7. ASSUME NEW g \in Hosted, S!spawnHosted(g) PROVE HostedKept(h)'
  <2>1. /\ Took(queue, queue', B("spawn", g)) /\ Has(queue, B("spawn", g))
        /\ task' = [task EXCEPT ![g] = "running"] /\ hostedTasks' = hostedTasks \cup {g}
        /\ pump' = "idle" /\ UNCHANGED <<cancelled, rust, outbound>>
    BY <1>0, <1>7, Queueing DEF S!spawnHosted, S!Runs, S!rustVars
  <2>2. /\ pump = "waits" /\ Once(queue, B("spawn", g))
        /\ \A b \in AwaitedBlocks : Has(queue, b) => b = B("spawn", g)
    BY <1>0, <1>in, <2>1 DEF PumpAwaitsOne
  <2>3. CASE g # h
    BY <1>0, <1>other, <1>still, <2>1, <2>2, <2>3, HostedUndisturbed
  <2>4. CASE g = h
    <3>1. /\ Looked(h) /\ Coming(h) /\ task[h] = "none" /\ rust[h] # "idle"
          /\ ~Has(outbound, B("call", h)) /\ ~Has(queue, B("remove", h))
      BY <1>0, <2>1, <2>4 DEF HostedKept, HostedInTurn, Looked, Coming
    <3>2. ~Looked(h)' /\ ~Has(queue', B("remove", h))
      BY <1>eq, <1>in, <2>1, <2>2, <2>4, <3>1 DEF Looked, Took
    <3>3. CancelComing(h) => CancelComing(h)'
      BY <1>eq, <2>1 DEF CancelComing, Took
    <3>4. ~Coming(h)' /\ task'[h] = "running"
      BY <1>0, <2>1, <2>4, <3>1, <3>2 DEF Coming
    <3>5. HostedInTurn(h)'
      BY <1>0, <2>1, <3>1, <3>2, <3>4 DEF HostedKept, HostedInTurn, Coming
    <3>6. GivenUp(h)'
      BY <1>0, <2>1, <2>2, <3>1, <3>3 DEF HostedKept, GivenUp
    <3> QED BY <2>1, <2>4, <3>4, <3>5, <3>6 DEF HostedKept, Tracked
  <2> QED BY <2>3, <2>4
<1>8. ASSUME NEW g \in Hosted, S!handleCancel(g) PROVE HostedKept(h)'
  <2>1. /\ Took(queue, queue', B("cancel", g)) /\ Has(queue, B("cancel", g))
        /\ hostedTasks' = hostedTasks \ {g} /\ cancelled' = cancelled \cup (hostedTasks \cap {g})
        /\ pump' = "idle" /\ UNCHANGED <<task, rust, outbound>>
    BY <1>0, <1>8, Queueing DEF S!handleCancel, S!Runs, S!rustVars
  <2>2. /\ pump = "waits"
        /\ \A b \in AwaitedBlocks : Has(queue, b) => b = B("cancel", g)
    BY <1>0, <1>in, <2>1 DEF PumpAwaitsOne
  <2>3. CASE g # h
    BY <1>0, <1>other, <1>still, <2>1, <2>2, <2>3, HostedUndisturbed
  <2>4. CASE g = h
    <3>1. ~Looked(h) /\ ~Has(outbound, B("call", h)) /\ rust[h] # "idle"
      BY <1>0, <1>eq, <1>in, <2>1, <2>2, <2>4 DEF HostedKept, HostedInTurn, Looked, CancelComing
    <3>2. /\ ~Coming(h)' /\ ~Looked(h)'
          /\ Has(queue', B("remove", h)) <=> Has(queue, B("remove", h))
      BY <1>eq, <2>1, <3>1 DEF Coming, Looked, Took
    <3>3. HostedInTurn(h)'
      BY <1>0, <2>1, <3>1, <3>2 DEF HostedKept, HostedInTurn, Coming
    <3>4. task[h] = "running" /\ h \notin cancelled => h \in cancelled'
      BY <1>0, <2>1, <2>4 DEF HostedKept, Tracked
    <3>5. GivenUp(h)'
      BY <2>1, <3>2, <3>4 DEF GivenUp
    <3>6. Tracked(h)'
      BY <1>0, <2>1, <2>4 DEF HostedKept, Tracked
    <3> QED BY <3>3, <3>5, <3>6 DEF HostedKept
  <2> QED BY <2>3, <2>4
<1>9. ASSUME NEW g \in Hosted, S!Remove(g) PROVE HostedKept(h)'
  <2>1. /\ Took(queue, queue', B("remove", g)) /\ Has(queue, B("remove", g))
        /\ hostedTasks' = hostedTasks \ {g} /\ UNCHANGED <<task, cancelled, rust, outbound, pump>>
    BY <1>0, <1>9, Queueing DEF S!Remove, S!Runs, S!rustVars
  <2>2. CASE g # h
    BY <1>0, <1>other, <1>still, <2>1, <2>2, HostedUndisturbed
  <2>3. CASE g = h
    <3>1. task[h] = "done"
      BY <1>0, <2>1, <2>3 DEF HostedKept, HostedInTurn
    <3>2. /\ Looked(h)' <=> Looked(h)
          /\ Coming(h)' <=> Coming(h)
          /\ CancelComing(h)' <=> CancelComing(h)
          /\ Has(queue', B("cancel", h)) <=> Has(queue, B("cancel", h))
      BY <1>eq, <2>1 DEF Looked, Coming, CancelComing, Took
    <3>3. HostedInTurn(h)'
      BY <1>0, <2>1, <3>1, <3>2 DEF HostedKept, HostedInTurn
    <3> QED BY <1>0, <2>1, <2>3, <3>1, <3>2, <3>3 DEF HostedKept, GivenUp, Tracked
  <2> QED BY <2>2, <2>3
<1>10. ASSUME NEW g \in Hosted, S!BodyEnds(g) \/ S!submitResponse(g) PROVE HostedKept(h)'
  <2>1. /\ UNCHANGED <<hostedTasks, cancelled, outbound, pump>>
        /\ task[g] \in {"running", "answering"}
        /\ rust' = rust \/ rust' = S!Responded(g)
        /\ \/ /\ g \notin cancelled /\ task[g] = "running"
              /\ task' = [task EXCEPT ![g] = "answering"] /\ queue' = queue
           \/ /\ task' = [task EXCEPT ![g] = "done"]
              /\ queue' = S!Queued("remove", g)
    BY <1>10 DEF S!BodyEnds, S!submitResponse, S!rustVars
  <2>2. /\ rust'[h] = rust[h] \/ (rust[h] = "waiting" /\ rust'[h] = "answered")
        /\ rust'[h] = "cancelled" => rust[h] = "cancelled"
    BY <1>0, <2>1 DEF S!Responded
  <2>3. queue' = queue \/ Put(queue, queue', B("remove", g))
    BY <1>0, <2>1, Queueing, Blocks
  <2>4. CASE g # h
    <3>1. QueueKeeps(h)
      BY <1>other, <1>quiet, <2>3, <2>4
    <3>2. task'[h] = task[h]
      BY <1>0, <2>1, <2>4
    <3> QED BY <1>0, <1>still, <2>1, <2>2, <3>1, <3>2, HostedUndisturbed
  <2>5. CASE g = h
    <3>1. /\ Looked(h)' <=> Looked(h)
          /\ Coming(h)' <=> Coming(h)
          /\ CancelComing(h)' <=> CancelComing(h)
          /\ Has(queue', B("cancel", h)) <=> Has(queue, B("cancel", h))
      BY <1>eq, <2>1, <2>3 DEF Looked, Coming, CancelComing, Put
    <3>2. ~Coming(h) /\ rust[h] # "idle" /\ ~Has(queue, B("remove", h))
      BY <1>0, <2>1, <2>5 DEF HostedKept, HostedInTurn
    <3>3. \/ task'[h] = "answering" /\ queue' = queue /\ h \notin cancelled
          \/ task'[h] = "done" /\ Has(queue', B("remove", h))
      <4>1. queue' = S!Queued("remove", g) => Has(queue', B("remove", h))
        BY <1>0, <2>5, Queueing, Blocks DEF Put
      <4> QED BY <1>0, <2>1, <2>5, <4>1
    <3>4. HostedInTurn(h)'
      BY <1>0, <2>1, <2>2, <3>1, <3>2, <3>3 DEF HostedKept, HostedInTurn
    <3>5. Tracked(h)'
      BY <1>0, <2>1, <2>5, <3>3 DEF HostedKept, Tracked
    <3> QED BY <3>1, <3>2, <3>3, <3>4, <3>5 DEF HostedKept, GivenUp
  <2> QED BY <2>4, <2>5
<1>11. ASSUME S!istmo_ios_shutdown PROVE HostedKept(h)'
  <2>1. /\ UNCHANGED <<queue, hostedTasks, task, cancelled, outbound, pump>>
        /\ rust'[h] = IF rust[h] = "waiting" THEN "closed" ELSE rust[h]
    BY <1>11 DEF S!istmo_ios_shutdown, S!taskVars
  <2> QED BY <1>0, <1>still, <1>quiet, <2>1, HostedUndisturbed
<1>12. ASSUME S!ShutdownEnds PROVE HostedKept(h)'
  <2>1. /\ Took(queue, queue', B("shutdown", "all")) /\ pump = "exited"
        /\ cancelled' = cancelled \cup hostedTasks /\ hostedTasks' = {}
        /\ UNCHANGED <<task, rust, outbound, pump>>
    BY <1>0, <1>12, Queueing DEF S!ShutdownEnds, S!Runs, S!rustVars
  <2>2. QueueKeeps(h)
    BY <1>eq, <2>1 DEF QueueKeeps, Took
  <2>3. /\ Looked(h)' <=> Looked(h)
        /\ Coming(h)' <=> Coming(h)
        /\ CancelComing(h)' <=> CancelComing(h)
        /\ Has(queue', B("cancel", h)) <=> Has(queue, B("cancel", h))
        /\ Has(queue', B("remove", h)) <=> Has(queue, B("remove", h))
    BY <2>1, <2>2 DEF QueueKeeps, Looked, Coming, CancelComing
  <2>4. HostedInTurn(h)'
    BY <1>0, <2>1, <2>3 DEF HostedKept, HostedInTurn
  <2> QED BY <1>0, <2>1, <2>4 DEF HostedKept, GivenUp, Tracked
<1> QED
  BY <1>1, <1>2, <1>3, <1>4, <1>5, <1>6, <1>7, <1>8, <1>9, <1>10, <1>11, <1>12, SwiftSteps
-----------------------------------------------------------------------------
(* The runtime of Kotlin.                                                  *)

\* A call goes through once, and once more after it was cancelled.
CallCounted(c) ==
  /\ busy[c] <= runs[c]
  /\ continuation[c] = "idle" => runs[c] + submits[c] = 0
  /\ runs[c] + submits[c] <= 2
  /\ continuation[c] # "cancelled" => runs[c] + submits[c] <= 1
  /\ c \in outboundCalls => continuation[c] = "suspended"

\* The frame of a hosted call comes once, and finds nothing of it ...
JobUnborn(h) ==
  /\ asked[h] = "idle" => ~Has(toKotlin, B("call", h)) /\ job[h] = "none"
  /\ Has(toKotlin, B("call", h)) => job[h] = "none"
  /\ Once(toKotlin, B("call", h))
  /\ job[h] = "none" => h \notin jobs /\ h \notin jobsCancelled /\ onPump # h

\* ... and what was launched is in the table, about to be put there, or cancelled.
JobKept(h) ==
  /\ onPump = h => h \notin jobsCancelled /\ job[h] # "ended"
  /\ h \in jobs => h \notin jobsCancelled /\ job[h] # "ended"
  /\ job[h] \in {"launched", "running"} /\ h \notin jobsCancelled => h \in jobs \/ onPump = h

\* Once the pump was joined, nothing gets in any more.
ScopeOver ==
  phase \in {"cancelling", "down"} =>
    /\ onPump = "exited" /\ jobs = {}
    /\ \A h \in Hosted : K!Live(h) => h \in jobsCancelled

KotlinInv ==
  /\ K!TypeOK
  /\ \A c \in S!OwnIds : CallCounted(c)
  /\ \A h \in Hosted : JobUnborn(h) /\ JobKept(h)
  /\ ScopeOver

LEMMA KotlinFrames ==
  /\ \A h \in Hosted : B("call", h) \in K!Frame /\ B("cancel", h) \in K!Frame
  /\ \A c \in S!OwnIds : B("respond", c) \in K!Frame
BY DEF B, K!Frame

LEMMA KotlinSending ==
  ASSUME K!KotlinHostAssumption, K!TypeOK, NEW kind, NEW id, B(kind, id) \in K!Frame,
         K!send_outbound(kind, id)
  PROVE  /\ toKotlin' \in Seq(K!Frame) /\ Len(toKotlin') <= Capacity
         /\ toKotlin' = toKotlin \/ Put(toKotlin, toKotlin', B(kind, id))
<1>1. toKotlin \in Seq(K!Frame) /\ Len(toKotlin) <= Capacity /\ Capacity \in Nat
  BY DEF K!TypeOK, K!KotlinHostAssumption
<1>2. CASE UNCHANGED toKotlin
  BY <1>1, <1>2
<1>3. CASE Len(toKotlin) < Capacity /\ toKotlin' = Append(toKotlin, B(kind, id))
  <2>1. toKotlin' \in Seq(K!Frame) /\ Put(toKotlin, toKotlin', B(kind, id))
    BY <1>1, <1>3, Appends
  <2>2. Len(toKotlin') = Len(toKotlin) + 1 /\ Len(toKotlin) \in Nat
    BY <1>1, <1>3
  <2> QED BY <1>1, <1>3, <2>1, <2>2
<1> QED BY <1>2, <1>3 DEF K!send_outbound, B

LEMMA KotlinReceives ==
  ASSUME K!KotlinHostAssumption, K!TypeOK, toKotlin # <<>>, toKotlin' = Tail(toKotlin)
  PROVE  /\ toKotlin' \in Seq(K!Frame) /\ Len(toKotlin') <= Capacity
         /\ Has(toKotlin, Head(toKotlin)) /\ Took(toKotlin, toKotlin', Head(toKotlin))
<1>1. toKotlin \in Seq(K!Frame) /\ Len(toKotlin) <= Capacity /\ Capacity \in Nat
  BY DEF K!TypeOK, K!KotlinHostAssumption
<1>2. /\ Tail(toKotlin) \in Seq(K!Frame) /\ Len(Tail(toKotlin)) = Len(toKotlin) - 1
      /\ Has(toKotlin, Head(toKotlin)) /\ Took(toKotlin, Tail(toKotlin), Head(toKotlin))
  BY <1>1, Takes
<1>3. Len(toKotlin) \in Nat
  BY <1>1
<1> QED BY <1>1, <1>2, <1>3

\* The channel, whatever the step.
LaneTyped == toKotlin \in Seq(K!Frame) /\ Len(toKotlin) <= Capacity

LEMMA NextLane ==
  ASSUME K!KotlinHostAssumption, K!TypeOK, K!Next
  PROVE  LaneTyped'
<1>0. LaneTyped
  BY DEF K!TypeOK, LaneTyped
<1>1. CASE UNCHANGED toKotlin
  BY <1>0, <1>1 DEF LaneTyped
<1>2. CASE toKotlin # <<>> /\ toKotlin' = Tail(toKotlin)
  BY <1>2, KotlinReceives DEF LaneTyped
<1>3. ASSUME NEW kind, NEW id, B(kind, id) \in K!Frame, K!send_outbound(kind, id) PROVE LaneTyped'
  BY <1>3, KotlinSending DEF LaneTyped
<1>4. ASSUME NEW c \in S!OwnIds, \/ K!nativeSubmitCall(c) \/ K!HostAnswers(c)
      PROVE LaneTyped'
  <2>1. UNCHANGED toKotlin \/ K!send_outbound("respond", c)
    BY <1>4 DEF K!nativeSubmitCall, K!HostAnswers
  <2> QED BY <1>1, <1>3, <2>1, KotlinFrames
<1>5. ASSUME NEW h \in Hosted, K!CallKotlin(h) \/ K!DropCall(h) PROVE LaneTyped'
  <2>1. K!send_outbound("call", h) \/ K!send_outbound("cancel", h)
    BY <1>5 DEF K!CallKotlin, K!DropCall
  <2> QED BY <1>3, <2>1, KotlinFrames
<1>6. ASSUME \/ \E c \in S!OwnIds : K!onRespond(c)
             \/ \E h \in Hosted : K!onCall(h) \/ K!onCancel(h)
      PROVE  LaneTyped'
  BY <1>2, <1>6 DEF K!onRespond, K!onCall, K!onCancel
<1>7. ASSUME \/ K!PumpExits \/ K!ShutdownRuns \/ K!nativeShutdown
             \/ \E c \in S!OwnIds : K!call(c) \/ K!CancelCaller(c)
             \/ \E h \in Hosted : K!PutJob(h) \/ K!JobRuns(h)
      PROVE  LaneTyped'
  <2>1. UNCHANGED toKotlin
    BY <1>7
    DEF K!PumpExits, K!ShutdownRuns, K!CancelScope, K!CancelPending, K!ClearPending, K!nativeShutdown,
        K!call, K!CancelCaller, K!PutJob, K!JobRuns, K!JobStarts, K!JobResponds, K!JobEnds
  <2> QED BY <1>1, <2>1
<1> QED BY <1>4, <1>5, <1>6, <1>7 DEF K!Next, K!PumpRuns

\* Kotlin's own calls.
OwnTyped ==
  /\ continuation \in [S!OwnIds -> {"idle", "suspended", "resumed", "cancelled"}]
  /\ outboundCalls \subseteq S!OwnIds /\ visit \subseteq S!OwnIds
  /\ submits \in [S!OwnIds -> Nat] /\ runs \in [S!OwnIds -> Nat] /\ busy \in [S!OwnIds -> Nat]
  /\ phase \in {"up", "stopping", "cancelling", "down"}
  /\ \A c \in S!OwnIds : CallCounted(c)

LEMMA NextOwn ==
  ASSUME OwnTyped, K!Next
  PROVE  OwnTyped'
<1>1. ASSUME NEW c \in S!OwnIds, K!call(c) PROVE OwnTyped'
  BY <1>1 DEF OwnTyped, CallCounted, K!call, K!downVars
<1>2. ASSUME NEW c \in S!OwnIds, K!nativeSubmitCall(c) PROVE OwnTyped'
  <2>1. /\ submits[c] > 0 /\ submits' = [submits EXCEPT ![c] = @ - 1]
        /\ runs' = [runs EXCEPT ![c] = @ + 1]
        /\ busy' = busy \/ busy' = [busy EXCEPT ![c] = @ + 1]
        /\ UNCHANGED <<continuation, outboundCalls, phase, visit>>
    BY <1>2 DEF K!nativeSubmitCall, K!downVars
  <2> QED BY <2>1 DEF OwnTyped, CallCounted
<1>3. ASSUME NEW c \in S!OwnIds, K!HostAnswers(c) PROVE OwnTyped'
  <2>1. /\ busy[c] > 0 /\ busy' = [busy EXCEPT ![c] = @ - 1]
        /\ UNCHANGED <<continuation, outboundCalls, submits, runs, phase, visit>>
    BY <1>3 DEF K!HostAnswers, K!downVars
  <2> QED BY <2>1 DEF OwnTyped, CallCounted
<1>4. ASSUME NEW c \in S!OwnIds, K!onRespond(c) PROVE OwnTyped'
  <2>1. /\ \/ continuation' = continuation
           \/ c \in outboundCalls /\ continuation' = [continuation EXCEPT ![c] = "resumed"]
        /\ outboundCalls' = outboundCalls \ {c}
        /\ UNCHANGED <<submits, runs, busy, phase, visit>>
    BY <1>4 DEF K!onRespond, K!downVars, OwnTyped
  <2> QED BY <2>1 DEF OwnTyped, CallCounted
<1>5. ASSUME NEW c \in S!OwnIds, K!CancelContinuation(c), UNCHANGED <<runs, busy>>,
             visit' \subseteq visit, phase' = phase
      PROVE  OwnTyped'
  <2>1. CASE continuation[c] = "suspended"
    <3>1. /\ continuation' = [continuation EXCEPT ![c] = "cancelled"]
          /\ outboundCalls' = outboundCalls \ {c}
          /\ submits' = [submits EXCEPT ![c] = @ + 1]
      BY <1>5, <2>1 DEF K!CancelContinuation
    <3> QED BY <1>5, <2>1, <3>1 DEF OwnTyped, CallCounted
  <2>2. CASE continuation[c] # "suspended"
    BY <1>5, <2>2 DEF OwnTyped, CallCounted, K!CancelContinuation
  <2> QED BY <2>1, <2>2
<1>6. ASSUME NEW c \in S!OwnIds, K!CancelCaller(c) PROVE OwnTyped'
  BY <1>5, <1>6 DEF K!CancelCaller, K!downVars
<1>7. ASSUME NEW c \in S!OwnIds, K!CancelPending(c) PROVE OwnTyped'
  BY <1>5, <1>7 DEF K!CancelPending
<1>8. ASSUME UNCHANGED <<continuation, submits, runs, busy>>, outboundCalls' \subseteq outboundCalls,
             visit' \subseteq visit \cup outboundCalls,
             phase' \in {"up", "stopping", "cancelling", "down"}
      PROVE  OwnTyped'
  BY <1>8 DEF OwnTyped, CallCounted
<1>9. ASSUME K!CancelScope \/ K!ClearPending \/ K!nativeShutdown PROVE OwnTyped'
  BY <1>8, <1>9 DEF K!CancelScope, K!ClearPending, K!nativeShutdown, K!ownVars
<1>10. ASSUME \/ K!PumpExits
              \/ \E h \in Hosted : \/ K!onCall(h) \/ K!PutJob(h) \/ K!onCancel(h)
                                   \/ K!CallKotlin(h) \/ K!DropCall(h) \/ K!JobRuns(h)
       PROVE  OwnTyped'
  <2>1. UNCHANGED <<K!ownVars, K!downVars>>
    BY <1>10
    DEF K!PumpExits, K!onCall, K!PutJob, K!onCancel, K!CallKotlin, K!DropCall, K!JobRuns,
        K!JobStarts, K!JobResponds, K!JobEnds
  <2> QED BY <1>8, <2>1 DEF OwnTyped, K!ownVars, K!downVars
<1> QED
  BY <1>1, <1>2, <1>3, <1>4, <1>6, <1>7, <1>9, <1>10 DEF K!Next, K!PumpRuns, K!ShutdownRuns

\* Its jobs.
JobsTyped ==
  /\ jobs \subseteq Hosted /\ jobsCancelled \subseteq Hosted
  /\ job \in [Hosted -> {"none", "launched", "running", "responded", "ended", "endedEarly"}]
  /\ asked \in [Hosted -> {"idle", "waiting", "answered", "cancelled", "closed"}]
  /\ onPump \in {"idle", "exited"} \cup Hosted
  /\ phase \in {"up", "stopping", "cancelling", "down"}

JobsInv ==
  /\ JobsTyped
  /\ \A h \in Hosted : JobUnborn(h) /\ JobKept(h)
  /\ ScopeOver

\* No frame of a call comes up, and one that was there may be gone.
CallsOnlyLeave(h) ==
  /\ Has(toKotlin', B("call", h)) => Has(toKotlin, B("call", h))
  /\ Once(toKotlin, B("call", h)) => Once(toKotlin', B("call", h))

LEMMA NextJobs ==
  ASSUME K!KotlinHostAssumption, KotlinInv, K!Next
  PROVE  JobsInv'
<1>0. /\ K!TypeOK /\ JobsInv /\ JobsTyped /\ ScopeOver
      /\ \A h \in Hosted : JobUnborn(h) /\ JobKept(h)
  BY DEF KotlinInv, JobsInv, JobsTyped, K!TypeOK
<1>eq. \A k, i, l, j : B(k, i) = B(l, j) <=> k = l /\ i = j
  BY DEF B
<1>id. "idle" \notin Hosted /\ "exited" \notin Hosted
  BY DEF K!KotlinHostAssumption
<1>still. ASSUME UNCHANGED toKotlin, NEW h PROVE CallsOnlyLeave(h)
  BY <1>still DEF CallsOnlyLeave
<1>sent. ASSUME NEW kind, NEW id, B(kind, id) \in K!Frame, kind # "call", K!send_outbound(kind, id), NEW h
         PROVE  CallsOnlyLeave(h)
  <2>1. toKotlin' = toKotlin \/ Put(toKotlin, toKotlin', B(kind, id))
    BY <1>0, <1>sent, KotlinSending
  <2> QED BY <1>eq, <1>sent, <2>1 DEF CallsOnlyLeave, Put
<1>took. ASSUME toKotlin # <<>>, toKotlin' = Tail(toKotlin), NEW h
         PROVE  CallsOnlyLeave(h)
  BY <1>0, <1>took, KotlinReceives DEF CallsOnlyLeave, Took
\* The table of jobs and the coroutines stay as they are.
<1>same. ASSUME UNCHANGED <<jobs, job, jobsCancelled, onPump, phase>>,
                asked' \in [Hosted -> {"idle", "waiting", "answered", "cancelled", "closed"}],
                \A h \in Hosted : asked'[h] = "idle" => asked[h] = "idle",
                \A h \in Hosted : CallsOnlyLeave(h)
         PROVE  JobsInv'
  BY <1>0, <1>same DEF JobsInv, JobsTyped, JobUnborn, JobKept, ScopeOver, CallsOnlyLeave, K!Live
<1>1. ASSUME NEW c \in S!OwnIds, \/ K!call(c) \/ K!nativeSubmitCall(c) \/ K!HostAnswers(c)
                              \/ K!CancelCaller(c) \/ K!onRespond(c)
      PROVE  JobsInv'
  <2>1. UNCHANGED <<jobs, job, jobsCancelled, onPump, phase, asked>>
    BY <1>1
    DEF K!call, K!nativeSubmitCall, K!HostAnswers, K!CancelCaller, K!onRespond, K!jobVars, K!downVars
  <2>2. \/ UNCHANGED toKotlin \/ K!send_outbound("respond", c)
        \/ toKotlin # <<>> /\ toKotlin' = Tail(toKotlin)
    BY <1>1 DEF K!call, K!nativeSubmitCall, K!HostAnswers, K!CancelCaller, K!onRespond
  <2>3. \A h \in Hosted : CallsOnlyLeave(h)
    BY <1>still, <1>sent, <1>took, <2>2, KotlinFrames
  <2> QED BY <1>0, <1>same, <2>1, <2>3 DEF JobsTyped
<1>2. ASSUME NEW g \in Hosted, K!CallKotlin(g) PROVE JobsInv'
  <2>1. /\ UNCHANGED <<jobs, job, jobsCancelled, onPump, phase>>
        /\ asked[g] = "idle"
        /\ asked' = [asked EXCEPT ![g] = IF onPump = "exited" THEN "closed" ELSE "waiting"]
    BY <1>2 DEF K!CallKotlin, K!downVars
  <2>2. toKotlin' = toKotlin \/ Put(toKotlin, toKotlin', B("call", g))
    BY <1>0, <1>2, KotlinSending, KotlinFrames DEF K!CallKotlin
  <2>3. job[g] = "none" /\ ~Has(toKotlin, B("call", g))
    BY <1>0, <2>1 DEF JobUnborn
  <2>4. /\ asked' \in [Hosted -> {"idle", "waiting", "answered", "cancelled", "closed"}]
        /\ asked'[g] # "idle" /\ \A h \in Hosted : h # g => asked'[h] = asked[h]
    BY <1>0, <2>1 DEF JobsTyped
  <2>5. ASSUME NEW h \in Hosted PROVE JobUnborn(h)'
    <3>1. /\ Has(toKotlin', B("call", h)) => Has(toKotlin, B("call", h)) \/ h = g
          /\ Once(toKotlin', B("call", h))
      BY <1>0, <1>eq, <2>2, <2>3 DEF Put, JobUnborn
    <3> QED BY <1>0, <2>1, <2>3, <2>4, <3>1 DEF JobUnborn
  <2>6. ScopeOver' /\ \A h \in Hosted : JobKept(h)'
    BY <1>0, <2>1 DEF JobKept, ScopeOver, K!Live
  <2> QED BY <1>0, <2>1, <2>4, <2>5, <2>6 DEF JobsInv, JobsTyped
<1>3. ASSUME NEW g \in Hosted, K!DropCall(g) PROVE JobsInv'
  <2>1. /\ UNCHANGED <<jobs, job, jobsCancelled, onPump, phase>>
        /\ asked' = [asked EXCEPT ![g] = "cancelled"]
    BY <1>3 DEF K!DropCall, K!downVars
  <2>2. \A h \in Hosted : CallsOnlyLeave(h)
    BY <1>3, <1>sent, KotlinFrames DEF K!DropCall
  <2> QED BY <1>0, <1>same, <2>1, <2>2 DEF JobsTyped
<1>4. ASSUME NEW g \in Hosted, K!onCall(g) PROVE JobsInv'
  <2>1. /\ onPump = "idle" /\ toKotlin # <<>> /\ Head(toKotlin) = B("call", g)
        /\ toKotlin' = Tail(toKotlin) /\ UNCHANGED <<jobs, jobsCancelled, phase>>
    BY <1>4 DEF K!onCall, K!downVars, B
  <2>2. \A h \in Hosted : CallsOnlyLeave(h)
    BY <1>took, <2>1
  <2>3. CASE K!nativeSubmitResponse(g) /\ UNCHANGED <<job, onPump>>
    BY <1>0, <1>same, <2>1, <2>2, <2>3 DEF JobsTyped, K!nativeSubmitResponse
  <2>4. CASE job' = [job EXCEPT ![g] = "launched"] /\ onPump' = g /\ UNCHANGED asked
    <3>1. Has(toKotlin, B("call", g)) /\ Took(toKotlin, toKotlin', B("call", g))
      BY <1>0, <2>1, KotlinReceives
    <3>2. /\ job[g] = "none" /\ asked[g] # "idle" /\ ~Has(toKotlin', B("call", g))
          /\ g \notin jobs /\ g \notin jobsCancelled
      BY <1>0, <3>1 DEF JobUnborn, Took
    <3>3. job'[g] = "launched" /\ \A h \in Hosted : h # g => job'[h] = job[h]
      BY <1>0, <2>4 DEF JobsTyped
    <3>4. ASSUME NEW h \in Hosted PROVE JobUnborn(h)'
      BY <1>0, <2>1, <2>2, <2>4, <3>2, <3>3 DEF JobUnborn, CallsOnlyLeave
    <3>5. ASSUME NEW h \in Hosted PROVE JobKept(h)'
      BY <1>0, <1>id, <2>1, <2>4, <3>2, <3>3 DEF JobKept
    <3>6. ScopeOver'
      BY <1>0, <2>1 DEF ScopeOver
    <3>7. JobsTyped'
      BY <1>0, <2>1, <2>4 DEF JobsTyped
    <3> QED BY <3>4, <3>5, <3>6, <3>7 DEF JobsInv
  <2> QED BY <1>4, <2>3, <2>4 DEF K!onCall
\* Steps of one job, or of the pump about it.
<1>step. ASSUME NEW g \in Hosted, job[g] # "none" \/ onPump = g, UNCHANGED <<toKotlin, phase>>,
                JobsTyped', job'[g] # "none",
                \A h \in Hosted : /\ asked'[h] = "idle" => asked[h] = "idle"
                                  /\ h # g => /\ job'[h] = job[h]
                                              /\ h \in jobs' <=> h \in jobs
                                              /\ h \in jobsCancelled' <=> h \in jobsCancelled
                                              /\ onPump' = h <=> onPump = h,
                JobKept(g)', ScopeOver'
         PROVE  JobsInv'
  <2>1. job[g] # "none"
    BY <1>0, <1>step DEF JobUnborn
  <2>2. ASSUME NEW h \in Hosted PROVE JobUnborn(h)' /\ JobKept(h)'
    <3>1. CASE h = g
      BY <1>0, <1>step, <2>1, <3>1 DEF JobUnborn
    <3>2. CASE h # g
      BY <1>0, <1>step, <3>2 DEF JobUnborn, JobKept
    <3> QED BY <3>1, <3>2
  <2> QED BY <1>step, <2>2 DEF JobsInv
<1>5. ASSUME NEW g \in Hosted, K!PutJob(g) PROVE JobsInv'
  <2>1. /\ onPump = g /\ jobs' = jobs \cup {g} /\ onPump' = "idle"
        /\ UNCHANGED <<job, jobsCancelled, asked, toKotlin, phase>>
    BY <1>5 DEF K!PutJob, K!downVars
  <2>2. JobsTyped' /\ job[g] # "none"
    BY <1>0, <2>1 DEF JobsTyped, JobUnborn
  <2>3. JobKept(g)'
    BY <1>0, <1>id, <2>1 DEF JobKept
  <2>4. ScopeOver'
    BY <1>0, <1>id, <2>1 DEF ScopeOver
  <2> QED BY <1>id, <1>step, <2>1, <2>2, <2>3, <2>4
<1>6. ASSUME NEW g \in Hosted, K!JobRuns(g) PROVE JobsInv'
  <2>1. /\ job[g] \in {"launched", "running", "responded"}
        /\ UNCHANGED <<jobsCancelled, toKotlin, onPump, phase>>
    BY <1>6 DEF K!JobRuns, K!JobStarts, K!JobResponds, K!JobEnds, K!downVars
  <2>2. \/ /\ job[g] = "launched" /\ UNCHANGED <<jobs, asked>>
           /\ job' = [job EXCEPT ![g] = IF g \in jobsCancelled THEN "ended" ELSE "running"]
        \/ /\ job[g] = "running" /\ UNCHANGED jobs
           /\ job' = [job EXCEPT ![g] = "responded"] /\ K!nativeSubmitResponse(g)
        \/ /\ job[g] = "responded" /\ jobs' = jobs \ {g} /\ UNCHANGED asked
           /\ job' = [job EXCEPT ![g] = IF onPump = g THEN "endedEarly" ELSE "ended"]
    BY <1>6 DEF K!JobRuns, K!JobStarts, K!JobResponds, K!JobEnds
  <2>3. JobsTyped'
    BY <1>0, <2>1, <2>2 DEF JobsTyped, K!nativeSubmitResponse
  <2>4. \A h \in Hosted : /\ asked'[h] = "idle" => asked[h] = "idle"
                          /\ h # g => job'[h] = job[h] /\ (h \in jobs' <=> h \in jobs)
    BY <1>0, <2>2 DEF JobsTyped, K!nativeSubmitResponse
  <2>5. /\ \/ job'[g] = "running" /\ job[g] = "launched" /\ g \notin jobsCancelled /\ jobs' = jobs
           \/ job'[g] = "ended" /\ job[g] = "launched" /\ g \in jobsCancelled /\ jobs' = jobs
           \/ job'[g] = "responded" /\ jobs' = jobs
           \/ job'[g] = "endedEarly" /\ onPump = g /\ g \notin jobs'
           \/ job'[g] = "ended" /\ onPump # g /\ g \notin jobs'
    BY <1>0, <2>2 DEF JobsTyped
  <2>6. JobKept(g)'
    BY <1>0, <2>1, <2>5 DEF JobKept
  <2>7. ScopeOver'
    BY <1>0, <2>1, <2>2, <2>4 DEF ScopeOver, K!Live
  <2> QED BY <1>step, <2>1, <2>3, <2>4, <2>5, <2>6, <2>7
<1>7. ASSUME NEW g \in Hosted, K!onCancel(g) PROVE JobsInv'
  <2>1. /\ onPump = "idle" /\ toKotlin # <<>> /\ toKotlin' = Tail(toKotlin)
        /\ jobsCancelled' = jobsCancelled \cup (jobs \cap {g}) /\ jobs' = jobs \ {g}
        /\ UNCHANGED <<job, asked, onPump, phase>>
    BY <1>7 DEF K!onCancel, K!downVars
  <2>2. \A h \in Hosted : CallsOnlyLeave(h)
    BY <1>took, <2>1
  <2>3. ASSUME NEW h \in Hosted PROVE JobUnborn(h)' /\ JobKept(h)'
    BY <1>0, <1>id, <2>1, <2>2 DEF JobUnborn, JobKept, CallsOnlyLeave
  <2>4. JobsTyped' /\ ScopeOver'
    BY <1>0, <2>1 DEF JobsTyped, ScopeOver
  <2> QED BY <2>3, <2>4 DEF JobsInv
<1>8. ASSUME K!nativeShutdown PROVE JobsInv'
  <2>1. /\ UNCHANGED <<jobs, job, jobsCancelled, onPump, toKotlin>>
        /\ phase' = "stopping"
        /\ asked' = [h \in Hosted |-> IF asked[h] = "waiting" THEN "closed" ELSE asked[h]]
    BY <1>8 DEF K!nativeShutdown
  <2> QED BY <1>0, <2>1 DEF JobsInv, JobsTyped, JobUnborn, JobKept, ScopeOver
<1>9. ASSUME K!PumpExits PROVE JobsInv'
  <2>1. /\ UNCHANGED <<jobs, job, jobsCancelled, asked, phase, toKotlin>>
        /\ onPump = "idle" /\ onPump' = "exited"
    BY <1>9 DEF K!PumpExits, K!jobVars, K!downVars
  <2> QED BY <1>0, <1>id, <2>1 DEF JobsInv, JobsTyped, JobUnborn, JobKept, ScopeOver
<1>10. ASSUME K!CancelScope PROVE JobsInv'
  <2>1. /\ phase' = "cancelling" /\ onPump = "exited" /\ jobs' = {}
        /\ jobsCancelled' = jobsCancelled \cup {h \in Hosted : K!Live(h)}
        /\ UNCHANGED <<job, asked, onPump, toKotlin>>
    BY <1>10 DEF K!CancelScope
  <2>2. \A h \in Hosted : h \in jobsCancelled' <=> h \in jobsCancelled \/ K!Live(h)
    BY <2>1
  <2>3. JobsTyped'
    BY <1>0, <2>1 DEF JobsTyped
  <2>4. ScopeOver'
    BY <2>1, <2>2 DEF ScopeOver, K!Live
  <2>5. ASSUME NEW h \in Hosted PROVE JobUnborn(h)' /\ JobKept(h)'
    BY <1>0, <1>id, <2>1, <2>2 DEF JobUnborn, JobKept, K!Live
  <2> QED BY <2>3, <2>4, <2>5 DEF JobsInv
<1>11. ASSUME K!ClearPending \/ \E c \in S!OwnIds : K!CancelPending(c) PROVE JobsInv'
  <2>1. /\ UNCHANGED <<jobs, job, jobsCancelled, asked, onPump, toKotlin>>
        /\ phase = "cancelling" /\ phase' \in {"cancelling", "down"}
    BY <1>11 DEF K!ClearPending, K!CancelPending, K!jobVars
  <2> QED BY <1>0, <2>1 DEF JobsInv, JobsTyped, JobUnborn, JobKept, ScopeOver, K!Live
<1> QED
  BY <1>1, <1>2, <1>3, <1>4, <1>5, <1>6, <1>7, <1>8, <1>9, <1>10, <1>11
  DEF K!Next, K!PumpRuns, K!ShutdownRuns
-----------------------------------------------------------------------------
(* Both.                                                                   *)

LEMMA SwiftStep ==
  ASSUME S!SwiftHostAssumption, SwiftInv, S!Next
  PROVE  SwiftInv'
<1>1. S!TypeOK' /\ QueuesTyped' /\ CallsInv' /\ PumpAwaitsOne'
  BY NextTypes, NextQueues, NextCalls, NextPump
<1>2. \A h \in Hosted : HostedKept(h)'
  BY NextHosted
<1>3. S!Frame' = S!Frame /\ S!OwnIds' = S!OwnIds
  BY DEF S!Frame, S!OwnIds
<1> QED BY <1>1, <1>2, <1>3 DEF SwiftInv, QueuesTyped, CallsInv, HostedKept

LEMMA KotlinStep ==
  ASSUME K!KotlinHostAssumption, KotlinInv, K!Next
  PROVE  KotlinInv'
<1>1. K!TypeOK
  BY DEF KotlinInv
<1>2. OwnTyped
  BY DEF KotlinInv, K!TypeOK, OwnTyped
<1>3. LaneTyped' /\ OwnTyped' /\ JobsInv'
  BY <1>1, <1>2, NextLane, NextOwn, NextJobs
<1>4. /\ submits' \in [S!OwnIds -> 0..2] /\ runs' \in [S!OwnIds -> 0..2] /\ busy' \in [S!OwnIds -> 0..2]
  <2>1. \A c \in S!OwnIds : submits'[c] \in 0..2 /\ runs'[c] \in 0..2 /\ busy'[c] \in 0..2
    <3> TAKE c \in S!OwnIds
    <3>1. /\ submits'[c] \in Nat /\ runs'[c] \in Nat /\ busy'[c] \in Nat
          /\ busy'[c] <= runs'[c] /\ runs'[c] + submits'[c] <= 2
      BY <1>3 DEF OwnTyped, CallCounted
    <3> QED BY <3>1
  <2> QED BY <1>3, <2>1 DEF OwnTyped
<1>5. K!TypeOK'
  BY <1>3, <1>4 DEF K!TypeOK, LaneTyped, OwnTyped, JobsInv, JobsTyped
<1> QED BY <1>3, <1>5 DEF KotlinInv, OwnTyped, JobsInv

LEMMA HostsStart ==
  ASSUME S!SwiftHostAssumption, K!KotlinHostAssumption, S!Init, K!Init
  PROVE  SwiftInv /\ KotlinInv
<1>1. /\ \A b : ~Has(<<>>, b) /\ Once(<<>>, b)
      /\ \A a, b : Before(<<>>, a, b)
      /\ <<>> \in Seq(S!Block) /\ <<>> \in Seq(S!Frame) /\ <<>> \in Seq(K!Frame) /\ Len(<<>>) = 0
  BY DEF Has, Once, Before
<1>2. SwiftInv
  <2>1. S!TypeOK
    BY <1>1 DEF S!Init, S!TypeOK, S!SwiftHostAssumption
  <2>2. QueuesTyped /\ CallsInv /\ PumpAwaitsOne
    BY <1>1 DEF S!Init, S!SwiftHostAssumption, QueuesTyped, CallsInv, SubmittedOnce, CallKept,
      StreamKept, PumpAwaitsOne
  <2>3. \A h \in Hosted : HostedKept(h)
    BY <1>1 DEF S!Init, HostedKept, HostedInTurn, GivenUp, Tracked, Looked, Coming, CancelComing
  <2> QED BY <2>1, <2>2, <2>3 DEF SwiftInv, QueuesTyped, CallsInv, HostedKept
<1>3. KotlinInv
  <2>1. K!TypeOK
    BY <1>1 DEF K!Init, K!TypeOK, K!KotlinHostAssumption
  <2>2. \A c \in S!OwnIds : CallCounted(c)
    BY DEF K!Init, CallCounted
  <2>3. ScopeOver /\ \A h \in Hosted : JobUnborn(h) /\ JobKept(h)
    BY <1>1 DEF K!Init, K!KotlinHostAssumption, ScopeOver, JobUnborn, JobKept
  <2> QED BY <2>1, <2>2, <2>3 DEF KotlinInv
<1> QED BY <1>2, <1>3

\* What the invariants are there for.
LEMMA SwiftKept ==
  ASSUME SwiftInv
  PROVE  S!ContinuationsKept /\ S!TasksReached
<1>0. S!TypeOK
  BY DEF SwiftInv
<1>1. \A kind, id : S!Waiting(kind, id) <=> Has(queue, B(kind, id))
  BY <1>0, Queueing
<1>2. S!ContinuationsKept
  <2>1. S!ResumedOnce /\ S!NothingLost
    BY <1>1 DEF SwiftInv, CallKept, S!ResumedOnce, S!NothingLost
  <2>2. S!TerminatedAreForgotten
    BY <1>0, <1>1 DEF SwiftInv, StreamKept, S!TerminatedAreForgotten, S!TypeOK
  <2> QED BY <1>0, <2>1, <2>2 DEF S!ContinuationsKept
<1>3. S!TasksTracked
  BY <1>1 DEF SwiftInv, Tracked, S!TasksTracked
<1>4. S!CancelReachesTask
  <2> SUFFICES ASSUME NEW h \in Hosted, rust[h] = "cancelled", task[h] = "running", pump # "exited",
                      ~S!Waiting("cancel", h),
                      [kind |-> "cancel", id |-> h] \notin {outbound[i] : i \in DOMAIN outbound}
               PROVE  h \in cancelled
    BY DEF S!CancelReachesTask
  <2>1. ~CancelComing(h)
    BY <1>1 DEF CancelComing, Has, B
  <2> QED BY <2>1 DEF SwiftInv, GivenUp
<1> QED BY <1>2, <1>3, <1>4 DEF S!TasksReached

LEMMA KotlinKept ==
  ASSUME KotlinInv
  PROVE  K!JobsTracked /\ K!AgainOnlyIfCancelled
<1>1. K!TypeOK /\ K!AgainOnlyIfCancelled
  BY DEF KotlinInv, CallCounted, K!AgainOnlyIfCancelled, K!TypeOK
<1>2. K!CancelFindsJob /\ K!StaleOnlyIfEarly
  BY DEF KotlinInv, JobKept, K!CancelFindsJob, K!StaleOnlyIfEarly, K!Live, K!TypeOK
<1>3. K!ShutdownReachesAll
  BY DEF KotlinInv, ScopeOver, K!ShutdownReachesAll
<1> QED BY <1>1, <1>2, <1>3 DEF K!JobsTracked

\* Whatever calls there are, of both directions, and whatever room the channels
\* have: in Swift no continuation is resumed twice or lost, and every Task is
\* within reach of its Cancel; in Kotlin every job is, and Rust runs a call twice
\* only if it was cancelled (IstmoRuntime.swift 62-303, IstmoRuntime.kt 115-221).
THEOREM HostsAlwaysTrack == BothSpec => []HostsTrack
<1>0. S!SwiftHostAssumption /\ K!KotlinHostAssumption
  BY HostsAssumption
<1>1. BothInit => SwiftInv /\ KotlinInv
  BY <1>0, HostsStart DEF BothInit
<1>2. SwiftInv /\ KotlinInv /\ [BothNext]_bothVars => (SwiftInv /\ KotlinInv)'
  <2> SUFFICES ASSUME SwiftInv, KotlinInv, [BothNext]_bothVars PROVE SwiftInv' /\ KotlinInv'
    OBVIOUS
  <2>1. ASSUME UNCHANGED swiftVars PROVE SwiftInv'
    BY <2>1
    DEF swiftVars, SwiftInv, S!TypeOK, SubmittedOnce, CallKept, StreamKept, PumpAwaitsOne,
        HostedInTurn, GivenUp, Tracked, Coming, CancelComing, Looked, AwaitedBlocks, S!OwnIds, S!Block, S!Frame
  <2>2. ASSUME UNCHANGED kotlinVars PROVE KotlinInv'
    BY <2>2
    DEF kotlinVars, KotlinInv, K!TypeOK, CallCounted, JobUnborn, JobKept, ScopeOver, K!Live,
        S!OwnIds, K!Frame
  <2>3. CASE Swift(S!Next)
    BY <1>0, <2>2, <2>3, SwiftStep DEF Swift
  <2>4. CASE Kotlin(K!Next)
    BY <1>0, <2>1, <2>4, KotlinStep DEF Kotlin
  <2>5. CASE UNCHANGED bothVars
    BY <2>1, <2>2, <2>5 DEF bothVars
  <2> QED BY <2>3, <2>4, <2>5 DEF BothNext
<1>3. SwiftInv /\ KotlinInv => HostsTrack
  BY SwiftKept, KotlinKept DEF HostsTrack
<1> QED BY <1>1, <1>2, <1>3, PTL DEF BothSpec
=============================================================================
