------------------------- MODULE CallRouting_proofs -------------------------
(***************************************************************************)
(* Proofs about CallRouting, for every MaxId, every set of peer ids and    *)
(* every outbound capacity.                                                *)
(***************************************************************************)
EXTENDS CallRouting, TLAPS

\* TypeOK is not inductive: tripping a token needs one to have been fetched.
FetchedToken ==
  /\ \A i \in LocalIds : caller[i] = "tripping" => fetched["local"][i] # None
  /\ \A i \in PeerIds : peer_cancel[i] = "fetched" => fetched["peer"][i] # None

TypeInv == TypeOK /\ FetchedToken

LEMMA InitTypeInv == Init => TypeInv
  BY CallRoutingAssumption DEF Init, TypeInv, FetchedToken, TypeOK, LocalIds, Ids, Side, Token,
     Call,
     Frame, TaskPhase, CallerPhase

\* Sending keeps the channel a sequence of frames within its capacity.
LEMMA EnqueueType ==
  ASSUME NEW frame \in Frame, TypeOK, Enqueue(frame)
  PROVE  outbound' \in Seq(Frame) /\ Len(outbound') <= OutboundCap
  BY CallRoutingAssumption DEF TypeOK, Enqueue

LEMMA SendType ==
  ASSUME NEW frame \in Frame, TypeOK, send_outbound(frame)
  PROVE  outbound' \in Seq(Frame) /\ Len(outbound') <= OutboundCap
  BY EnqueueType DEF send_outbound, SendFails, TypeOK

\* Spawning a dispatch keeps the types of what it touches.
LEMMA SpawnType ==
  ASSUME NEW o \in Side, NEW i \in Ids, TypeOK, SpawnDispatch(o, i)
  PROVE  /\ cancelled_hosted' \in [Ids -> Token \cup {None}]
         /\ holds' \in [Side -> [Ids -> Token \cup {None}]]
         /\ task' \in [Side -> [Ids -> TaskPhase]]
         /\ waits' \in [Side -> [Ids -> BOOLEAN]]
<1>1. EntryOrDefault(i, <<o, i>>) \in Token
  BY DEF TypeOK, EntryOrDefault, Token, Side
<1>2. /\ cancelled_hosted' \in [Ids -> Token \cup {None}]
      /\ holds' \in [Side -> [Ids -> Token \cup {None}]]
  BY <1>1 DEF TypeOK, SpawnDispatch
<1>3. task' \in [Side -> [Ids -> TaskPhase]]
  BY DEF TypeOK, SpawnDispatch, TaskPhase
<1>4. PICK w \in {FALSE, MayWait} : waits' = [waits EXCEPT ![o][i] = w]
  BY DEF SpawnDispatch
<1>5. w \in BOOLEAN
  BY CallRoutingAssumption
<1>6. waits' \in [Side -> [Ids -> BOOLEAN]]
  BY <1>4, <1>5 DEF TypeOK
<1> QED BY <1>2, <1>3, <1>6

\* What the peer does with a frame keeps the types of its state.
LEMMA PeerReceivesType ==
  ASSUME TypeOK, NEW frame \in Frame, PeerReceives(frame)
  PROVE  /\ peer_got' \in [PeerIds -> Call \cup {None}]
         /\ serving' \in [LocalIds -> {"none", "serving", "cancelled", "answered"}]
<1>1. frame.owner \in Side /\ frame.id \in Ids
  BY DEF Frame
<1>2. <<frame.owner, frame.id>> \in Call
  BY <1>1 DEF Call
<1>3. peer_got' \in [PeerIds -> Call \cup {None}]
  <2>1. peer_got \in [PeerIds -> Call \cup {None}]
    BY DEF TypeOK
  <2>2. \/ peer_got' = peer_got
        \/ /\ frame.id \in PeerIds
           /\ peer_got' = [peer_got EXCEPT ![frame.id] = <<frame.owner, frame.id>>]
    BY DEF PeerReceives
  <2> QED BY <1>2, <2>1, <2>2
<1>4. serving' \in [LocalIds -> {"none", "serving", "cancelled", "answered"}]
  BY DEF PeerReceives, TypeOK
<1> QED BY <1>3, <1>4

\* Every step keeps the types.
LEMMA NextTypeInv == TypeInv /\ [Next]_vars => TypeInv'
<1> SUFFICES ASSUME TypeInv, [Next]_vars PROVE TypeInv'
  OBVIOUS
<1> USE CallRoutingAssumption
    DEF LocalIds, Ids, Side, TaskPhase, CallerPhase,
        runtimeVars, taskVars, callerVars, peerVars, TypeInv, FetchedToken
<1>1. ASSUME NEW i \in LocalIds, Register(i) PROVE TypeInv'
  BY <1>1 DEF TypeOK, Register
<1>3. ASSUME NEW i \in LocalIds, CallHosted(i) PROVE TypeInv'
  BY <1>3, SpawnType DEF TypeOK, CallHosted
<1>4. ASSUME NEW i \in LocalIds, CallPeer(i) PROVE TypeInv'
  <2>1. [kind |-> "Call", owner |-> "local", id |-> i] \in Frame
    BY DEF Frame
  <2>2. outbound' \in Seq(Frame) /\ Len(outbound') <= OutboundCap
    BY <1>4, <2>1, SendType DEF CallPeer, send_outbound
  <2> QED BY <1>4, <2>2 DEF TypeOK, CallPeer
<1>5. ASSUME NEW i \in LocalIds, Await(i) PROVE TypeInv'
  BY <1>5 DEF TypeOK, Await
<1>6. ASSUME NEW i \in LocalIds, DropHandle(i) PROVE TypeInv'
  BY <1>6 DEF TypeOK, DropHandle
<1>7. ASSUME NEW i \in LocalIds, CancelHostedLocal(i) PROVE TypeInv'
  <2>1. fetched' \in [Side -> [Ids -> Token \cup {None}]]
    BY <1>7 DEF TypeOK, CancelHostedLocal
  <2>2. caller' \in [LocalIds -> CallerPhase]
    BY <1>7 DEF TypeOK, CancelHostedLocal
  <2>3. TypeOK'
    BY <1>7, <2>1, <2>2 DEF TypeOK, CancelHostedLocal
  <2>4. fetched'["local"][i] = cancelled_hosted[i]
    <3>1. fetched \in [Side -> [Ids -> Token \cup {None}]]
      BY DEF TypeOK
    <3> QED BY <1>7, <3>1 DEF CancelHostedLocal
  <2>5. /\ \A j \in Ids : j # i => fetched'["local"][j] = fetched["local"][j]
        /\ \A j \in Ids : fetched'["peer"][j] = fetched["peer"][j]
        /\ \A j \in LocalIds : j # i => caller'[j] = caller[j]
        /\ caller'[i] = "tripping" => cancelled_hosted[i] # None
        /\ peer_cancel' = peer_cancel
    BY <1>7 DEF TypeOK, CancelHostedLocal
  <2>6. FetchedToken'
    BY <2>4, <2>5
  <2> QED BY <2>3, <2>6
<1>8. ASSUME NEW i \in LocalIds, TripLocal(i) PROVE TypeInv'
  <2>1. fetched["local"][i] \in Token
    <3>1. fetched["local"][i] \in Token \cup {None}
      <4>1. fetched \in [Side -> [Ids -> Token \cup {None}]]
        BY DEF TypeOK
      <4> QED BY <4>1
    <3>2. fetched["local"][i] # None
      BY <1>8 DEF TripLocal
    <3> QED BY <3>1, <3>2
  <2>2. tripped' \subseteq Token
    BY <1>8, <2>1 DEF TypeOK, TripLocal
  <2>3. fetched' \in [Side -> [Ids -> Token \cup {None}]]
    BY <1>8 DEF TypeOK, TripLocal
  <2>4. TypeOK'
    BY <1>8, <2>2, <2>3 DEF TypeOK, TripLocal
  <2>5. /\ \A j \in Ids : j # i => fetched'["local"][j] = fetched["local"][j]
        /\ \A j \in Ids : fetched'["peer"][j] = fetched["peer"][j]
        /\ caller'[i] = "dropped"
        /\ \A j \in LocalIds : j # i => caller'[j] = caller[j]
        /\ peer_cancel' = peer_cancel
    BY <1>8 DEF TypeOK, TripLocal
  <2>6. FetchedToken'
    BY <2>5
  <2> QED BY <2>4, <2>6
<1>9. ASSUME NEW i \in LocalIds, CancelPeer(i) PROVE TypeInv'
  <2>1. [kind |-> "Cancel", owner |-> "local", id |-> i] \in Frame
    BY DEF Frame
  <2>2. outbound' \in Seq(Frame) /\ Len(outbound') <= OutboundCap
    BY <1>9, <2>1, SendType DEF CancelPeer
  <2> QED BY <1>9, <2>2 DEF TypeOK, CancelPeer
<1>10. ASSUME NEW o \in Side, NEW i \in Ids, FinishDispatch(o, i) PROVE TypeInv'
  BY <1>10 DEF TypeOK, FinishDispatch
<1>11. ASSUME NEW o \in Side, NEW i \in Ids, PanicDispatch(o, i) PROVE TypeInv'
  BY <1>11 DEF TypeOK, PanicDispatch
<1>12. ASSUME NEW o \in Side, NEW i \in Ids, RouteRespond(o, i) PROVE TypeInv'
  BY <1>12 DEF TypeOK, RouteRespond
<1>13. ASSUME NEW o \in Side, NEW i \in Ids, DeliverRespond(o, i) PROVE TypeInv'
  BY <1>13 DEF TypeOK, DeliverRespond, deliver_response, Call
<1>14. ASSUME NEW o \in Side, NEW i \in Ids, SendRespond(o, i) PROVE TypeInv'
  <2>1. [kind |-> "Respond", owner |-> o, id |-> i] \in Frame
    BY DEF Frame
  <2>2. outbound' \in Seq(Frame) /\ Len(outbound') <= OutboundCap
    BY <1>14, <2>1, SendType DEF SendRespond
  <2> QED BY <1>14, <2>2 DEF TypeOK, SendRespond
<1>15. ASSUME NEW i \in PeerIds, PeerCall(i) PROVE TypeInv'
  <2>1. CASE SpawnDispatch("peer", i)
    BY <1>15, <2>1, SpawnType DEF TypeOK, PeerCall
  <2>2. CASE /\ task' = [task EXCEPT !["peer"][i] = "respond"]
             /\ UNCHANGED <<cancelled_hosted, holds, waits>>
    <3>1. task' \in [Side -> [Ids -> TaskPhase]]
      BY <2>2 DEF TypeOK
    <3> QED BY <1>15, <2>2, <3>1 DEF TypeOK, PeerCall
  <2> QED BY <1>15, <2>1, <2>2 DEF PeerCall
<1>16. ASSUME NEW i \in PeerIds, cancel_hosted(i) PROVE TypeInv'
  <2>1. EntryOrDefault(i, <<"cancel", i>>) \in Token
    BY DEF TypeOK, EntryOrDefault, Token
  <2> QED BY <1>16, <2>1 DEF TypeOK, cancel_hosted
<1>17. ASSUME NEW i \in PeerIds, TripPeer(i) PROVE TypeInv'
  <2>1. fetched["peer"][i] \in Token
    <3>1. fetched["peer"][i] \in Token \cup {None}
      <4>1. fetched \in [Side -> [Ids -> Token \cup {None}]]
        BY DEF TypeOK
      <4> QED BY <4>1
    <3>2. fetched["peer"][i] # None
      BY <1>17 DEF TripPeer
    <3> QED BY <3>1, <3>2
  <2>2. tripped' \subseteq Token
    BY <1>17, <2>1 DEF TypeOK, TripPeer
  <2>3. fetched' \in [Side -> [Ids -> Token \cup {None}]]
    BY <1>17 DEF TypeOK, TripPeer
  <2>4. TypeOK'
    BY <1>17, <2>2, <2>3 DEF TypeOK, TripPeer
  <2>5. /\ \A j \in Ids : j # i => fetched'["peer"][j] = fetched["peer"][j]
        /\ \A j \in Ids : fetched'["local"][j] = fetched["local"][j]
        /\ peer_cancel'[i] = "done"
        /\ \A j \in PeerIds : j # i => peer_cancel'[j] = peer_cancel[j]
        /\ caller' = caller
    BY <1>17 DEF TypeOK, TripPeer
  <2>6. FetchedToken'
    BY <2>5
  <2> QED BY <2>4, <2>6
<1>18. ASSUME NEW i \in LocalIds, PeerRespond(i) PROVE TypeInv'
  BY <1>18 DEF TypeOK, PeerRespond, deliver_response, Call
<1>19. CASE Pump
  <2>1. Head(outbound) \in Frame /\ outbound' \in Seq(Frame) /\ Len(outbound') <= OutboundCap
    BY <1>19 DEF Pump, TypeOK
  <2> QED BY <1>19, <2>1, PeerReceivesType DEF TypeOK, Pump
<1>20. CASE Shutdown
  BY <1>20 DEF TypeOK, Shutdown
<1>21. CASE StopPump
  BY <1>21 DEF TypeOK, StopPump
<1>22. CASE UNCHANGED vars
  BY <1>22 DEF TypeOK, vars
<1> QED
  BY <1>1, <1>3, <1>4, <1>5, <1>6, <1>7, <1>8, <1>9, <1>10, <1>11, <1>12,
     <1>13, <1>14, <1>15, <1>16, <1>17, <1>18, <1>19, <1>20, <1>21, <1>22
  DEF Next, CallerStep, TaskStep

\* The state of the model is always well typed.
THEOREM TypeCorrect == Spec => []TypeOK
<1>1. Spec => []TypeInv
  BY InitTypeInv, NextTypeInv, PTL DEF Spec
<1>2. TypeInv => TypeOK
  BY DEF TypeInv
<1> QED BY <1>1, <1>2, PTL

-----------------------------------------------------------------------------
(* Answers and the calls they belong to.                                   *)

\* Dispatch threads serve calls with ids of the side that made the call.
OwnIds ==
  \A i \in Ids : /\ task["local"][i] # "none" => i \in LocalIds
                 /\ task["peer"][i] # "none" => i \in PeerIds

\* A response to one of our calls, if it leaks to the peer, fits none of the
\* peer's ids.
Harmless(frame) ==
  frame.kind = "Respond" /\ frame.owner = "local" => frame.id \notin PeerIds

AnswerInv ==
  /\ OwnIds
  /\ \A i \in Ids : task["peer"][i] # "deliver"
  /\ \A k \in DOMAIN outbound : Harmless(outbound[k])
  /\ AnswersMatchCalls

LEMMA EnqueueHarmless ==
  ASSUME TypeOK, NEW frame \in Frame, Harmless(frame), send_outbound(frame),
         \A k \in DOMAIN outbound : Harmless(outbound[k])
  PROVE  \A k \in DOMAIN outbound' : Harmless(outbound'[k])
<1>1. CASE Enqueue(frame)
  <2>1. outbound \in Seq(Frame) /\ outbound' = Append(outbound, frame)
    BY <1>1 DEF Enqueue, TypeOK
  <2>2. ASSUME NEW k \in DOMAIN outbound' PROVE Harmless(outbound'[k])
    <3>1. CASE k \in DOMAIN outbound
      <4>1. outbound'[k] = outbound[k]
        BY <2>1, <3>1
      <4> QED BY <3>1, <4>1
    <3>2. CASE k \notin DOMAIN outbound
      <4>1. outbound'[k] = frame
        BY <2>1, <3>2
      <4> QED BY <4>1
    <3> QED BY <3>1, <3>2
  <2> QED BY <2>2
<1>2. CASE SendFails
  BY <1>2 DEF SendFails
<1> QED BY <1>1, <1>2 DEF send_outbound

LEMMA TailHarmless ==
  ASSUME TypeOK, outbound # <<>>, outbound' = Tail(outbound),
         \A k \in DOMAIN outbound : Harmless(outbound[k])
  PROVE  /\ Head(outbound) \in Frame
         /\ Harmless(Head(outbound))
         /\ \A k \in DOMAIN outbound' : Harmless(outbound'[k])
<1>1. outbound \in Seq(Frame)
  BY DEF TypeOK
<1>2. Head(outbound) = outbound[1] /\ 1 \in DOMAIN outbound
  BY <1>1
<1>3. Head(outbound) \in Frame
  BY <1>1
<1>4. ASSUME NEW k \in DOMAIN outbound' PROVE Harmless(outbound'[k])
  <2>1. k + 1 \in DOMAIN outbound /\ outbound'[k] = outbound[k + 1]
    BY <1>1
  <2> QED BY <2>1
<1> QED BY <1>2, <1>3, <1>4

\* With ids that do not meet, no step breaks AnswerInv.
LEMMA NextAnswerInv ==
  ASSUME DisjointIds, TypeOK, AnswerInv, [Next]_vars
  PROVE  AnswerInv'
<1> USE CallRoutingAssumption
    DEF LocalIds, Ids, Side, AnswerInv, OwnIds, AnswersMatchCalls, DisjointIds,
        runtimeVars, taskVars, callerVars, peerVars
<1>1. ASSUME NEW i \in LocalIds, Register(i) PROVE AnswerInv'
  BY <1>1 DEF Register
<1>2. ASSUME NEW i \in LocalIds, CallHosted(i) PROVE AnswerInv'
  BY <1>2 DEF TypeOK, CallHosted, SpawnDispatch
<1>3. ASSUME NEW i \in LocalIds, CallPeer(i) PROVE AnswerInv'
  <2>1. [kind |-> "Call", owner |-> "local", id |-> i] \in Frame
    BY DEF Frame
  <2>2. Harmless([kind |-> "Call", owner |-> "local", id |-> i])
    BY DEF Harmless
  <2>3. \A k \in DOMAIN outbound' : Harmless(outbound'[k])
    BY <1>3, <2>1, <2>2, EnqueueHarmless DEF CallPeer, send_outbound
  <2> QED BY <1>3, <2>3 DEF CallPeer
<1>4. ASSUME NEW i \in LocalIds, Await(i) PROVE AnswerInv'
  BY <1>4 DEF Await
<1>5. ASSUME NEW i \in LocalIds, DropHandle(i) PROVE AnswerInv'
  BY <1>5 DEF DropHandle
<1>6. ASSUME NEW i \in LocalIds, CancelHostedLocal(i) PROVE AnswerInv'
  BY <1>6 DEF CancelHostedLocal
<1>7. ASSUME NEW i \in LocalIds, TripLocal(i) PROVE AnswerInv'
  BY <1>7 DEF TripLocal
<1>8. ASSUME NEW i \in LocalIds, CancelPeer(i) PROVE AnswerInv'
  <2>1. [kind |-> "Cancel", owner |-> "local", id |-> i] \in Frame
    BY DEF Frame
  <2>2. Harmless([kind |-> "Cancel", owner |-> "local", id |-> i])
    BY DEF Harmless
  <2>3. \A k \in DOMAIN outbound' : Harmless(outbound'[k])
    BY <1>8, <2>1, <2>2, EnqueueHarmless DEF CancelPeer
  <2> QED BY <1>8, <2>3 DEF CancelPeer
<1>9. ASSUME NEW o \in Side, NEW i \in Ids, FinishDispatch(o, i) PROVE AnswerInv'
  BY <1>9 DEF TypeOK, FinishDispatch
<1>10. ASSUME NEW o \in Side, NEW i \in Ids, PanicDispatch(o, i) PROVE AnswerInv'
  BY <1>10 DEF TypeOK, PanicDispatch
<1>11. ASSUME NEW o \in Side, NEW i \in Ids, RouteRespond(o, i) PROVE AnswerInv'
  BY <1>11 DEF TypeOK, RouteRespond
<1>12. ASSUME NEW o \in Side, NEW i \in Ids, DeliverRespond(o, i) PROVE AnswerInv'
  <2>1. o = "local"
    BY <1>12 DEF DeliverRespond
  <2> QED BY <1>12, <2>1 DEF TypeOK, DeliverRespond, deliver_response
<1>13. ASSUME NEW o \in Side, NEW i \in Ids, SendRespond(o, i) PROVE AnswerInv'
  <2>1. [kind |-> "Respond", owner |-> o, id |-> i] \in Frame
    BY DEF Frame
  <2>2. Harmless([kind |-> "Respond", owner |-> o, id |-> i])
    BY <1>13 DEF Harmless, SendRespond
  <2>3. \A k \in DOMAIN outbound' : Harmless(outbound'[k])
    BY <1>13, <2>1, <2>2, EnqueueHarmless DEF SendRespond
  <2>4. task' = [task EXCEPT ![o][i] = "done"] /\ UNCHANGED <<result, peer_got>>
    BY <1>13 DEF SendRespond
  <2>5. task[o][i] # "none"
    BY <1>13 DEF SendRespond
  <2>6. OwnIds'
    BY <2>4, <2>5 DEF TypeOK
  <2>7. \A j \in Ids : task'["peer"][j] # "deliver"
    BY <2>4 DEF TypeOK
  <2>8. AnswersMatchCalls'
    BY <2>4
  <2> QED BY <2>3, <2>6, <2>7, <2>8
<1>14. ASSUME NEW i \in PeerIds, PeerCall(i) PROVE AnswerInv'
  <2>1. PICK s \in {"running", "respond"} : task' = [task EXCEPT !["peer"][i] = s]
    BY <1>14 DEF PeerCall, SpawnDispatch
  <2>2. UNCHANGED <<result, peer_got, outbound>>
    BY <1>14 DEF PeerCall
  <2>3. OwnIds' /\ \A j \in Ids : task'["peer"][j] # "deliver"
    <3>1. \A j \in Ids : task'["local"][j] = task["local"][j]
      BY <2>1 DEF TypeOK
    <3>2. \A j \in Ids : j # i => task'["peer"][j] = task["peer"][j]
      BY <2>1 DEF TypeOK
    <3>3. task'["peer"][i] = s
      BY <2>1 DEF TypeOK
    <3> QED BY <3>1, <3>2, <3>3
  <2>4. \A k \in DOMAIN outbound' : Harmless(outbound'[k])
    BY <2>2
  <2>5. AnswersMatchCalls'
    BY <2>2
  <2> QED BY <2>3, <2>4, <2>5
<1>15. ASSUME NEW i \in PeerIds, cancel_hosted(i) PROVE AnswerInv'
  BY <1>15 DEF cancel_hosted
<1>16. ASSUME NEW i \in PeerIds, TripPeer(i) PROVE AnswerInv'
  BY <1>16 DEF TripPeer
<1>17. ASSUME NEW i \in LocalIds, PeerRespond(i) PROVE AnswerInv'
  BY <1>17 DEF TypeOK, PeerRespond, deliver_response
<1>18. CASE Pump
  <2> DEFINE frame == Head(outbound)
  <2>1. /\ frame \in Frame
        /\ Harmless(frame)
        /\ \A k \in DOMAIN outbound' : Harmless(outbound'[k])
    BY <1>18, TailHarmless DEF Pump
  <2>2. \A i \in PeerIds : peer_got'[i] \in {None, <<"peer", i>>}
    <3>1. PeerReceives(frame)
      BY <1>18 DEF Pump
    <3>2. CASE peer_got' = peer_got
      BY <3>2
    <3>3. CASE peer_got' # peer_got
      <4>1. /\ frame.kind = "Respond"
            /\ frame.id \in PeerIds
            /\ peer_got' = [peer_got EXCEPT ![frame.id] = <<frame.owner, frame.id>>]
        BY <3>1, <3>3 DEF PeerReceives
      <4>2. frame.owner = "peer"
        BY <2>1, <4>1 DEF Harmless, Frame
      <4> QED BY <4>1, <4>2 DEF TypeOK
    <3> QED BY <3>2, <3>3
  <2>3. UNCHANGED <<task, result>>
    BY <1>18 DEF Pump
  <2> QED BY <2>1, <2>2, <2>3
<1>19. CASE Shutdown
  BY <1>19 DEF Shutdown
<1>20. CASE StopPump
  BY <1>20 DEF StopPump
<1>21. CASE UNCHANGED vars
  BY <1>21 DEF vars
<1> QED
  BY <1>1, <1>2, <1>3, <1>4, <1>5, <1>6, <1>7, <1>8, <1>9, <1>10, <1>11,
     <1>12, <1>13, <1>14, <1>15, <1>16, <1>17, <1>18, <1>19, <1>20, <1>21
  DEF Next, CallerStep, TaskStep

\* A caller only ever receives the answer to its own call, provided the two
\* sides number their calls with different ids.
THEOREM AnswersMatch ==
  ASSUME DisjointIds
  PROVE  Spec => []AnswersMatchCalls
<1>1. Init => AnswerInv
  BY DEF Init, AnswerInv, OwnIds, AnswersMatchCalls, Side, Harmless
<1>2. TypeOK /\ AnswerInv /\ [Next]_vars => AnswerInv'
  BY NextAnswerInv
<1>3. AnswerInv => AnswersMatchCalls
  BY DEF AnswerInv
<1> QED BY <1>1, <1>2, <1>3, TypeCorrect, PTL DEF Spec

-----------------------------------------------------------------------------
(* Tokens, and the dispatches that hold them.                              *)

Running(o, i) == task[o][i] = "running"

\* While a host runs, the entry of its call is the token it holds.
EntryHeld ==
  /\ \A o \in Side, i \in Ids :
       Running(o, i) => cancelled_hosted[i] # None /\ holds[o][i] = cancelled_hosted[i]
  /\ \A i \in LocalIds :
       cancelled_hosted[i] # None => task["local"][i] \in {"running", "panicked"}

\* A call of ours is dispatched once registered, and only if it is hosted.
CallerAhead ==
  /\ \A i \in LocalIds : i >= next_id => caller[i] = "idle"
  /\ \A i \in LocalIds :
       caller[i] \in {"idle", "registered"} => task["local"][i] = "none"
  /\ \A i \in LocalIds : Running("local", i) => hosted[i]

\* A cancellation in progress has hold of the token of its host, whether or
\* not the peer's Call is already in.
FetchedRight ==
  /\ \A i \in LocalIds :
       caller[i] = "tripping" /\ Running("local", i) =>
         fetched["local"][i] = holds["local"][i]
  /\ \A i \in PeerIds :
       /\ peer_call[i] = "idle" => task["peer"][i] = "none"
       /\ peer_call[i] = "idle" /\ peer_cancel[i] # "none" =>
            cancelled_hosted[i] # None
       /\ peer_cancel[i] = "fetched" /\ (peer_call[i] = "idle" \/ Running("peer", i)) =>
            fetched["peer"][i] = cancelled_hosted[i]
       /\ peer_cancel[i] = "done" /\ peer_call[i] = "idle" =>
            cancelled_hosted[i] \in tripped

TokenInv ==
  OwnIds /\ EntryHeld /\ CallerAhead /\ FetchedRight /\ CancellationReachesHost

\* What spawning a dispatch does to each of the tables.
LEMMA SpawnEffect ==
  ASSUME TypeOK, NEW o \in Side, NEW i \in Ids, SpawnDispatch(o, i)
  PROVE  /\ \A p \in Side, j \in Ids : task'[p][j] =
              IF p = o /\ j = i THEN "running" ELSE task[p][j]
         /\ \A p \in Side, j \in Ids : holds'[p][j] =
              IF p = o /\ j = i THEN cancelled_hosted'[i] ELSE holds[p][j]
         /\ \A j \in Ids : j # i => cancelled_hosted'[j] = cancelled_hosted[j]
         /\ cancelled_hosted'[i] # None
         /\ cancelled_hosted[i] # None => cancelled_hosted'[i] = cancelled_hosted[i]
<1>1. <<o, i>> \in Token
  BY DEF Token, Side
<1>2. <<o, i>> # None
  BY <1>1, CallRoutingAssumption
<1> DEFINE token == EntryOrDefault(i, <<o, i>>)
<1>3. /\ token # None
      /\ cancelled_hosted[i] # None => token = cancelled_hosted[i]
  BY <1>2 DEF EntryOrDefault
<1>4. /\ cancelled_hosted' = [cancelled_hosted EXCEPT ![i] = token]
      /\ holds' = [holds EXCEPT ![o][i] = token]
      /\ task' = [task EXCEPT ![o][i] = "running"]
  BY DEF SpawnDispatch
<1> HIDE DEF token
<1>5. cancelled_hosted'[i] = token
  BY <1>4 DEF TypeOK
<1>6. \A p \in Side, j \in Ids : task'[p][j] =
        IF p = o /\ j = i THEN "running" ELSE task[p][j]
  BY <1>4 DEF TypeOK
<1>7. \A p \in Side, j \in Ids : holds'[p][j] =
        IF p = o /\ j = i THEN token ELSE holds[p][j]
  BY <1>4 DEF TypeOK
<1>8. \A j \in Ids : j # i => cancelled_hosted'[j] = cancelled_hosted[j]
  BY <1>4 DEF TypeOK
<1> QED BY <1>3, <1>5, <1>6, <1>7, <1>8

\* What the end of a dispatch does to them.
LEMMA FinishEffect ==
  ASSUME TypeOK, NEW o \in Side, NEW i \in Ids, FinishDispatch(o, i)
  PROVE  /\ \A p \in Side, j \in Ids : p # o \/ j # i =>
              task'[p][j] = task[p][j] /\ holds'[p][j] = holds[p][j]
         /\ task'[o][i] =
              IF cancelled_hosted[i] \in tripped THEN "discarded" ELSE "respond"
         /\ \A j \in Ids : j # i => cancelled_hosted'[j] = cancelled_hosted[j]
         /\ cancelled_hosted'[i] = None
<1>1. \A p \in Side, j \in Ids : p # o \/ j # i => task'[p][j] = task[p][j]
  BY DEF FinishDispatch, TypeOK
<1>2. \A p \in Side, j \in Ids : p # o \/ j # i => holds'[p][j] = holds[p][j]
  BY DEF FinishDispatch, TypeOK
<1>3. task'[o][i] = IF cancelled_hosted[i] \in tripped THEN "discarded" ELSE "respond"
  BY DEF FinishDispatch, TypeOK
<1>4. /\ \A j \in Ids : j # i => cancelled_hosted'[j] = cancelled_hosted[j]
      /\ cancelled_hosted'[i] = None
  BY DEF FinishDispatch, TypeOK
<1> QED BY <1>1, <1>2, <1>3, <1>4

\* The later steps of a dispatch change its progress and nothing else here.
LEMMA AfterwardsEffect ==
  ASSUME TypeOK, NEW o \in Side, NEW i \in Ids,
         \/ PanicDispatch(o, i) \/ RouteRespond(o, i)
         \/ DeliverRespond(o, i) \/ SendRespond(o, i)
  PROVE  /\ \A p \in Side, j \in Ids : p # o \/ j # i => task'[p][j] = task[p][j]
         /\ task[o][i] \in {"running", "respond", "deliver", "send"}
         /\ task'[o][i] \in {"panicked", "deliver", "send", "done"}
         /\ task[o][i] = "running" => task'[o][i] = "panicked"
         /\ UNCHANGED <<next_id, cancelled_hosted, tripped, holds, caller, hosted,
                        fetched, peer_call, peer_cancel>>
<1>1. PICK s \in {"panicked", "deliver", "send", "done"} :
        /\ task' = [task EXCEPT ![o][i] = s]
        /\ task[o][i] \in {"running", "respond", "deliver", "send"}
        /\ task[o][i] = "running" => s = "panicked"
  BY DEF PanicDispatch, RouteRespond, DeliverRespond, SendRespond
<1>2. \A p \in Side, j \in Ids : p # o \/ j # i => task'[p][j] = task[p][j]
  BY <1>1 DEF TypeOK
<1>3. task'[o][i] = s
  BY <1>1 DEF TypeOK
<1>4. UNCHANGED <<next_id, cancelled_hosted, tripped, holds, caller, hosted,
                  fetched, peer_call, peer_cancel>>
  BY DEF PanicDispatch, RouteRespond, DeliverRespond, SendRespond, runtimeVars,
     callerVars, peerVars
<1> QED BY <1>1, <1>2, <1>3, <1>4

\* The first step of a cancellation takes hold of the entry of its call.
LEMMA FetchEffect ==
  ASSUME TypeOK, NEW i \in LocalIds, CancelHostedLocal(i)
  PROVE  fetched'["local"][i] = cancelled_hosted[i]
<1>1. fetched' = [fetched EXCEPT !["local"][i] = cancelled_hosted[i]]
  BY DEF CancelHostedLocal
<1>2. "local" \in Side /\ i \in Ids
  BY DEF Side, Ids
<1>3. fetched \in [Side -> [Ids -> Token \cup {None}]]
  BY DEF TypeOK
<1> QED BY <1>1, <1>2, <1>3

\* The steps that only carry a call of ours on keep TokenInv: caller[i] is the
\* only thing they change of what it speaks of.
LEMMA CallerMoves ==
  ASSUME TypeOK, TokenInv, NEW i \in LocalIds, NEW s \in CallerPhase,
         caller' = [caller EXCEPT ![i] = s],
         caller[i] # "idle",
         s \notin {"idle", "registered", "tripping"},
         s = "dropped" => ~Running("local", i),
         caller[i] = "registered" => task["local"][i] = "none",
         UNCHANGED <<next_id, cancelled_hosted, tripped, task, holds, hosted,
                     fetched, peer_call, peer_cancel>>
  PROVE  TokenInv'
<1>1. /\ caller'[i] = s
      /\ \A j \in LocalIds : j # i => caller'[j] = caller[j]
  BY DEF TypeOK
<1>2. OwnIds' /\ EntryHeld'
  BY DEF TokenInv, OwnIds, EntryHeld, Running
<1>3. CallerAhead'
  BY <1>1 DEF TokenInv, CallerAhead, Running
<1>4. FetchedRight'
  BY <1>1 DEF TokenInv, FetchedRight, Running
<1>5. CancellationReachesHost'
  BY <1>1 DEF TokenInv, CancellationReachesHost, Running
<1> QED BY <1>2, <1>3, <1>4, <1>5 DEF TokenInv

\* Steps that change nothing it speaks of keep it.
LEMMA TokensUntouched ==
  ASSUME TokenInv,
         UNCHANGED <<next_id, cancelled_hosted, tripped, task, holds, caller, hosted,
                     fetched, peer_call, peer_cancel>>
  PROVE  TokenInv'
BY DEF TokenInv, OwnIds, EntryHeld, CallerAhead, FetchedRight,
   CancellationReachesHost, Running

\* With ids that do not meet, no step breaks TokenInv.
LEMMA NextTokenInv ==
  ASSUME DisjointIds, TypeOK, TokenInv, [Next]_vars
  PROVE  TokenInv'
<1> USE DEF Running, runtimeVars, taskVars, callerVars, peerVars
<1>a. /\ OwnIds /\ EntryHeld /\ CallerAhead /\ FetchedRight
      /\ CancellationReachesHost
  BY DEF TokenInv
<1>b. \A i \in LocalIds : i \in Ids /\ i \notin PeerIds /\ i \in Nat
  BY CallRoutingAssumption DEF LocalIds, Ids, DisjointIds
<1>c. \A i \in PeerIds : i \in Ids /\ i \notin LocalIds
  BY DEF Ids, DisjointIds
<1>d. \A i \in Ids : i \in LocalIds \/ i \in PeerIds
  BY DEF Ids
<1>e. "local" \in Side /\ "peer" \in Side /\ \A o \in Side : o = "local" \/ o = "peer"
  BY DEF Side
<1> USE <1>a, <1>b, <1>c, <1>d, <1>e
<1>1. ASSUME NEW i \in LocalIds, Register(i) PROVE TokenInv'
  <2>1. /\ i = next_id /\ next_id' = next_id + 1 /\ next_id \in Nat
        /\ UNCHANGED <<cancelled_hosted, tripped, task, holds, fetched, peer_call, peer_cancel>>
    BY <1>1 DEF Register, LocalIds
  <2>2. /\ caller'[i] = "registered"
        /\ \A j \in LocalIds : j # i => caller'[j] = caller[j]
        /\ \A j \in LocalIds : j # i => hosted'[j] = hosted[j]
    BY <1>1 DEF Register, TypeOK
  <2>3. caller[i] = "idle" /\ task["local"][i] = "none"
    BY <2>1 DEF CallerAhead
  <2>4. OwnIds' /\ EntryHeld'
    BY <2>1 DEF OwnIds, EntryHeld
  <2>5. CallerAhead'
    <3>1. \A j \in LocalIds : j >= next_id' => j # i /\ j >= next_id
      BY <2>1
    <3> QED BY <2>1, <2>2, <2>3, <3>1 DEF CallerAhead
  <2>6. FetchedRight' /\ CancellationReachesHost'
    BY <2>1, <2>2, <2>3 DEF FetchedRight, CancellationReachesHost
  <2> QED BY <2>4, <2>5, <2>6 DEF TokenInv
<1>2. ASSUME NEW i \in LocalIds, CallHosted(i) PROVE TokenInv'
  <2>1. SpawnDispatch("local", i)
    BY <1>2 DEF CallHosted
  <2>2. /\ caller[i] = "registered" /\ hosted[i] /\ i \notin PeerIds
        /\ caller' = [caller EXCEPT ![i] = "waiting"]
        /\ UNCHANGED <<next_id, tripped, hosted, fetched, peer_call, peer_cancel>>
    BY <1>2 DEF CallHosted
  <2>3. OwnIds' /\ EntryHeld'
    BY <2>1, <2>2, SpawnEffect DEF OwnIds, EntryHeld
  <2>4. /\ caller'[i] = "waiting"
        /\ \A j \in LocalIds : j # i => caller'[j] = caller[j]
    BY <2>2 DEF TypeOK
  <2>5. \A j \in LocalIds : task'["local"][j] =
          IF j = i THEN "running" ELSE task["local"][j]
    BY <2>1, SpawnEffect
  <2>6. CallerAhead'
    BY <2>2, <2>4, <2>5 DEF CallerAhead
  <2>7. \A j \in PeerIds : /\ task'["peer"][j] = task["peer"][j]
                           /\ holds'["peer"][j] = holds["peer"][j]
                           /\ cancelled_hosted'[j] = cancelled_hosted[j]
    BY <2>1, <2>2, SpawnEffect
  <2>8. \A j \in LocalIds : j # i => holds'["local"][j] = holds["local"][j]
    BY <2>1, SpawnEffect
  <2>9. FetchedRight'
    BY <2>2, <2>4, <2>5, <2>7, <2>8 DEF FetchedRight
  <2>10. \A j \in LocalIds :
           caller'[j] = "dropped" /\ task'["local"][j] = "running" =>
             holds'["local"][j] \in tripped'
    BY <2>2, <2>4, <2>5, <2>8 DEF CancellationReachesHost
  <2>11. \A j \in PeerIds :
           peer_cancel'[j] = "done" /\ task'["peer"][j] = "running" =>
             holds'["peer"][j] \in tripped'
    <3> SUFFICES ASSUME NEW j \in PeerIds,
                        peer_cancel'[j] = "done", task'["peer"][j] = "running"
                 PROVE  holds'["peer"][j] \in tripped'
      OBVIOUS
    <3>1. /\ task'["peer"][j] = task["peer"][j]
          /\ holds'["peer"][j] = holds["peer"][j]
      BY <2>7
    <3>2. peer_cancel' = peer_cancel /\ tripped' = tripped
      BY <2>2
    <3> QED BY <3>1, <3>2 DEF CancellationReachesHost
  <2> QED BY <2>3, <2>6, <2>9, <2>10, <2>11 DEF TokenInv, CancellationReachesHost
<1>3. ASSUME NEW i \in LocalIds, CallPeer(i) PROVE TokenInv'
  <2>1. PICK s \in {"waiting", "failed"} : caller' = [caller EXCEPT ![i] = s]
    BY <1>3 DEF CallPeer
  <2>2. /\ caller[i] = "registered" /\ task["local"][i] = "none"
        /\ UNCHANGED <<next_id, cancelled_hosted, tripped, task, holds, hosted,
                       fetched, peer_call, peer_cancel>>
    BY <1>3 DEF CallPeer, CallerAhead
  <2> QED BY <2>1, <2>2, CallerMoves DEF CallerPhase
<1>4. ASSUME NEW i \in LocalIds, Await(i) PROVE TokenInv'
  <2>1. PICK s \in {"answered", "closed"} : caller' = [caller EXCEPT ![i] = s]
    BY <1>4 DEF Await
  <2>2. /\ caller[i] = "waiting"
        /\ UNCHANGED <<next_id, cancelled_hosted, tripped, task, holds, hosted,
                       fetched, peer_call, peer_cancel>>
    BY <1>4 DEF Await
  <2> QED BY <2>1, <2>2, CallerMoves DEF CallerPhase
<1>5. ASSUME NEW i \in LocalIds, DropHandle(i) PROVE TokenInv'
  <2>1. /\ caller[i] = "waiting"
        /\ caller' = [caller EXCEPT ![i] = "dropping"]
        /\ UNCHANGED <<next_id, cancelled_hosted, tripped, task, holds, hosted,
                       fetched, peer_call, peer_cancel>>
    BY <1>5 DEF DropHandle
  <2> QED BY <2>1, CallerMoves DEF CallerPhase
<1>6. ASSUME NEW i \in LocalIds, CancelHostedLocal(i) PROVE TokenInv'
  <2>1. fetched'["local"][i] = cancelled_hosted[i]
    BY <1>6, FetchEffect
  <2>2. /\ \A j \in Ids : j # i => fetched'["local"][j] = fetched["local"][j]
        /\ \A j \in Ids : fetched'["peer"][j] = fetched["peer"][j]
    BY <1>6 DEF CancelHostedLocal, TypeOK
  <2>3. /\ caller[i] = "dropping"
        /\ cancelled_hosted[i] = None => caller'[i] = "dropped"
        /\ caller'[i] \in {"dropped", "tripping"}
        /\ \A j \in LocalIds : j # i => caller'[j] = caller[j]
    BY <1>6 DEF CancelHostedLocal, TypeOK
  <2>4. UNCHANGED <<next_id, cancelled_hosted, tripped, task, holds, hosted,
                    peer_call, peer_cancel>>
    BY <1>6 DEF CancelHostedLocal
  <2>5. caller'[i] = "dropped" => ~Running("local", i)
    <3>1. caller'[i] = "dropped" => cancelled_hosted[i] = None
      BY <1>6 DEF CancelHostedLocal, TypeOK
    <3> QED BY <3>1 DEF EntryHeld
  <2>6. OwnIds' /\ EntryHeld'
    BY <2>4 DEF OwnIds, EntryHeld
  <2>7. CallerAhead'
    BY <2>3, <2>4 DEF CallerAhead
  <2>8. FetchedRight'
    BY <2>1, <2>2, <2>3, <2>4 DEF FetchedRight, EntryHeld
  <2>9. CancellationReachesHost'
    BY <2>3, <2>4, <2>5 DEF CancellationReachesHost
  <2> QED BY <2>6, <2>7, <2>8, <2>9 DEF TokenInv
<1>7. ASSUME NEW i \in LocalIds, TripLocal(i) PROVE TokenInv'
  <2>1. /\ \A j \in Ids : j # i => fetched'["local"][j] = fetched["local"][j]
        /\ \A j \in Ids : fetched'["peer"][j] = fetched["peer"][j]
    BY <1>7 DEF TripLocal, TypeOK
  <2>2. /\ caller[i] = "tripping" /\ caller'[i] = "dropped"
        /\ \A j \in LocalIds : j # i => caller'[j] = caller[j]
    BY <1>7 DEF TripLocal, TypeOK
  <2>3. /\ tripped \subseteq tripped' /\ fetched["local"][i] \in tripped'
        /\ UNCHANGED <<next_id, cancelled_hosted, task, holds, hosted,
                       peer_call, peer_cancel>>
    BY <1>7 DEF TripLocal
  <2>4. OwnIds' /\ EntryHeld'
    BY <2>3 DEF OwnIds, EntryHeld
  <2>5. CallerAhead'
    BY <2>2, <2>3 DEF CallerAhead
  <2>6. FetchedRight'
    BY <2>1, <2>2, <2>3 DEF FetchedRight
  <2>7. Running("local", i) => holds["local"][i] \in tripped'
    BY <2>2, <2>3 DEF FetchedRight
  <2>8. CancellationReachesHost'
    BY <2>2, <2>3, <2>7 DEF CancellationReachesHost
  <2> QED BY <2>4, <2>5, <2>6, <2>8 DEF TokenInv
<1>8. ASSUME NEW i \in LocalIds, CancelPeer(i) PROVE TokenInv'
  <2>1. /\ caller[i] = "dropping"
        /\ caller' = [caller EXCEPT ![i] = "dropped"]
        /\ UNCHANGED <<next_id, cancelled_hosted, tripped, task, holds, hosted,
                       fetched, peer_call, peer_cancel>>
    BY <1>8 DEF CancelPeer
  <2>2. ~Running("local", i)
    BY <1>8 DEF CancelPeer, CallerAhead
  <2> QED BY <2>1, <2>2, CallerMoves DEF CallerPhase
<1>9. ASSUME NEW o \in Side, NEW i \in Ids, FinishDispatch(o, i) PROVE TokenInv'
  <2>1. /\ Running(o, i)
        /\ UNCHANGED <<next_id, tripped, caller, hosted, fetched, peer_call, peer_cancel>>
    BY <1>9 DEF FinishDispatch
  <2>2. \A p \in Side : p # o => ~Running(p, i)
    BY <2>1 DEF OwnIds
  <2>3. /\ \A p \in Side, j \in Ids : p # o \/ j # i =>
             task'[p][j] = task[p][j] /\ holds'[p][j] = holds[p][j]
        /\ task'[o][i] \in {"discarded", "respond"}
        /\ \A j \in Ids : j # i => cancelled_hosted'[j] = cancelled_hosted[j]
        /\ cancelled_hosted'[i] = None
    BY <1>9, FinishEffect
  <2>4. \A p \in Side, j \in Ids : Running(p, j)' =>
          Running(p, j) /\ j # i /\ holds'[p][j] = holds[p][j]
    BY <2>2, <2>3
  <2>5. OwnIds'
    BY <2>1, <2>3 DEF OwnIds
  <2>6. EntryHeld'
    <3>1. \A p \in Side, j \in Ids : Running(p, j)' =>
            cancelled_hosted'[j] # None /\ holds'[p][j] = cancelled_hosted'[j]
      BY <2>3, <2>4 DEF EntryHeld
    <3>2. \A j \in LocalIds : cancelled_hosted'[j] # None =>
            task'["local"][j] \in {"running", "panicked"}
      BY <2>3 DEF EntryHeld
    <3> QED BY <3>1, <3>2 DEF EntryHeld
  <2>7. CallerAhead'
    BY <2>1, <2>3 DEF CallerAhead
  <2>8. FetchedRight'
    <3>1. \A j \in LocalIds : caller'[j] = "tripping" /\ Running("local", j)' =>
            fetched'["local"][j] = holds'["local"][j]
      BY <2>1, <2>4 DEF FetchedRight
    <3>2. \A j \in PeerIds :
            /\ peer_call'[j] = "idle" => task'["peer"][j] = "none" /\ j # i
            /\ j # i => cancelled_hosted'[j] = cancelled_hosted[j]
            /\ Running("peer", j)' => j # i /\ Running("peer", j)
      BY <2>1, <2>2, <2>3, <2>4 DEF FetchedRight, OwnIds
    <3> QED BY <2>1, <3>1, <3>2 DEF FetchedRight
  <2>9. CancellationReachesHost'
    BY <2>1, <2>4 DEF CancellationReachesHost
  <2> QED BY <2>5, <2>6, <2>7, <2>8, <2>9 DEF TokenInv
<1>10. ASSUME NEW o \in Side, NEW i \in Ids,
              \/ PanicDispatch(o, i) \/ RouteRespond(o, i)
              \/ DeliverRespond(o, i) \/ SendRespond(o, i)
       PROVE TokenInv'
  <2>1. /\ \A p \in Side, j \in Ids : p # o \/ j # i => task'[p][j] = task[p][j]
        /\ task[o][i] \in {"running", "respond", "deliver", "send"}
        /\ task'[o][i] \in {"panicked", "deliver", "send", "done"}
        /\ task[o][i] = "running" => task'[o][i] = "panicked"
        /\ UNCHANGED <<next_id, cancelled_hosted, tripped, holds, caller, hosted,
                       fetched, peer_call, peer_cancel>>
    BY <1>10, AfterwardsEffect
  <2>2. \A p \in Side, j \in Ids :
          /\ Running(p, j)' => Running(p, j)
          /\ task[p][j] = "none" <=> task'[p][j] = "none"
          /\ task[p][j] \in {"running", "panicked"} => task'[p][j] \in {"running", "panicked"}
    BY <2>1
  <2>3. OwnIds' /\ EntryHeld'
    BY <2>1, <2>2 DEF OwnIds, EntryHeld
  <2>4. CallerAhead'
    BY <2>1, <2>2 DEF CallerAhead
  <2>5. FetchedRight'
    BY <2>1, <2>2 DEF FetchedRight
  <2>6. CancellationReachesHost'
    BY <2>1, <2>2 DEF CancellationReachesHost
  <2> QED BY <2>3, <2>4, <2>5, <2>6 DEF TokenInv
<1>11. ASSUME NEW i \in PeerIds, PeerCall(i) PROVE TokenInv'
  <2>1. /\ peer_call[i] = "idle" /\ task["peer"][i] = "none"
        /\ UNCHANGED <<next_id, tripped, caller, hosted, fetched, peer_cancel>>
    BY <1>11 DEF PeerCall, FetchedRight
  <2>2. /\ peer_call'[i] = "called"
        /\ \A j \in PeerIds : j # i => peer_call'[j] = peer_call[j]
    BY <1>11 DEF PeerCall, TypeOK
  <2>3. CASE SpawnDispatch("peer", i)
    <3>1. /\ \A p \in Side, j \in Ids : p # "peer" \/ j # i =>
               task'[p][j] = task[p][j] /\ holds'[p][j] = holds[p][j]
          /\ task'["peer"][i] = "running"
          /\ holds'["peer"][i] = cancelled_hosted'[i]
          /\ \A j \in Ids : j # i => cancelled_hosted'[j] = cancelled_hosted[j]
          /\ cancelled_hosted'[i] # None
          /\ cancelled_hosted[i] # None => cancelled_hosted'[i] = cancelled_hosted[i]
      BY <2>3, SpawnEffect
    <3>2. OwnIds'
      BY <3>1 DEF OwnIds
    <3>3. task["local"][i] = "none"
      BY DEF OwnIds
    <3>4. EntryHeld'
      <4>1. \A p \in Side, j \in Ids : Running(p, j)' =>
              cancelled_hosted'[j] # None /\ holds'[p][j] = cancelled_hosted'[j]
        BY <3>1, <3>3 DEF EntryHeld
      <4>2. \A j \in LocalIds : cancelled_hosted'[j] # None =>
              task'["local"][j] \in {"running", "panicked"}
        BY <3>1 DEF EntryHeld
      <4> QED BY <4>1, <4>2 DEF EntryHeld
    <3>5. CallerAhead'
      BY <2>1, <3>1 DEF CallerAhead
    <3>6. FetchedRight'
      BY <2>1, <2>2, <3>1 DEF FetchedRight
    <3>7. CancellationReachesHost'
      <4>1. peer_cancel[i] = "done" => cancelled_hosted'[i] \in tripped
        BY <2>1, <3>1 DEF FetchedRight
      <4> QED BY <2>1, <3>1, <4>1 DEF CancellationReachesHost
    <3> QED BY <3>2, <3>4, <3>5, <3>6, <3>7 DEF TokenInv
  <2>4. CASE /\ task' = [task EXCEPT !["peer"][i] = "respond"]
             /\ UNCHANGED <<cancelled_hosted, holds, waits>>
    <3>1. /\ \A p \in Side, j \in Ids : p # "peer" \/ j # i => task'[p][j] = task[p][j]
          /\ task'["peer"][i] = "respond"
      BY <2>4 DEF TypeOK
    <3>2. OwnIds' /\ EntryHeld' /\ CallerAhead'
      BY <2>1, <2>4, <3>1 DEF OwnIds, EntryHeld, CallerAhead
    <3>3. FetchedRight'
      BY <2>1, <2>2, <2>4, <3>1 DEF FetchedRight
    <3>4. CancellationReachesHost'
      BY <2>1, <2>4, <3>1 DEF CancellationReachesHost
    <3> QED BY <3>2, <3>3, <3>4 DEF TokenInv
  <2> QED BY <1>11, <2>3, <2>4 DEF PeerCall
<1>12. ASSUME NEW i \in PeerIds, cancel_hosted(i) PROVE TokenInv'
  <2> DEFINE token == EntryOrDefault(i, <<"cancel", i>>)
  <2>1. <<"cancel", i>> \in Token
    BY DEF Token
  <2>2. /\ token # None
        /\ cancelled_hosted[i] # None => token = cancelled_hosted[i]
    BY <2>1, CallRoutingAssumption DEF EntryOrDefault
  <2>3. /\ cancelled_hosted' = [cancelled_hosted EXCEPT ![i] = token]
        /\ fetched' = [fetched EXCEPT !["peer"][i] = token]
        /\ peer_cancel' = [peer_cancel EXCEPT ![i] = "fetched"]
        /\ UNCHANGED <<next_id, tripped, task, holds, caller, hosted, peer_call>>
    BY <1>12 DEF cancel_hosted
  <2> HIDE DEF token
  <2>4. /\ \A j \in Ids : fetched'["local"][j] = fetched["local"][j]
        /\ \A j \in Ids : j # i => fetched'["peer"][j] = fetched["peer"][j]
        /\ fetched'["peer"][i] = token
    BY <2>3 DEF TypeOK
  <2>5. /\ cancelled_hosted'[i] = token
        /\ \A j \in Ids : j # i => cancelled_hosted'[j] = cancelled_hosted[j]
        /\ peer_cancel'[i] = "fetched"
        /\ \A j \in PeerIds : j # i => peer_cancel'[j] = peer_cancel[j]
    BY <2>3 DEF TypeOK
  <2>6. \A o \in Side : Running(o, i) => cancelled_hosted'[i] = cancelled_hosted[i]
    BY <2>2, <2>5 DEF EntryHeld
  <2>7. OwnIds' /\ CallerAhead'
    BY <2>3 DEF OwnIds, CallerAhead
  <2>8. EntryHeld'
    BY <2>3, <2>5, <2>6 DEF EntryHeld
  <2>9. FetchedRight'
    BY <2>2, <2>3, <2>4, <2>5 DEF FetchedRight
  <2>10. CancellationReachesHost'
    BY <2>3, <2>5 DEF CancellationReachesHost
  <2> QED BY <2>7, <2>8, <2>9, <2>10 DEF TokenInv
<1>13. ASSUME NEW i \in PeerIds, TripPeer(i) PROVE TokenInv'
  <2>1. /\ peer_cancel[i] = "fetched"
        /\ tripped \subseteq tripped' /\ fetched["peer"][i] \in tripped'
        /\ UNCHANGED <<next_id, cancelled_hosted, task, holds, caller, hosted, peer_call>>
    BY <1>13 DEF TripPeer
  <2>2. /\ \A j \in Ids : fetched'["local"][j] = fetched["local"][j]
        /\ \A j \in Ids : j # i => fetched'["peer"][j] = fetched["peer"][j]
    BY <1>13 DEF TripPeer, TypeOK
  <2>3. /\ peer_cancel'[i] = "done"
        /\ \A j \in PeerIds : j # i => peer_cancel'[j] = peer_cancel[j]
    BY <1>13 DEF TripPeer, TypeOK
  <2>4. peer_call[i] = "idle" \/ Running("peer", i) => cancelled_hosted[i] \in tripped'
    BY <2>1 DEF FetchedRight
  <2>5. OwnIds' /\ EntryHeld' /\ CallerAhead'
    BY <2>1 DEF OwnIds, EntryHeld, CallerAhead
  <2>6. FetchedRight'
    <3>1. \A j \in LocalIds : caller'[j] = "tripping" /\ Running("local", j)' =>
            fetched'["local"][j] = holds'["local"][j]
      BY <2>1, <2>2 DEF FetchedRight
    <3>2. \A j \in PeerIds :
            /\ peer_call'[j] = "idle" => task'["peer"][j] = "none"
            /\ peer_call'[j] = "idle" /\ peer_cancel'[j] # "none" =>
                 cancelled_hosted'[j] # None
      BY <2>1, <2>3 DEF FetchedRight
    <3>3. \A j \in PeerIds :
            peer_cancel'[j] = "fetched" /\ (peer_call'[j] = "idle" \/ Running("peer", j)') =>
              fetched'["peer"][j] = cancelled_hosted'[j]
      BY <2>1, <2>2, <2>3 DEF FetchedRight
    <3>4. \A j \in PeerIds : peer_cancel'[j] = "done" /\ peer_call'[j] = "idle" =>
            cancelled_hosted'[j] \in tripped'
      BY <2>1, <2>3, <2>4 DEF FetchedRight
    <3> QED BY <3>1, <3>2, <3>3, <3>4 DEF FetchedRight
  <2>7. CancellationReachesHost'
    BY <2>1, <2>3, <2>4 DEF CancellationReachesHost, EntryHeld
  <2> QED BY <2>5, <2>6, <2>7 DEF TokenInv
<1>14. ASSUME NEW i \in LocalIds, PeerRespond(i) PROVE TokenInv'
  BY <1>14, TokensUntouched DEF PeerRespond
<1>15. CASE Pump
  BY <1>15, TokensUntouched DEF Pump
<1>16. CASE Shutdown
  BY <1>16, TokensUntouched DEF Shutdown
<1>17. CASE StopPump
  BY <1>17, TokensUntouched DEF StopPump
<1>18. CASE UNCHANGED vars
  BY <1>18, TokensUntouched DEF vars
<1>19. ASSUME NEW i \in LocalIds, CallerStep(i) PROVE TokenInv'
  BY <1>2, <1>3, <1>4, <1>6, <1>7, <1>8, <1>19 DEF CallerStep
<1>20. ASSUME NEW o \in Side, NEW i \in Ids, TaskStep(o, i) \/ PanicDispatch(o, i)
       PROVE TokenInv'
  BY <1>9, <1>10, <1>20 DEF TaskStep
<1> QED
  <2> HIDE <1>a, <1>b, <1>c, <1>d, <1>e
  <2> QED
    BY <1>1, <1>5, <1>11, <1>12, <1>13, <1>14, <1>15, <1>16, <1>17, <1>18,
       <1>19, <1>20
    DEF Next

LEMMA TokenInvariant ==
  ASSUME DisjointIds
  PROVE  Spec => []TokenInv
<1>1. Init => TokenInv
  BY CallRoutingAssumption
  DEF Init, TokenInv, OwnIds, EntryHeld, CallerAhead, FetchedRight,
      CancellationReachesHost, Running, Side, LocalIds, Ids
<1>2. TypeOK /\ TokenInv /\ [Next]_vars => TokenInv'
  BY NextTokenInv
<1> QED BY <1>1, <1>2, TypeCorrect, PTL DEF Spec

\* The token table follows the dispatches: no entry of a call of ours outlives
\* its host, and no running host is without one, so that a cancellation that
\* has returned never missed a host that still runs.
THEOREM TokensServeHosts ==
  ASSUME DisjointIds
  PROVE  Spec => []TokensServe
<1>1. TokenInv => TokensTracked
  BY DEF TokenInv, EntryHeld, TokensTracked, Running
<1>2. TokenInv => CancellationReachesHost
  BY DEF TokenInv
<1>3. TokenInv => TokensServe
  BY <1>1, <1>2 DEF TokensServe
<1> QED BY <1>3, TokenInvariant, PTL

\* What a host returns after its token was tripped is thrown away.
THEOREM CancelledDiscarded ==
  ASSUME DisjointIds
  PROVE  Spec => CancelledIsDiscarded
<1> DEFINE Discards ==
      \A o \in Side, i \in Ids :
        task[o][i] = "running" /\ holds[o][i] \in tripped =>
          task'[o][i] \in {"running", "discarded", "panicked"}
<1>1. ASSUME TypeOK, TokenInv, [Next]_vars PROVE Discards
  <2> SUFFICES ASSUME NEW o \in Side, NEW i \in Ids,
                      task[o][i] = "running", holds[o][i] \in tripped
               PROVE  task'[o][i] \in {"running", "discarded", "panicked"}
    OBVIOUS
  <2>1. cancelled_hosted[i] = holds[o][i]
    BY <1>1 DEF TokenInv, EntryHeld, Running
  <2>2. ASSUME NEW p \in Side, NEW j \in Ids, TaskStep(p, j) \/ PanicDispatch(p, j)
        PROVE  task'[o][i] \in {"running", "discarded", "panicked"}
    BY <1>1, <2>1, <2>2, FinishEffect, AfterwardsEffect DEF TaskStep
  <2>3. ASSUME NEW p \in Side, NEW j \in Ids, SpawnDispatch(p, j)
        PROVE  task'[o][i] \in {"running", "discarded", "panicked"}
    BY <1>1, <2>3, SpawnEffect
  <2>4. ASSUME NEW j \in PeerIds, PeerCall(j)
        PROVE  task'[o][i] \in {"running", "discarded", "panicked"}
    <3>1. peer_call[j] = "idle" => task["peer"][j] = "none"
      BY <1>1 DEF TokenInv, FetchedRight
    <3>2. CASE task' = [task EXCEPT !["peer"][j] = "respond"]
      BY <1>1, <2>4, <3>1, <3>2 DEF PeerCall, TypeOK, Side
    <3> QED BY <2>3, <2>4, <3>2 DEF PeerCall, Side, Ids
  <2>5. CASE UNCHANGED task
    BY <2>5
  <2> QED
    BY <1>1, <2>2, <2>3, <2>4, <2>5
    DEF Next, vars, runtimeVars, taskVars, callerVars, peerVars, Side, Ids,
        CallerStep, Register, CallHosted, CallPeer, Await, DropHandle,
        CancelHostedLocal, TripLocal, CancelPeer, cancel_hosted, TripPeer,
        PeerRespond, Pump, Shutdown, StopPump
<1>2. TypeOK /\ TokenInv /\ [Next]_vars => [Discards]_vars
  BY <1>1
<1> QED
  BY <1>2, TypeCorrect, TokenInvariant, PTL DEF Spec, CancelledIsDiscarded
-----------------------------------------------------------------------------
(* Registrations and the callers they belong to.                           *)

\* An entry of the table has not been answered; a caller that waits has an entry or
\* an answer, until a shutdown; ids that were not handed out are fresh.
PendingInv ==
  /\ RegistrationHasHolder
  /\ ClosedOnlyByShutdown
  /\ \A i \in pending : result[i] = None
  /\ \A i \in LocalIds : i >= next_id =>
       i \notin pending /\ result[i] = None /\ caller[i] = "idle"
  /\ \A i \in LocalIds : caller[i] \in {"registered", "waiting"} /\ phase = "up" =>
       i \in pending \/ result[i] # None

\* A response that arrives, from whichever thread.
LEMMA DeliverPending ==
  ASSUME TypeOK, PendingInv, NEW id \in Ids, NEW o \in Side, deliver_response(id, o),
         UNCHANGED <<next_id, caller, phase>>
  PROVE  PendingInv'
<1>1. <<o, id>> # None
  BY CallRoutingAssumption DEF Call
<1>2. /\ pending' = pending \ {id} /\ pending \subseteq LocalIds
      /\ \A j \in LocalIds : result'[j] = IF j = id /\ id \in pending THEN <<o, id>> ELSE result[j]
  BY DEF deliver_response, TypeOK
<1> QED BY <1>1, <1>2 DEF PendingInv, RegistrationHasHolder, ClosedOnlyByShutdown

LEMMA NextPending == TypeOK /\ PendingInv /\ [Next]_vars => PendingInv'
<1> SUFFICES ASSUME TypeOK, PendingInv, [Next]_vars PROVE PendingInv'
  OBVIOUS
<1> USE DEF PendingInv, RegistrationHasHolder, ClosedOnlyByShutdown
<1>0. /\ pending \subseteq LocalIds /\ caller \in [LocalIds -> CallerPhase]
      /\ result \in [LocalIds -> Call \cup {None}] /\ next_id \in Nat /\ LocalIds \subseteq Nat
  BY CallRoutingAssumption DEF TypeOK, LocalIds
<1>1. ASSUME NEW i \in LocalIds, Register(i) PROVE PendingInv'
  BY <1>0, <1>1 DEF Register
<1>2. ASSUME NEW i \in LocalIds, CallHosted(i) PROVE PendingInv'
  BY <1>0, <1>2 DEF CallHosted
<1>3. ASSUME NEW i \in LocalIds, CallPeer(i) PROVE PendingInv'
  <2>1. PICK ph \in {"waiting", "failed"} : caller' = [caller EXCEPT ![i] = ph]
    BY <1>3 DEF CallPeer
  <2> QED BY <1>0, <1>3, <2>1 DEF CallPeer
<1>4. ASSUME NEW i \in LocalIds, Await(i) PROVE PendingInv'
  BY <1>0, <1>4 DEF Await, TypeOK, runtimeVars
<1>5. ASSUME NEW i \in LocalIds, DropHandle(i) PROVE PendingInv'
  BY <1>0, <1>5 DEF DropHandle
<1>6. ASSUME NEW i \in LocalIds, CancelHostedLocal(i) \/ TripLocal(i) \/ CancelPeer(i)
      PROVE  PendingInv'
  <2>1. /\ caller[i] \in {"dropping", "tripping"}
        /\ UNCHANGED <<next_id, pending, phase, result>>
    BY <1>6 DEF CancelHostedLocal, TripLocal, CancelPeer, runtimeVars
  <2>2. PICK ph \in {"tripping", "dropped"} : caller' = [caller EXCEPT ![i] = ph]
    BY <1>6 DEF CancelHostedLocal, TripLocal, CancelPeer
  <2> QED BY <1>0, <2>1, <2>2
<1>7. ASSUME NEW o \in Side, NEW i \in Ids, DeliverRespond(o, i) PROVE PendingInv'
  BY <1>7, DeliverPending DEF DeliverRespond
<1>8. ASSUME NEW i \in LocalIds, PeerRespond(i) PROVE PendingInv'
  BY <1>8, DeliverPending DEF PeerRespond, Side, Ids
<1>9. CASE Shutdown
  BY <1>9 DEF Shutdown, callerVars
<1>10. CASE StopPump
  BY <1>10 DEF StopPump, callerVars
<1>11. CASE UNCHANGED <<next_id, pending, phase, caller, result>>
  BY <1>11
<1> QED
  BY <1>1, <1>2, <1>3, <1>4, <1>5, <1>6, <1>7, <1>8, <1>9, <1>10, <1>11
  DEF Next, CallerStep, TaskStep, FinishDispatch, PanicDispatch, RouteRespond, SendRespond,
      PeerCall, cancel_hosted, TripPeer, Pump, vars, runtimeVars, callerVars

LEMMA PendingInvariant == Spec => []PendingInv
<1>1. Init => PendingInv
  BY CallRoutingAssumption
  DEF Init, PendingInv, RegistrationHasHolder, ClosedOnlyByShutdown, LocalIds
<1> QED BY <1>1, NextPending, TypeCorrect, PTL DEF Spec

\* Whatever the ids of the two sides, an entry of the pending table has a caller
\* that removes it, or is what a failed send leaves behind, and a caller that is
\* told its channel closed is told so because of a shutdown.
THEOREM RegistrationsAreHeld == Spec => []RegistrationsHeld
<1>1. TypeOK /\ PendingInv => RegistrationsHeld
  BY DEF PendingInv, RegistrationsHeld
<1> QED BY <1>1, TypeCorrect, PendingInvariant, PTL

-----------------------------------------------------------------------------
(* The promise.                                                            *)

\* What is needed to see a step as one of CallPromise: who answers has accepted, who
\* accepts was called.
Accounted(frame) ==
  /\ frame.kind = "Call" => frame.id \in LocalIds /\ caller[frame.id] # "idle"
  /\ frame.kind = "Respond" /\ frame.owner = "peer" => task["peer"][frame.id] # "none"

AllAccounted == \A k \in DOMAIN outbound : Accounted(outbound[k])

ServeInv ==
  /\ AllAccounted
  /\ \A i \in PeerIds : peer_call[i] = "idle" => task["peer"][i] = "none" /\ peer_got[i] = None

\* Threads and callers only begin.
OnlyBegins ==
  /\ \A i \in LocalIds : caller[i] # "idle" => caller'[i] # "idle"
  /\ \A o \in Side, i \in Ids : task[o][i] # "none" => task'[o][i] # "none"

LEMMA Begins == TypeOK /\ TokenInv /\ [Next]_vars => OnlyBegins
<1> SUFFICES ASSUME TypeOK, TokenInv, [Next]_vars PROVE OnlyBegins
  OBVIOUS
<1>1. /\ caller \in [LocalIds -> CallerPhase] /\ task \in [Side -> [Ids -> TaskPhase]]
  BY DEF TypeOK
<1>2. ASSUME NEW i \in LocalIds, Register(i) \/ DropHandle(i) \/ CallerStep(i) PROVE OnlyBegins
  <2>1. \A j \in LocalIds : caller[j] # "idle" => caller'[j] # "idle"
    BY <1>1, <1>2 DEF Register, DropHandle, CallerStep, CallHosted, CallPeer, Await,
                      CancelHostedLocal, TripLocal, CancelPeer
  <2>2. UNCHANGED task \/ SpawnDispatch("local", i)
    BY <1>2 DEF Register, DropHandle, CallerStep, CallHosted, CallPeer, Await,
                CancelHostedLocal, TripLocal, CancelPeer, taskVars
  <2>3. \A o \in Side, j \in Ids : task[o][j] # "none" => task'[o][j] # "none"
    BY <1>1, <2>2 DEF SpawnDispatch, Side, Ids
  <2> QED BY <2>1, <2>3 DEF OnlyBegins
<1>3. ASSUME NEW o \in Side, NEW i \in Ids, TaskStep(o, i) \/ PanicDispatch(o, i) PROVE OnlyBegins
  <2>1. UNCHANGED caller
    BY <1>3 DEF TaskStep, PanicDispatch, FinishDispatch, RouteRespond, DeliverRespond,
       SendRespond, callerVars
  <2>2. PICK ph \in {"discarded", "respond", "panicked", "deliver", "send", "done"} :
          task' = [task EXCEPT ![o][i] = ph]
    BY <1>3 DEF TaskStep, PanicDispatch, FinishDispatch, RouteRespond, DeliverRespond, SendRespond
  <2> QED BY <1>1, <2>1, <2>2 DEF OnlyBegins
<1>4. ASSUME NEW i \in PeerIds, PeerCall(i) PROVE OnlyBegins
  <2>1. PICK ph \in {"running", "respond"} : task' = [task EXCEPT !["peer"][i] = ph]
    BY <1>4 DEF PeerCall, SpawnDispatch
  <2>2. UNCHANGED caller
    BY <1>4 DEF PeerCall, callerVars
  <2> QED BY <1>1, <2>1, <2>2 DEF OnlyBegins, Side, Ids
<1>5. CASE UNCHANGED <<caller, task>>
  BY <1>5 DEF OnlyBegins
<1> QED
  BY <1>2, <1>3, <1>4, <1>5
  DEF Next, cancel_hosted, TripPeer, PeerRespond, Pump, Shutdown, StopPump,
      vars, callerVars, taskVars

\* What was accounted for stays so.
LEMMA FrameAccounted ==
  ASSUME OnlyBegins, NEW f \in Frame, Accounted(f)
  PROVE  Accounted(f)'
BY DEF Accounted, OnlyBegins, Frame, Side

LEMMA TheseAccounted ==
  ASSUME \A k \in DOMAIN outbound' : \E f \in Frame : outbound'[k] = f /\ Accounted(f)'
  PROVE  AllAccounted'
BY DEF AllAccounted, Accounted

\* The frames a send leaves in the channel are accounted for.
LEMMA SendAccounted ==
  ASSUME TypeOK, OnlyBegins, NEW frame \in Frame, send_outbound(frame), Accounted(frame)', AllAccounted
  PROVE  AllAccounted'
<1>1. outbound \in Seq(Frame)
  BY DEF TypeOK
<1>2. ASSUME NEW k \in DOMAIN outbound' PROVE \E f \in Frame : outbound'[k] = f /\ Accounted(f)'
  <2>1. CASE k \in DOMAIN outbound /\ outbound'[k] = outbound[k]
    <3>1. outbound[k] \in Frame /\ Accounted(outbound[k])
      BY <1>1, <2>1 DEF AllAccounted
    <3> QED BY <2>1, <3>1, FrameAccounted
  <2>2. CASE outbound'[k] = frame
    BY <2>2
  <2>3. \/ outbound' = outbound
        \/ outbound' = Append(outbound, frame)
    BY DEF send_outbound, Enqueue, SendFails
  <2> QED BY <1>1, <1>2, <2>1, <2>2, <2>3
<1> QED BY <1>2, TheseAccounted

\* So are those that stay when none is sent.
LEMMA StayAccounted ==
  ASSUME TypeOK, OnlyBegins, AllAccounted,
         \/ UNCHANGED outbound
         \/ outbound # <<>> /\ outbound' = Tail(outbound)
  PROVE  AllAccounted'
<1>1. outbound \in Seq(Frame)
  BY DEF TypeOK
<1>2. ASSUME NEW k \in DOMAIN outbound' PROVE \E f \in Frame : outbound'[k] = f /\ Accounted(f)'
  <2>1. PICK l \in DOMAIN outbound : outbound'[k] = outbound[l]
    <3>1. CASE UNCHANGED outbound
      BY <3>1, <1>2
    <3>2. CASE outbound # <<>> /\ outbound' = Tail(outbound)
      <4>1. k + 1 \in DOMAIN outbound /\ outbound'[k] = outbound[k + 1]
        BY <1>1, <1>2, <3>2
      <4> QED BY <4>1
    <3> QED BY <3>1, <3>2
  <2>2. outbound[l] \in Frame /\ Accounted(outbound[l])
    BY <1>1, <2>1 DEF AllAccounted
  <2> QED BY <2>1, <2>2, FrameAccounted
<1> QED BY <1>2, TheseAccounted

LEMMA NextServe ==
  ASSUME DisjointIds, TypeOK, TokenInv, ServeInv, [Next]_vars
  PROVE  ServeInv'
<1>0. OnlyBegins
  BY Begins
<1>1. AllAccounted'
  <2>1. ASSUME NEW i \in LocalIds, CallPeer(i), Enqueue([kind |-> "Call", owner |-> "local", id |-> i])
        PROVE  AllAccounted'
    <3> DEFINE frame == [kind |-> "Call", owner |-> "local", id |-> i]
    <3>1. frame \in Frame /\ frame.kind = "Call" /\ frame.owner = "local" /\ frame.id = i
      BY DEF Frame, Side, Ids
    <3>2. caller[i] = "registered"
      BY <2>1 DEF CallPeer
    <3> HIDE DEF frame
    <3>3. Accounted(frame)'
      BY <1>0, <3>1, <3>2 DEF Accounted, OnlyBegins
    <3> QED BY <1>0, <2>1, <3>1, <3>3, SendAccounted DEF ServeInv, send_outbound, frame
  <2>2. ASSUME NEW i \in LocalIds, CancelPeer(i) PROVE AllAccounted'
    <3> DEFINE frame == [kind |-> "Cancel", owner |-> "local", id |-> i]
    <3>1. frame \in Frame /\ frame.kind = "Cancel"
      BY DEF Frame, Side, Ids
    <3>2. send_outbound(frame)
      BY <2>2 DEF CancelPeer
    <3> HIDE DEF frame
    <3>3. Accounted(frame)'
      BY <3>1 DEF Accounted
    <3> QED BY <1>0, <3>1, <3>2, <3>3, SendAccounted DEF ServeInv
  <2>3. ASSUME NEW o \in Side, NEW i \in Ids, SendRespond(o, i)
        PROVE  AllAccounted'
    <3> DEFINE frame == [kind |-> "Respond", owner |-> o, id |-> i]
    <3>1. frame \in Frame /\ frame.kind = "Respond" /\ frame.owner = o /\ frame.id = i
      BY DEF Frame, Side, Ids
    <3>2. send_outbound(frame) /\ task[o][i] = "send"
      BY <2>3 DEF SendRespond
    <3> HIDE DEF frame
    <3>3. Accounted(frame)'
      BY <1>0, <3>1, <3>2 DEF Accounted, OnlyBegins
    <3> QED BY <1>0, <3>1, <3>2, <3>3, SendAccounted DEF ServeInv
  <2>4. CASE UNCHANGED outbound \/ (outbound # <<>> /\ outbound' = Tail(outbound))
    BY <1>0, <2>4, StayAccounted DEF ServeInv
  <2>5. CASE outbound' = <<>>
    BY <2>5, TheseAccounted
  <2>6. ASSUME NEW i \in LocalIds, CallerStep(i) PROVE AllAccounted'
    <3>1. \/ CallPeer(i) /\ Enqueue([kind |-> "Call", owner |-> "local", id |-> i])
          \/ CancelPeer(i)
          \/ UNCHANGED outbound
      BY <2>6 DEF CallerStep, CallHosted, CallPeer, SendFails, Await, CancelHostedLocal,
         TripLocal, runtimeVars
    <3> QED BY <2>1, <2>2, <2>4, <3>1
  <2>7. ASSUME NEW o \in Side, NEW i \in Ids, TaskStep(o, i) PROVE AllAccounted'
    <3>1. SendRespond(o, i) \/ UNCHANGED outbound
      BY <2>7 DEF TaskStep, FinishDispatch, RouteRespond, DeliverRespond, runtimeVars
    <3> QED BY <2>3, <2>4, <3>1
  <2> QED
    BY <2>4, <2>5, <2>6, <2>7
    DEF Next, Register, DropHandle, PanicDispatch, PeerCall, cancel_hosted, TripPeer, PeerRespond,
        Pump, Shutdown, StopPump, vars, runtimeVars
<1>2. \A i \in PeerIds : peer_call'[i] = "idle" => task'["peer"][i] = "none" /\ peer_got'[i] = None
  <2>1. ASSUME NEW i \in PeerIds, peer_call'[i] = "idle"
        PROVE  peer_call[i] = "idle" /\ peer_got'[i] = None
    <3>1. peer_call' = peer_call \/ \E j \in PeerIds : peer_call' = [peer_call EXCEPT ![j] = "called"]
      BY DEF Next, CallerStep, TaskStep, Register, DropHandle, CallHosted, CallPeer, Await,
             CancelHostedLocal, TripLocal, CancelPeer, FinishDispatch, RouteRespond, DeliverRespond,
             SendRespond, PanicDispatch, PeerCall, cancel_hosted, TripPeer, PeerRespond,
             Pump, Shutdown, StopPump, vars, peerVars
    <3>2. peer_call[i] = "idle"
      BY <2>1, <3>1 DEF TypeOK
    <3>3. \/ peer_got' = peer_got
          \/ \E j \in PeerIds : /\ peer_call[j] = "called"
                              /\ \A l \in PeerIds \ {j} : peer_got'[l] = peer_got[l]
      <4>1. CASE Pump
        <5>1. PeerReceives(Head(outbound))
          BY <4>1 DEF Pump
        <5> QED BY <5>1 DEF PeerReceives, TypeOK
      <4>2. CASE ~Pump
        BY <4>2 DEF Next, CallerStep, TaskStep, Register, DropHandle, CallHosted, CallPeer, Await,
               CancelHostedLocal, TripLocal, CancelPeer, FinishDispatch, RouteRespond, DeliverRespond,
               SendRespond, PanicDispatch, PeerCall, cancel_hosted, TripPeer, PeerRespond,
               Shutdown, StopPump, vars, peerVars
      <4> QED BY <4>1, <4>2
    <3> QED BY <2>1, <3>2, <3>3 DEF ServeInv
  <2>2. ASSUME NEW i \in PeerIds, peer_call'[i] = "idle" PROVE task'["peer"][i] = "none"
    BY <2>2, NextTokenInv DEF TokenInv, FetchedRight
  <2> QED BY <2>1, <2>2
<1> QED BY <1>1, <1>2 DEF ServeInv


\* A step, seen call by call.
Same(o, i) ==
  /\ callStatus(o, i)' = callStatus(o, i)
  /\ callAccepted(o, i)' <=> callAccepted(o, i)
  /\ callAnswer(o, i)' = callAnswer(o, i)

SameBut(o, i) ==
  /\ \A j \in LocalIds : <<"local", j>> # <<o, i>> => Same("local", j)
  /\ \A j \in PeerIds : <<"peer", j>> # <<o, i>> => Same("peer", j)

\* Every call is of one side or the other.
LEMMA CallCases ==
  ASSUME NEW c \in AllCalls
  PROVE  \/ \E i \in LocalIds : c = <<"local", i>>
         \/ \E i \in PeerIds : c = <<"peer", i>>
BY DEF AllCalls

PStatus == [c \in AllCalls |-> callStatus(c[1], c[2])]
PAccepted == {c \in AllCalls : callAccepted(c[1], c[2])}
PAnswer == [c \in AllCalls |-> callAnswer(c[1], c[2])]

\* Nothing happens to any call.
LEMMA MapsToStutter ==
  ASSUME \A i \in LocalIds : Same("local", i), \A i \in PeerIds : Same("peer", i)
  PROVE  UNCHANGED <<PStatus, PAccepted, PAnswer>>
<1>1. \A c \in AllCalls : /\ callStatus(c[1], c[2])' = callStatus(c[1], c[2])
                          /\ callAccepted(c[1], c[2])' <=> callAccepted(c[1], c[2])
                          /\ callAnswer(c[1], c[2])' = callAnswer(c[1], c[2])
  BY CallCases DEF Same
<1>2. PStatus' = PStatus
  BY <1>1 DEF PStatus
<1>3. PAccepted' = PAccepted
  BY <1>1 DEF PAccepted
<1>4. PAnswer' = PAnswer
  BY <1>1 DEF PAnswer
<1> QED BY <1>2, <1>3, <1>4

\* Something happens to one call.
LEMMA MapsToOne ==
  ASSUME NEW o, NEW i, <<o, i>> \in AllCalls, SameBut(o, i)
  PROVE  LET c == <<o, i>> IN
         /\ PStatus' = [PStatus EXCEPT ![c] = callStatus(o, i)']
         /\ callAccepted(o, i)' => PAccepted' = PAccepted \cup {c}
         /\ (callAccepted(o, i)' <=> callAccepted(o, i)) => PAccepted' = PAccepted
         /\ PAnswer' = [PAnswer EXCEPT ![c] = callAnswer(o, i)']
         /\ PStatus[c] = callStatus(o, i) /\ (c \in PAccepted <=> callAccepted(o, i))
         /\ PAnswer[c] = callAnswer(o, i)
<1> DEFINE c == <<o, i>>
<1>1. \A d \in AllCalls : d # c => /\ callStatus(d[1], d[2])' = callStatus(d[1], d[2])
                                   /\ callAccepted(d[1], d[2])' <=> callAccepted(d[1], d[2])
                                   /\ callAnswer(d[1], d[2])' = callAnswer(d[1], d[2])
  BY CallCases DEF SameBut, Same
<1>2. c[1] = o /\ c[2] = i /\ c \in AllCalls
  OBVIOUS
<1> HIDE DEF c
<1>3. PStatus' = [PStatus EXCEPT ![c] = callStatus(o, i)']
  BY <1>1, <1>2 DEF PStatus
<1>4. PAnswer' = [PAnswer EXCEPT ![c] = callAnswer(o, i)']
  BY <1>1, <1>2 DEF PAnswer
<1>5. /\ callAccepted(o, i)' => PAccepted' = PAccepted \cup {c}
      /\ (callAccepted(o, i)' <=> callAccepted(o, i)) => PAccepted' = PAccepted
  BY <1>1, <1>2 DEF PAccepted
<1>6. PStatus[c] = callStatus(o, i) /\ (c \in PAccepted <=> callAccepted(o, i))
      /\ PAnswer[c] = callAnswer(o, i)
  BY <1>2 DEF PStatus, PAccepted, PAnswer
<1> QED BY <1>3, <1>4, <1>5, <1>6 DEF c

PromiseStep == Promise!Next \/ UNCHANGED <<PStatus, PAccepted, PAnswer>>

\* The four things that can happen to it.
LEMMA MapsToAction ==
  ASSUME NEW o, NEW i, <<o, i>> \in AllCalls, SameBut(o, i),
         \/ /\ callStatus(o, i) = "idle" /\ callStatus(o, i)' = "open"
            /\ callAccepted(o, i) => callAccepted(o, i)'
            /\ callAnswer(o, i)' = callAnswer(o, i)
         \/ /\ callStatus(o, i) # "idle" /\ callStatus(o, i)' = callStatus(o, i)
            /\ callAccepted(o, i) => callAccepted(o, i)'
            /\ callAnswer(o, i)' = callAnswer(o, i)
         \/ /\ callStatus(o, i) = "open" /\ callStatus(o, i)' = "over"
            /\ callAccepted(o, i) /\ callAccepted(o, i)'
            /\ callAnswer(o, i)' = <<o, i>>
         \/ /\ callStatus(o, i) = "open" /\ callStatus(o, i)' = "over"
            /\ callAccepted(o, i)' <=> callAccepted(o, i)
            /\ callAnswer(o, i)' = callAnswer(o, i)
  PROVE  PromiseStep
<1> DEFINE c == <<o, i>>
<1>1. /\ PStatus' = [PStatus EXCEPT ![c] = callStatus(o, i)']
      /\ callAccepted(o, i)' => PAccepted' = PAccepted \cup {c}
      /\ (callAccepted(o, i)' <=> callAccepted(o, i)) => PAccepted' = PAccepted
      /\ PAnswer' = [PAnswer EXCEPT ![c] = callAnswer(o, i)']
      /\ PStatus[c] = callStatus(o, i) /\ (c \in PAccepted <=> callAccepted(o, i))
      /\ PAnswer[c] = callAnswer(o, i)
  BY MapsToOne
<1>2. callAnswer(o, i)' = callAnswer(o, i) => PAnswer' = PAnswer
  BY <1>1 DEF PAnswer
<1>3. callStatus(o, i)' = callStatus(o, i) => PStatus' = PStatus
  BY <1>1 DEF PStatus
<1>4. c \in AllCalls /\ {c} \in SUBSET AllCalls
  OBVIOUS
<1>5. PStatus' = [d \in AllCalls |-> IF d \in {c} THEN callStatus(o, i)' ELSE PStatus[d]]
  BY <1>1 DEF PStatus
<1> HIDE DEF c
<1>a. CASE /\ callStatus(o, i) = "idle" /\ callStatus(o, i)' = "open"
           /\ callAccepted(o, i) => callAccepted(o, i)'
           /\ callAnswer(o, i)' = callAnswer(o, i)
  <2>1. Promise!Open(c)
    BY <1>1, <1>2, <1>a DEF Promise!Open, PStatus, PAccepted, PAnswer
  <2> QED BY <1>4, <2>1 DEF PromiseStep, Promise!Next
<1>b. CASE /\ callStatus(o, i) # "idle" /\ callStatus(o, i)' = callStatus(o, i)
           /\ callAccepted(o, i) => callAccepted(o, i)'
           /\ callAnswer(o, i)' = callAnswer(o, i)
  <2>1. CASE callAccepted(o, i)' <=> callAccepted(o, i)
    BY <1>1, <1>2, <1>3, <1>b, <2>1 DEF PromiseStep
  <2>2. CASE ~callAccepted(o, i) /\ callAccepted(o, i)'
    <3>1. Promise!Accept(c)
      BY <1>1, <1>2, <1>3, <1>b, <2>2 DEF Promise!Accept, PStatus, PAccepted, PAnswer
    <3> QED BY <1>4, <3>1 DEF PromiseStep, Promise!Next
  <2> QED BY <1>b, <2>1, <2>2
<1>c. CASE /\ callStatus(o, i) = "open" /\ callStatus(o, i)' = "over"
           /\ callAccepted(o, i) /\ callAccepted(o, i)'
           /\ callAnswer(o, i)' = c
  <2>1. Promise!Answer(c)
    BY <1>1, <1>c DEF Promise!Answer, PStatus, PAccepted, PAnswer
  <2> QED BY <1>4, <2>1 DEF PromiseStep, Promise!Next
<1>d. CASE /\ callStatus(o, i) = "open" /\ callStatus(o, i)' = "over"
           /\ callAccepted(o, i)' <=> callAccepted(o, i)
           /\ callAnswer(o, i)' = callAnswer(o, i)
  <2>1. Promise!GiveUp({c})
    BY <1>1, <1>2, <1>5, <1>d DEF Promise!GiveUp, PStatus, PAccepted, PAnswer
  <2> QED BY <1>4, <2>1 DEF PromiseStep, Promise!Next
<1> QED BY <1>a, <1>b, <1>c, <1>d DEF c

\* A step of the runtime is a step of the promise.
LEMMA StepKeepsPromise ==
  ASSUME DisjointIds, TypeOK, AnswerInv, TokenInv, PendingInv, ServeInv, [Next]_vars
  PROVE  PromiseStep
<1> USE DEF callStatus, callAccepted, callAnswer
<1>0. /\ caller \in [LocalIds -> CallerPhase] /\ task \in [Side -> [Ids -> TaskPhase]]
      /\ pending \subseteq LocalIds /\ result \in [LocalIds -> Call \cup {None}]
      /\ serving \in [LocalIds -> {"none", "serving", "cancelled", "answered"}]
      /\ peer_call \in [PeerIds -> {"idle", "called"}]
      /\ peer_got \in [PeerIds -> Call \cup {None}]
      /\ LocalIds \subseteq Ids /\ PeerIds \subseteq Ids /\ "local" \in Side /\ "peer" \in Side
      /\ next_id \in Nat /\ LocalIds \subseteq Nat
  BY CallRoutingAssumption DEF TypeOK, Ids, Side, LocalIds
<1>00. /\ \A i \in LocalIds : <<"local", i>> \in AllCalls
       /\ \A i \in PeerIds : <<"peer", i>> \in AllCalls
  BY DEF AllCalls
<1>stutter. ASSUME UNCHANGED <<pending, result, serving, peer_call, peer_got>>,
                   \A i \in LocalIds : caller'[i] = "idle" <=> caller[i] = "idle",
                   \A i \in LocalIds : task'["local"][i] = "none" <=> task["local"][i] = "none",
                   \A i \in PeerIds : task'["peer"][i] = "none" <=> task["peer"][i] = "none"
            PROVE  PromiseStep
  BY <1>stutter, MapsToStutter DEF PromiseStep, Same
<1>1. ASSUME NEW i \in LocalIds, Register(i) PROVE PromiseStep
  <2>1. /\ caller[i] = "idle" /\ i \notin pending /\ pending' = pending \cup {i}
        /\ caller' = [caller EXCEPT ![i] = "registered"]
        /\ UNCHANGED <<task, result, serving, peer_call, peer_got>>
    BY <1>0, <1>1 DEF Register, PendingInv, taskVars, peerVars
  <2>2. SameBut("local", i)
    BY <1>0, <2>1 DEF SameBut, Same
  <2>3. /\ callStatus("local", i) = "idle" /\ callStatus("local", i)' = "open"
        /\ callAccepted("local", i) => callAccepted("local", i)'
        /\ callAnswer("local", i)' = callAnswer("local", i)
    BY <1>0, <2>1
  <2> QED BY <1>00, <2>2, <2>3, MapsToAction
<1>2. ASSUME NEW i \in LocalIds, CallHosted(i) PROVE PromiseStep
  <2>1. /\ caller[i] = "registered" /\ caller' = [caller EXCEPT ![i] = "waiting"]
        /\ task' = [task EXCEPT !["local"][i] = "running"]
        /\ UNCHANGED <<pending, result, serving, peer_call, peer_got>>
    BY <1>2 DEF CallHosted, SpawnDispatch, peerVars
  <2>2. SameBut("local", i)
    BY <1>0, <2>1 DEF SameBut, Same
  <2>3. /\ callStatus("local", i) # "idle" /\ callStatus("local", i)' = callStatus("local", i)
        /\ callAccepted("local", i) => callAccepted("local", i)'
        /\ callAnswer("local", i)' = callAnswer("local", i)
    BY <1>0, <2>1
  <2> QED BY <1>00, <2>2, <2>3, MapsToAction
<1>3. ASSUME NEW i \in LocalIds,
             CallPeer(i) \/ Await(i) \/ CancelHostedLocal(i) \/ TripLocal(i) \/ CancelPeer(i)
      PROVE  PromiseStep
  <2>1. /\ caller[i] # "idle" /\ UNCHANGED <<pending, result, serving, peer_call, peer_got, task>>
    BY <1>3 DEF CallPeer, Await, CancelHostedLocal, TripLocal, CancelPeer, runtimeVars, taskVars,
       peerVars
  <2>2. PICK ph \in CallerPhase \ {"idle"} : caller' = [caller EXCEPT ![i] = ph]
    BY <1>3 DEF CallPeer, Await, CancelHostedLocal, TripLocal, CancelPeer, CallerPhase
  <2>3. \A j \in LocalIds : caller'[j] = "idle" <=> caller[j] = "idle"
    BY <1>0, <2>1, <2>2
  <2> QED BY <2>1, <2>3, <1>stutter
<1>4. ASSUME NEW i \in LocalIds, DropHandle(i) PROVE PromiseStep
  <2>1. /\ caller[i] = "waiting" /\ caller' = [caller EXCEPT ![i] = "dropping"]
        /\ pending' = pending \ {i}
        /\ UNCHANGED <<task, result, serving, peer_call, peer_got>>
    BY <1>4 DEF DropHandle, taskVars, peerVars
  <2>2. CASE i \in pending
    <3>1. SameBut("local", i)
      BY <1>0, <2>1 DEF SameBut, Same
    <3>2. /\ callStatus("local", i) = "open" /\ callStatus("local", i)' = "over"
          /\ callAccepted("local", i)' <=> callAccepted("local", i)
          /\ callAnswer("local", i)' = callAnswer("local", i)
      BY <1>0, <2>1, <2>2
    <3> QED BY <1>00, <3>1, <3>2, MapsToAction
  <2>3. CASE i \notin pending
    <3>1. pending' = pending /\ \A j \in LocalIds : caller'[j] = "idle" <=> caller[j] = "idle"
      BY <1>0, <2>1, <2>3
    <3> QED BY <2>1, <3>1, <1>stutter
  <2> QED BY <2>2, <2>3
<1>5. ASSUME NEW o \in Side, NEW i \in Ids,
             FinishDispatch(o, i) \/ PanicDispatch(o, i) \/ RouteRespond(o, i) \/ SendRespond(o, i)
      PROVE  PromiseStep
  <2>1. /\ task[o][i] # "none"
        /\ UNCHANGED <<pending, result, serving, peer_call, peer_got, caller>>
    BY <1>5 DEF FinishDispatch, PanicDispatch, RouteRespond, SendRespond, runtimeVars, callerVars,
       peerVars
  <2>2. PICK ph \in TaskPhase \ {"none"} : task' = [task EXCEPT ![o][i] = ph]
    BY <1>5 DEF FinishDispatch, PanicDispatch, RouteRespond, SendRespond, TaskPhase
  <2>3. \A p \in Side, j \in Ids : task'[p][j] = "none" <=> task[p][j] = "none"
    BY <1>0, <2>1, <2>2
  <2> QED BY <1>0, <2>1, <2>3, <1>stutter
<1>6. ASSUME NEW i \in LocalIds, deliver_response(i, "local"), callAccepted("local", i),
             callAccepted("local", i)', UNCHANGED <<caller, peer_call, peer_got>>,
             \A j \in LocalIds : j # i => (callAccepted("local", j)' <=> callAccepted("local", j)),
             \A j \in PeerIds : callAccepted("peer", j)' <=> callAccepted("peer", j)
      PROVE  PromiseStep
  <2>1. CASE i \in pending
    <3>1. /\ pending' = pending \ {i} /\ result' = [result EXCEPT ![i] = <<"local", i>>]
      BY <1>6, <2>1 DEF deliver_response
    <3>2. SameBut("local", i)
      BY <1>0, <1>6, <3>1 DEF SameBut, Same
    <3>3. caller[i] # "idle"
      BY <2>1 DEF PendingInv, RegistrationHasHolder
    <3>4. /\ callStatus("local", i) = "open" /\ callStatus("local", i)' = "over"
          /\ callAnswer("local", i)' = <<"local", i>>
      BY <1>0, <1>6, <2>1, <3>1, <3>3
    <3> QED BY <1>00, <1>6, <3>2, <3>4, MapsToAction
  <2>2. CASE i \notin pending
    <3>1. UNCHANGED <<pending, result>>
      BY <1>6, <2>2 DEF deliver_response
    <3> QED BY <1>6, <3>1, MapsToStutter DEF PromiseStep, Same
  <2> QED BY <2>1, <2>2
<1>7. ASSUME NEW o \in Side, NEW i \in Ids, DeliverRespond(o, i) PROVE PromiseStep
  <2>1. o = "local" /\ task["local"][i] = "deliver" /\ i \in LocalIds
    BY <1>7 DEF DeliverRespond, AnswerInv, OwnIds, Side
  <2>2. /\ task' = [task EXCEPT !["local"][i] = "done"] /\ deliver_response(i, "local")
        /\ UNCHANGED <<caller, serving, peer_call, peer_got>>
    BY <1>7, <2>1 DEF DeliverRespond, peerVars
  <2>3. /\ \A j \in LocalIds : task'["local"][j] = "none" <=> task["local"][j] = "none"
        /\ \A j \in PeerIds : task'["peer"][j] = task["peer"][j]
        /\ task'["local"][i] = "done"
    BY <1>0, <2>1, <2>2
  <2> QED BY <1>6, <2>1, <2>2, <2>3
<1>8. ASSUME NEW i \in LocalIds, PeerRespond(i) PROVE PromiseStep
  <2>1. /\ serving[i] # "none" /\ serving' = [serving EXCEPT ![i] = "answered"]
        /\ deliver_response(i, "local")
        /\ UNCHANGED <<task, caller, peer_call, peer_got>>
    BY <1>8 DEF PeerRespond, taskVars
  <2>2. \A j \in LocalIds : serving'[j] = "none" <=> serving[j] = "none"
    BY <1>0, <2>1
  <2>3. serving'[i] # "none"
    BY <1>0, <2>1
  <2> QED BY <1>6, <2>1, <2>2, <2>3
<1>9. ASSUME NEW i \in PeerIds, PeerCall(i) PROVE PromiseStep
  <2>1. PICK ph \in {"running", "respond"} : task' = [task EXCEPT !["peer"][i] = ph]
    BY <1>9 DEF PeerCall, SpawnDispatch
  <2>2. /\ peer_call[i] = "idle" /\ peer_call' = [peer_call EXCEPT ![i] = "called"]
        /\ peer_got[i] = None
        /\ UNCHANGED <<pending, caller, result, serving, peer_got>>
    BY <1>9 DEF PeerCall, callerVars, ServeInv
  <2>3. SameBut("peer", i)
    BY <1>0, <2>1, <2>2 DEF SameBut, Same
  <2>4. /\ callStatus("peer", i) = "idle" /\ callStatus("peer", i)' = "open"
        /\ callAccepted("peer", i)'
        /\ callAnswer("peer", i)' = callAnswer("peer", i)
    BY <1>0, <2>1, <2>2
  <2> QED BY <1>00, <2>3, <2>4, MapsToAction
<1>10. ASSUME NEW i \in PeerIds, cancel_hosted(i) \/ TripPeer(i) PROVE PromiseStep
  <2>1. UNCHANGED <<pending, result, serving, peer_call, peer_got, caller, task>>
    BY <1>10 DEF cancel_hosted, TripPeer, runtimeVars, taskVars, callerVars
  <2> QED BY <2>1, <1>stutter
<1>11. CASE Pump
  <2> DEFINE frame == Head(outbound)
  <2>1. outbound \in Seq(Frame) /\ outbound # <<>> /\ PeerReceives(frame)
        /\ UNCHANGED <<pending, task, caller, result, peer_call>>
    BY <1>11 DEF Pump, TypeOK, taskVars, callerVars
  <2>2. frame \in Frame /\ frame = outbound[1] /\ 1 \in DOMAIN outbound
    BY <2>1
  <2> PICK i \in Ids : i = frame.id
    BY <2>2 DEF Frame
  <2>3. /\ frame.kind = "Call" => i \in LocalIds /\ caller[i] # "idle"
        /\ frame.kind = "Respond" /\ frame.owner = "peer" => task["peer"][i] # "none"
        /\ frame.kind = "Respond" /\ i \in PeerIds => frame.owner = "peer"
    <3>1. Accounted(frame) /\ Harmless(frame) /\ frame.owner \in Side
      BY <2>2 DEF ServeInv, AllAccounted, AnswerInv, Frame
    <3> HIDE DEF frame
    <3> QED BY <3>1 DEF Accounted, Harmless, Side
  <2>4. \/ frame.kind = "Call" /\ serving' = [serving EXCEPT ![i] = "serving"] /\ UNCHANGED peer_got
        \/ /\ serving' = [serving EXCEPT ![i] = IF @ = "serving" THEN "cancelled" ELSE @]
           /\ UNCHANGED peer_got
        \/ /\ frame.kind = "Respond" /\ UNCHANGED serving
           /\ i \in PeerIds /\ peer_call[i] = "called" /\ peer_got[i] = None
           /\ peer_got' = [peer_got EXCEPT ![i] = <<frame.owner, i>>]
        \/ UNCHANGED <<serving, peer_got>>
    BY <2>1 DEF PeerReceives
  <2>5. UNCHANGED <<pending, task, caller, result, peer_call>>
    BY <2>1
  <2> HIDE DEF frame
  <2>6. CASE frame.kind = "Call" /\ serving' = [serving EXCEPT ![i] = "serving"]
             /\ UNCHANGED peer_got
    <3>1. i \in LocalIds /\ caller[i] # "idle"
      BY <2>3, <2>6
    <3>2. SameBut("local", i)
      BY <1>0, <2>5, <2>6, <3>1 DEF SameBut, Same
    <3>3. /\ callStatus("local", i) # "idle" /\ callStatus("local", i)' = callStatus("local", i)
          /\ callAccepted("local", i) => callAccepted("local", i)'
          /\ callAnswer("local", i)' = callAnswer("local", i)
      BY <1>0, <2>5, <2>6, <3>1
    <3> QED BY <1>00, <3>1, <3>2, <3>3, MapsToAction
  <2>7. CASE /\ serving' = [serving EXCEPT ![i] = IF @ = "serving" THEN "cancelled" ELSE @]
             /\ UNCHANGED peer_got
    <3>1. \A j \in LocalIds : serving'[j] = "none" <=> serving[j] = "none"
      BY <1>0, <2>7
    <3> QED BY <2>5, <2>7, <3>1, MapsToStutter DEF PromiseStep, Same
  <2>8. CASE /\ frame.kind = "Respond" /\ UNCHANGED serving
             /\ i \in PeerIds /\ peer_call[i] = "called" /\ peer_got[i] = None
             /\ peer_got' = [peer_got EXCEPT ![i] = <<frame.owner, i>>]
    <3>1. frame.owner = "peer"
      BY <2>3, <2>8
    <3>2. task["peer"][i] # "none"
      BY <2>3, <2>8, <3>1
    <3>3. SameBut("peer", i)
      BY <1>0, <2>5, <2>8 DEF SameBut, Same
    <3>4. <<"peer", i>> # None
      BY <2>8, <1>0, CallRoutingAssumption DEF Call
    <3>5. /\ callStatus("peer", i) = "open" /\ callStatus("peer", i)' = "over"
          /\ callAccepted("peer", i) /\ callAccepted("peer", i)'
          /\ callAnswer("peer", i)' = <<"peer", i>>
      BY <1>0, <2>5, <2>8, <3>1, <3>2, <3>4
    <3> QED BY <1>00, <2>8, <3>3, <3>5, MapsToAction
  <2>9. CASE UNCHANGED <<serving, peer_got>>
    BY <2>5, <2>9, <1>stutter
  <2> QED BY <2>4, <2>6, <2>7, <2>8, <2>9
<1>12. CASE Shutdown
  <2>1. pending' = {} /\ UNCHANGED <<task, caller, result, serving, peer_call, peer_got>>
    BY <1>12 DEF Shutdown, taskVars, callerVars, peerVars
  <2>2. CASE pending = {}
    BY <2>1, <2>2, <1>stutter
  <2>3. CASE pending # {}
    <3>0. {<<"local", i>> : i \in pending} \in SUBSET AllCalls
      BY <1>0, <1>00
    <3> PICK cs \in SUBSET AllCalls : cs = {<<"local", i>> : i \in pending}
      BY <3>0
    <3>1. cs # {}
      BY <2>3
    <3>2. \A c \in cs : PStatus[c] = "open"
      BY <1>0, <1>00 DEF PStatus, PendingInv, RegistrationHasHolder
    <3>3. \A c \in AllCalls : callStatus(c[1], c[2])' = IF c \in cs THEN "over" ELSE callStatus(c[1], c[2])
      <4> SUFFICES ASSUME NEW c \in AllCalls
                   PROVE callStatus(c[1], c[2])' = IF c \in cs THEN "over" ELSE callStatus(c[1], c[2])
        OBVIOUS
      <4>1. CASE \E i \in LocalIds : c = <<"local", i>>
        <5>1. PICK i \in LocalIds : c = <<"local", i>>
          BY <4>1
        <5>2. c[1] = "local" /\ c[2] = i /\ (c \in cs <=> i \in pending)
          BY <5>1
        <5>3. i \in pending => caller[i] # "idle"
          BY DEF PendingInv, RegistrationHasHolder
        <5> QED BY <2>1, <5>2, <5>3
      <4>2. CASE \E i \in PeerIds : c = <<"peer", i>>
        <5>1. c[1] = "peer" /\ c \notin cs
          BY <4>2
        <5> QED BY <2>1, <5>1
      <4> QED BY <4>1, <4>2, CallCases
    <3>4. PStatus' = [c \in AllCalls |-> IF c \in cs THEN "over" ELSE PStatus[c]]
      BY <3>3 DEF PStatus
    <3>5. PAccepted' = PAccepted /\ PAnswer' = PAnswer
      BY <2>1 DEF PAccepted, PAnswer
    <3>6. Promise!GiveUp(cs)
      BY <3>1, <3>2, <3>4, <3>5 DEF Promise!GiveUp, PStatus, PAccepted, PAnswer
    <3> QED BY <3>1, <3>6 DEF PromiseStep, Promise!Next
  <2> QED BY <2>2, <2>3
<1>13. CASE StopPump
  <2>1. UNCHANGED <<pending, result, serving, peer_call, peer_got, caller, task>>
    BY <1>13 DEF StopPump, taskVars, callerVars, peerVars
  <2> QED BY <2>1, <1>stutter
<1>14. CASE UNCHANGED vars
  <2>1. UNCHANGED <<pending, result, serving, peer_call, peer_got, caller, task>>
    BY <1>14 DEF vars, runtimeVars, taskVars, callerVars, peerVars
  <2> QED BY <2>1, <1>stutter
<1>15. ASSUME NEW i \in LocalIds, CallerStep(i) PROVE PromiseStep
  BY <1>2, <1>3, <1>15 DEF CallerStep
<1>16. ASSUME NEW o \in Side, NEW i \in Ids, TaskStep(o, i) \/ PanicDispatch(o, i) PROVE PromiseStep
  BY <1>5, <1>7, <1>16 DEF TaskStep
<1> QED
  <2> HIDE <1>0, <1>00, <1>stutter
  <2> QED BY <1>1, <1>4, <1>8, <1>9, <1>10, <1>11, <1>12, <1>13, <1>14, <1>15, <1>16 DEF Next

LEMMA InitKeepsPromise == Init => Promise!Init
<1> SUFFICES ASSUME Init PROVE Promise!Init
  OBVIOUS
<1>1. \A c \in AllCalls : /\ callStatus(c[1], c[2]) = "idle" /\ ~callAccepted(c[1], c[2])
                          /\ callAnswer(c[1], c[2]) = None
  BY CallCases DEF Init, callStatus, callAccepted, callAnswer, Side, Ids
<1> QED BY <1>1 DEF Promise!Init

\* The runtime keeps the promise of CallPromise: a call of either side is accepted at
\* most once and only ends answered by whoever accepted it, or given up.
THEOREM PromiseIsKept ==
  ASSUME DisjointIds
  PROVE  Spec => KeepsPromise
<1>1. Init => AnswerInv
  BY DEF Init, AnswerInv, OwnIds, AnswersMatchCalls, Side, Harmless
<1>2. Spec => []AnswerInv
  BY <1>1, NextAnswerInv, TypeCorrect, PTL DEF Spec
<1>3. Init => ServeInv
  BY DEF Init, ServeInv, AllAccounted, Side, Ids
<1>4. Spec => []ServeInv
  BY <1>3, NextServe, TypeCorrect, TokenInvariant, PTL DEF Spec
<1>5. ASSUME TypeOK, AnswerInv, TokenInv, PendingInv, ServeInv, [Next]_vars
      PROVE  [Promise!Next]_(Promise!vars)
  <2>1. PromiseStep
    BY <1>5, StepKeepsPromise
  <2> QED BY <2>1 DEF PromiseStep, Promise!vars, PStatus, PAccepted, PAnswer
<1>6. TypeOK /\ AnswerInv /\ TokenInv /\ PendingInv /\ ServeInv /\ [Next]_vars =>
        [Promise!Next]_(Promise!vars)
  BY <1>5
<1> QED
  BY InitKeepsPromise, <1>2, <1>4, <1>6, TypeCorrect, TokenInvariant, PendingInvariant, PTL
  DEF Spec, KeepsPromise, Promise!Spec
=============================================================================
