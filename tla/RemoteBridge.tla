----------------------------- MODULE RemoteBridge -----------------------------
(***************************************************************************)
(* A runtime between two peers: the platform, behind the outbound channel, *)
(* and another process, behind the remote sink.  send_outbound decides     *)
(* frame by frame which of the two a frame is for (runtime.rs 732-833):    *)
(* calls by the plugin they are for, all other frames by what it noted     *)
(* down about earlier ones.                                                *)
(*                                                                         *)
(* Each peer numbers its calls on its own, so a number may be in use for   *)
(* two calls at once, one of each direction.                               *)
(***************************************************************************)
EXTENDS Naturals, Sequences

CONSTANTS
  Own,      \* numbers of calls and streams this runtime makes
  Inbound,  \* numbers of those that peers make
  Opening   \* the ones of them whose host opens a stream

ASSUME RemoteBridgeAssumption == Opening \subseteq Inbound

Peers == {"remote", "platform"}

VARIABLES
  installed,       \* there is a remote sink
  remote_calls,    \* the numbers noted down, for calls
  remote_streams,  \* and for streams
  lane,            \* frames under way to each peer
  own,             \* what became of this runtime's calls
  went,            \* the peer each was sent to
  serving,         \* the calls of this runtime a peer works on
  inbound,         \* how far a peer's call is
  from,            \* whose it is
  marked,          \* calls that were noted down when they came in
  answered         \* calls whose response or end reached the peer that made it

tables == <<remote_calls, remote_streams>>
ownVars == <<own, went>>
inVars == <<inbound, from, marked>>
vars == <<installed, tables, lane, ownVars, serving, inVars, answered>>

Frame == [kind : {"call", "cancel"}, id : Own] \cup [kind : {"respond", "event", "end"}, id : Inbound]

TypeOK ==
  /\ installed \in BOOLEAN
  /\ remote_calls \subseteq Own \cup Inbound /\ remote_streams \subseteq Own \cup Inbound
  /\ lane \in [Peers -> Seq(Frame)]
  /\ own \in [Own -> {"idle", "open", "done", "awaited", "dropped"}]
  /\ went \in [Own -> Peers \cup {"nowhere"}]
  /\ serving \in [Peers -> SUBSET Own]
  /\ inbound \in [Inbound -> {"none", "running", "pumping", "over", "cancelled"}]
  /\ from \in [Inbound -> Peers \cup {"nobody"}]
  /\ marked \subseteq Inbound /\ answered \subseteq Inbound
  /\ ~installed => remote_calls \cup remote_streams \cup marked = {}

Init ==
  /\ installed = FALSE
  /\ remote_calls = {} /\ remote_streams = {}
  /\ lane = [p \in Peers |-> <<>>]
  /\ own = [c \in Own |-> "idle"] /\ went = [c \in Own |-> "nowhere"]
  /\ serving = [p \in Peers |-> {}]
  /\ inbound = [n \in Inbound |-> "none"] /\ from = [n \in Inbound |-> "nobody"]
  /\ marked = {} /\ answered = {}

SendTo(p, kind, id) == lane' = [lane EXCEPT ![p] = Append(@, [kind |-> kind, id |-> id])]

\* A frame is for the other process or for the platform; calls and streams are
\* what the tables become in the first case.  Without a sink nothing is looked up.
send_outbound(kind, id, isRemote, calls, streams) ==
  IF installed /\ isRemote
  THEN SendTo("remote", kind, id) /\ remote_calls' = calls /\ remote_streams' = streams
  ELSE SendTo("platform", kind, id) /\ UNCHANGED tables
-----------------------------------------------------------------------------
install_remote_envelope_sink ==
  /\ ~installed
  /\ installed' = TRUE
  /\ UNCHANGED <<tables, lane, ownVars, serving, inVars, answered>>

\* A call, to a plugin of either peer.
Call(c, plugin) ==
  /\ own[c] = "idle"
  /\ own' = [own EXCEPT ![c] = "open"]
  /\ went' = [went EXCEPT ![c] = IF installed THEN plugin ELSE "platform"]
  /\ send_outbound("call", c, plugin = "remote", remote_calls \cup {c}, remote_streams \cup {c})
  /\ UNCHANGED <<installed, serving, inVars, answered>>

\* The caller takes the answer, and cannot cancel any more.
Await(c) ==
  /\ own[c] = "done"
  /\ own' = [own EXCEPT ![c] = "awaited"]
  /\ UNCHANGED <<installed, tables, lane, went, serving, inVars, answered>>

\* Variant: Cancels are looked up among the streams of this runtime's peers only.
CancelByStream(c) ==
  /\ own[c] \in {"open", "done"}
  /\ own' = [own EXCEPT ![c] = "dropped"]
  /\ send_outbound("cancel", c, c \in remote_streams \ remote_calls,
                   remote_calls \ {c}, remote_streams \ {c})
  /\ UNCHANGED <<installed, went, serving, inVars, answered>>

\* The handle is dropped, perhaps with the answer in it.
Cancel(c) ==
  /\ own[c] \in {"open", "done"}
  /\ own' = [own EXCEPT ![c] = "dropped"]
  /\ send_outbound("cancel", c, c \in remote_calls, remote_calls \ {c}, remote_streams \ {c})
  /\ UNCHANGED <<installed, went, serving, inVars, answered>>

\* Variant: the answer removes what was noted down about the call.
PeerAnswersForgetting(p, c) ==
  /\ c \in serving[p]
  /\ serving' = [serving EXCEPT ![p] = @ \ {c}]
  /\ own' = [own EXCEPT ![c] = IF @ = "open" THEN "done" ELSE @]
  /\ remote_calls' = remote_calls \ {c}
  /\ UNCHANGED <<installed, remote_streams, lane, went, inVars, answered>>

\* A peer answers: the answer is delivered and the tables keep their entries.
PeerAnswers(p, c) ==
  /\ c \in serving[p]
  /\ serving' = [serving EXCEPT ![p] = @ \ {c}]
  /\ own' = [own EXCEPT ![c] = IF @ = "open" THEN "done" ELSE @]
  /\ UNCHANGED <<installed, tables, lane, went, inVars, answered>>

\* A peer takes the next frame.  It drops what it has no use for.
PeerTakes(p) ==
  /\ lane[p] # <<>>
  /\ lane' = [lane EXCEPT ![p] = Tail(@)]
  /\ LET frame == Head(lane[p]) IN
     /\ serving' = [serving EXCEPT ![p] =
          CASE frame.kind = "call" -> @ \cup {frame.id}
            [] frame.kind = "cancel" -> @ \ {frame.id}
            [] OTHER -> @]
     /\ answered' = IF frame.kind \in {"respond", "end"} /\ from[frame.id] = p
                    THEN answered \cup {frame.id} ELSE answered
  /\ UNCHANGED <<installed, tables, ownVars, inVars>>
-----------------------------------------------------------------------------
(* Calls of the peers.                                                     *)

mark_call_remote(n) ==
  remote_calls' = remote_calls \cup {n} /\ remote_streams' = remote_streams \cup {n}

\* A call comes in, and a host starts on it.  Who injects frames of the other
\* process may note the call down first; the runtime itself does not.
dispatch_inbound(n, p, mark) ==
  /\ inbound[n] = "none"
  /\ inbound' = [inbound EXCEPT ![n] = "running"]
  /\ from' = [from EXCEPT ![n] = p]
  /\ IF mark THEN marked' = marked \cup {n} /\ mark_call_remote(n) ELSE UNCHANGED <<marked, tables>>
  /\ UNCHANGED <<installed, lane, ownVars, serving, answered>>

\* Its Cancel comes in before the host is done: nothing will be said.
cancel_hosted(n) ==
  /\ inbound[n] = "running"
  /\ inbound' = [inbound EXCEPT ![n] = "cancelled"]
  /\ UNCHANGED <<installed, tables, lane, ownVars, serving, from, marked, answered>>

\* This runtime waits for an answer to the same number, and takes this one.
has_pending(n) == n \in Own /\ own[n] = "open"

\* The host answers, or refuses to open the stream.
send_respond(n) ==
  /\ inbound[n] = "running"
  /\ inbound' = [inbound EXCEPT ![n] = "over"]
  /\ IF has_pending(n)
     THEN own' = [own EXCEPT ![n] = "done"] /\ UNCHANGED <<tables, lane>>
     ELSE /\ send_outbound("respond", n, n \in remote_calls, remote_calls \ {n}, remote_streams)
          /\ UNCHANGED own
  /\ UNCHANGED <<installed, went, serving, from, marked, answered>>

StreamOpened(n) ==
  /\ inbound[n] = "running" /\ n \in Opening
  /\ inbound' = [inbound EXCEPT ![n] = "pumping"]
  /\ UNCHANGED <<installed, tables, lane, ownVars, serving, from, marked, answered>>

\* An item; the model has one under way to a peer at a time, and leaves out those
\* that a stream of this runtime with the same number takes.
send_event(n) ==
  /\ inbound[n] = "pumping" /\ ~has_pending(n)
  /\ \A p \in Peers : \A i \in DOMAIN lane[p] : lane[p][i] # [kind |-> "event", id |-> n]
  /\ send_outbound("event", n, n \in remote_streams, remote_calls, remote_streams)
  /\ UNCHANGED <<installed, ownVars, serving, inVars, answered>>

send_stream_end(n) ==
  /\ inbound[n] = "pumping"
  /\ inbound' = [inbound EXCEPT ![n] = "over"]
  /\ IF has_pending(n)
     THEN own' = [own EXCEPT ![n] = "done"] /\ UNCHANGED <<tables, lane>>
     ELSE /\ send_outbound("end", n, n \in remote_streams, remote_calls, remote_streams \ {n})
          /\ UNCHANGED own
  /\ UNCHANGED <<installed, went, serving, from, marked, answered>>
-----------------------------------------------------------------------------
HostRuns(n) == send_respond(n) \/ StreamOpened(n) \/ send_stream_end(n)

Next ==
  \/ install_remote_envelope_sink
  \/ \E c \in Own, p \in Peers : Call(c, p) \/ PeerAnswers(p, c)
  \/ \E c \in Own : Await(c) \/ Cancel(c)
  \/ \E p \in Peers : PeerTakes(p)
  \/ \E n \in Inbound : dispatch_inbound(n, "platform", FALSE)
  \/ \E n \in Inbound, mark \in BOOLEAN : installed /\ dispatch_inbound(n, "remote", mark)
  \/ \E n \in Inbound : HostRuns(n) \/ cancel_hosted(n) \/ send_event(n)

\* Frames arrive, and hosts of this runtime come to an end.  A peer may take
\* for ever over an answer.
Fairness ==
  /\ \A p \in Peers : WF_vars(PeerTakes(p))
  /\ \A n \in Inbound : WF_vars(HostRuns(n))

Spec == Init /\ [][Next]_vars /\ Fairness
-----------------------------------------------------------------------------
Frames(p) == {lane[p][i] : i \in DOMAIN lane[p]}

\* The peer a number's answers belong to, where the runtime was told.
Origin(n) == IF from[n] = "remote" /\ n \notin marked THEN "unknown" ELSE from[n]

\* Every frame about a call goes where the call went: its Cancel follows it
\* even when its answer came in between, and although the sink was installed
\* meanwhile (752-765, 795-802).
CancelFollowsCall ==
  \A p \in Peers : \A f \in Frames(p) :
    f.kind \in {"call", "cancel"} /\ f.id \notin Inbound => p = went[f.id]

\* Responses, items and ends go back where the call came from, and the end of a
\* stream after all its items (791-807, 1011-1058).
AnswersGoBack ==
  \A p \in Peers : \A i \in DOMAIN lane[p] :
    LET f == lane[p][i] IN
    f.kind \in {"respond", "event", "end"} /\ f.id \notin Own /\ Origin(f.id) # "unknown" =>
      /\ p = Origin(f.id)
      /\ f.kind = "end" => \A j \in DOMAIN lane[p] : lane[p][j].id = f.id => j <= i

\* No peer works for ever on a call whose handle was dropped.
DroppedIsStopped ==
  \A c \in Own \ Inbound :
    own[c] = "dropped" ~> [](c \notin serving["remote"] \cup serving["platform"])

\* The peer that made a call gets its end, unless it cancelled it.
InboundSettles ==
  \A n \in Inbound \ Own :
    (inbound[n] = "running" /\ Origin(n) # "unknown") ~> (n \in answered \/ inbound[n] = "cancelled")

\* The variables have their types, and frames about a call follow it both ways.
FramesFollow == TypeOK /\ CancelFollowsCall /\ AnswersGoBack

\* Neither peer is left alone: not with a call nobody waits for, nor waiting.
PeersSettle == DroppedIsStopped /\ InboundSettles
=============================================================================
