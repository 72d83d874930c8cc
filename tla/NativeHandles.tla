--------------------------- MODULE NativeHandles ---------------------------
(***************************************************************************)
(* Resources of hosts in the same process that clients own through a       *)
(* NativeHandle: sessions of the desktop camera                            *)
(* (plugins/camera/src/desktop/backend.rs) and files of the desktop picker *)
(* (plugins/file-picker/src/desktop.rs).  Dropping a handle runs every     *)
(* release hook of the runtime with the handle's bare number, and each     *)
(* hook takes what its host has under it.  A camera session also feeds     *)
(* frames into a bounded channel, which its streams share.                 *)
(***************************************************************************)
EXTENDS Naturals, Sequences, FiniteSets

CONSTANTS
  Cameras,    \* instances of DesktopCamera, each with a client of its own
  Picker,     \* the DesktopFilePicker
  Requests,   \* opens and picks, each at most one resource
  HostOf,     \* the host each of them is made to
  Watched,    \* the session whose frames are modelled
  Readers,    \* its streams
  Depth,      \* frame_pool_depth
  MaxFrames   \* bound: frames captured

Hosts == Cameras \cup {Picker}

ASSUME NativeHandlesAssumption ==
  /\ Picker \notin Cameras
  /\ HostOf \in [Requests -> Hosts]
  /\ Watched \in Requests /\ HostOf[Watched] \in Cameras
  /\ Depth \in Nat \ {0} /\ MaxFrames \in Nat

VARIABLES
  next,       \* NEXT_SESSION of all cameras, and next_id of the picker
  table,      \* sessions and files in the tables of their hosts
  hooks,      \* hosts with a hook in native_handle_release_hooks; the
              \* application installs the picker's when it starts
  destroyed,  \* cameras whose client was dropped
  host,       \* the host's part of a request
  client,     \* the client's part of it
  num,        \* the number of its handle
  todo,       \* hooks that a drop still has to run
  seq,        \* frames captured of the watched session
  dropped,    \* frames dropped since the last that was stamped
  sent,       \* frames that went into the channel
  taken,      \* how many of them were read
  reader      \* the state of a stream

handleVars == <<next, table, hooks, destroyed, host, client, num, todo>>
frameVars == <<seq, dropped, sent, taken, reader>>
vars == <<handleVars, frameVars>>

Frame == [seq : 0..MaxFrames, dropped_before : 0..MaxFrames]

TypeOK ==
  /\ DOMAIN next = {"session", "file"} /\ \A k \in DOMAIN next : next[k] \in Nat
  /\ table \subseteq {r \in Requests : host[r] = "done" /\ num[r] > 0}
  /\ hooks \subseteq Hosts /\ destroyed \subseteq Cameras
  /\ host \in [Requests -> {"idle", "called", "hooked", "done"}]
  /\ client \in [Requests ->
       {"idle", "waiting", "owned", "abandoned", "releasing", "closing", "closed",
        "gone"}]
  /\ num \in [Requests -> Nat] /\ todo \in [Requests -> SUBSET Hosts]
  /\ seq \in 0..MaxFrames /\ dropped \in 0..MaxFrames
  /\ sent \in Seq(Frame) /\ taken \in 0..Len(sent)
  /\ Len(sent) - taken <= Depth
  /\ reader \in [Readers -> {"none", "open", "ended"}]

Init ==
  /\ next = [session |-> 1, file |-> 1]
  /\ table = {}
  /\ destroyed = {}
  /\ hooks = {Picker}
  /\ host = [r \in Requests |-> "idle"]
  /\ client = [r \in Requests |-> "idle"]
  /\ num = [r \in Requests |-> 0]
  /\ todo = [r \in Requests |-> {}]
  /\ seq = 0 /\ dropped = 0 /\ sent = <<>> /\ taken = 0
  /\ reader = [u \in Readers |-> "none"]

\* What host h has under number n.
Entry(h, n) == {r \in table : HostOf[r] = h /\ num[r] = n}

-----------------------------------------------------------------------------
(* The host: a session is opened, or a file picked.                        *)

Counter(h) == IF h \in Cameras THEN "session" ELSE "file"

\* The client calls open_owned or pick_file_owned.
Call(r) ==
  /\ client[r] = "idle" /\ HostOf[r] \notin destroyed
  /\ client' = [client EXCEPT ![r] = "waiting"]
  /\ host' = [host EXCEPT ![r] = "called"]
  /\ UNCHANGED <<next, table, hooks, destroyed, num, todo, frameVars>>

\* A camera's first session tries to install its hook, once and for all.
install_release_hook(r) ==
  /\ host[r] = "called" /\ HostOf[r] \in Cameras
  /\ hooks' = hooks \cup {HostOf[r]}
  /\ host' = [host EXCEPT ![r] = "hooked"]
  /\ UNCHANGED <<next, table, destroyed, client, num, todo, frameVars>>

\* Variant: every host numbers what it has.
AllocInTable(r) ==
  LET h == HostOf[r]
      n == Cardinality({q \in table : HostOf[q] = h}) + 1 IN
  /\ host[r] = IF h \in Cameras THEN "hooked" ELSE "called"
  /\ num' = [num EXCEPT ![r] = n]
  /\ table' = table \cup {r}
  /\ host' = [host EXCEPT ![r] = "done"]
  /\ UNCHANGED <<next, hooks, destroyed, client, todo, frameVars>>

\* A number is drawn and the resource put into the table.  The sessions of
\* a camera whose client is gone go with the last call that is served.
Alloc(r) ==
  LET h == HostOf[r]
      k == Counter(h) IN
  /\ host[r] = IF h \in Cameras THEN "hooked" ELSE "called"
  /\ next' = [next EXCEPT ![k] = @ + 1]
  /\ num' = [num EXCEPT ![r] = next[k]]
  /\ table' = IF h \in destroyed THEN table ELSE table \cup {r}
  /\ host' = [host EXCEPT ![r] = "done"]
  /\ UNCHANGED <<hooks, destroyed, client, todo, frameVars>>

\* The device does not open, or the user picks nothing.
OpenFails(r) ==
  /\ host[r] = "called"
  /\ host' = [host EXCEPT ![r] = "done"]
  /\ client' = [client EXCEPT ![r] = IF @ = "waiting" THEN "gone" ELSE @]
  /\ UNCHANGED <<next, table, hooks, destroyed, num, todo, frameVars>>

-----------------------------------------------------------------------------
(* The client.                                                             *)

\* The answer is in and the number is adopted by a NativeHandle.
Adopt(r) ==
  /\ client[r] = "waiting" /\ host[r] = "done"
  /\ client' = [client EXCEPT ![r] = "owned"]
  /\ UNCHANGED <<next, table, hooks, destroyed, host, num, todo, frameVars>>

\* The future of the call is dropped; the host goes on, and nobody adopts
\* what it returns.
Abandon(r) ==
  /\ client[r] = "waiting"
  /\ client' = [client EXCEPT ![r] = "abandoned"]
  /\ UNCHANGED <<next, table, hooks, destroyed, host, num, todo, frameVars>>

\* The handle is dropped: the hooks there are now will be run.
release_native_handle(r) ==
  /\ client[r] = "owned"
  /\ client' = [client EXCEPT ![r] = "releasing"]
  /\ todo' = [todo EXCEPT ![r] = hooks]
  /\ UNCHANGED <<next, table, hooks, destroyed, host, num, frameVars>>

\* A hook takes from its host's table whatever has the number.
RunHook(r, h) ==
  /\ client[r] = "releasing" /\ h \in todo[r]
  /\ table' = table \ Entry(h, num[r])
  /\ todo' = [todo EXCEPT ![r] = @ \ {h}]
  /\ UNCHANGED <<next, hooks, destroyed, host, client, num, frameVars>>

\* The frame that tells the peer follows the hooks; here nobody reads it.
Released(r) ==
  /\ client[r] = "releasing" /\ todo[r] = {}
  /\ client' = [client EXCEPT ![r] = "gone"]
  /\ UNCHANGED <<next, table, hooks, destroyed, host, num, todo, frameVars>>

\* SessionHandle::close keeps the handle's drop from releasing again.
close(r) ==
  /\ client[r] = "owned" /\ HostOf[r] \in Cameras
  /\ client' = [client EXCEPT ![r] = "closing"]
  /\ UNCHANGED <<next, table, hooks, destroyed, host, num, todo, frameVars>>

\* Variant: the stream is stopped and the session kept.
HostCloseStopping(r) ==
  /\ client[r] = "closing"
  /\ client' = [client EXCEPT ![r] = "closed"]
  /\ UNCHANGED <<next, table, hooks, destroyed, host, num, todo, frameVars>>

HostClose(r) ==
  /\ client[r] = "closing"
  /\ table' = table \ Entry(HostOf[r], num[r])
  /\ client' = [client EXCEPT ![r] = "closed"]
  /\ UNCHANGED <<next, hooks, destroyed, host, num, todo, frameVars>>

\* A SessionHandle keeps its client, and so does a call; without them the
\* client may go, and the camera with it, sessions and all.
KeepsClient(r) == client[r] \in {"waiting", "owned", "closing"}

DropClient(h) ==
  /\ h \in Cameras \ destroyed
  /\ \A r \in Requests : HostOf[r] = h => ~KeepsClient(r)
  /\ destroyed' = destroyed \cup {h}
  /\ table' = {r \in table : HostOf[r] # h}
  /\ UNCHANGED <<next, hooks, host, client, num, todo, frameVars>>

-----------------------------------------------------------------------------
(* The frames of the watched session.                                      *)

\* The stream is open before the session is in the table.
Running == host[Watched] = "hooked" \/ Watched \in table

\* The capture thread stamps a frame with the drops since the last stamp
\* and puts it into the channel, or drops it when the channel is full.
Capture ==
  /\ Running /\ seq < MaxFrames
  /\ seq' = seq + 1
  /\ IF Len(sent) - taken < Depth
     THEN /\ sent' = Append(sent, [seq |-> seq, dropped_before |-> dropped])
          /\ dropped' = 0
     ELSE sent' = sent /\ dropped' = 1
  /\ UNCHANGED <<taken, reader, handleVars>>

\* frames(): a session that is gone gives a channel that is closed.
Subscribe(u) ==
  /\ reader[u] = "none" /\ client[Watched] = "owned"
  /\ reader' = [reader EXCEPT ![u] = IF Watched \in table THEN "open" ELSE "ended"]
  /\ UNCHANGED <<seq, dropped, sent, taken, handleVars>>

\* A stream takes the next frame from the one queue all of them share.
Read(u) ==
  /\ reader[u] = "open" /\ taken < Len(sent)
  /\ taken' = taken + 1
  /\ UNCHANGED <<seq, dropped, sent, reader, handleVars>>

\* It ends when the session's sender is gone and the queue is empty.
EndOfStream(u) ==
  /\ reader[u] = "open" /\ taken = Len(sent) /\ Watched \notin table
  /\ reader' = [reader EXCEPT ![u] = "ended"]
  /\ UNCHANGED <<seq, dropped, sent, taken, handleVars>>

\* What follows when the client let r go.
LetGo(r) == Released(r) \/ HostClose(r) \/ \E h \in Hosts : RunHook(r, h)

HandleStep(r) ==
  \/ Call(r) \/ install_release_hook(r) \/ Alloc(r) \/ OpenFails(r)
  \/ Adopt(r) \/ Abandon(r) \/ release_native_handle(r)
  \/ close(r) \/ LetGo(r)

FrameStep(u) == Subscribe(u) \/ Read(u) \/ EndOfStream(u)

Next ==
  \/ \E r \in Requests : HandleStep(r)
  \/ \E h \in Cameras : DropClient(h)
  \/ Capture
  \/ \E u \in Readers : FrameStep(u)

Spec == Init /\ [][Next]_vars

\* Hosts serve, hooks run and open streams are read to their end; nothing
\* is asked of clients, users and devices.
\* A resource is let go in finitely many steps: one condition does for all.
Fairness ==
  /\ WF_vars(\E r \in Requests : LetGo(r))
  /\ \A u \in Readers : WF_vars(Read(u) \/ EndOfStream(u))

FairSpec == Spec /\ Fairness

-----------------------------------------------------------------------------
(* Properties.                                                             *)

\* A resource of the other kind was let go under the number of r, and r's host
\* ran its hook then: sessions and files are both numbered from 1.
TakenFor(q, r) ==
  /\ Counter(HostOf[q]) # Counter(HostOf[r]) /\ num[q] = num[r]
  /\ client[q] \in {"releasing", "gone"} /\ HostOf[r] \notin todo[q]

\* What a client owns is in its host's table until the client lets it go: no
\* release of another handle takes it away, but that of a handle of the other
\* kind with the same number.
OwnedIsLive ==
  \A r \in Requests :
    client[r] = "owned" => r \in table \/ \E q \in Requests : TakenFor(q, r)

\* What does not hold: that the drop of another handle never takes it.  ("Hooks
\* that inspect handle ids not owned by their host should be no-ops",
\* runtime.rs:499; the numbers do not tell.)
HooksAreNoOps == \A r \in Requests : client[r] = "owned" => r \in table

\* What was let go, by close or by a drop, is freed, "dropping the handle
\* releases the native session deterministically", lib.rs:13, whichever of
\* several cameras and hooks it belongs to.
ReleasedIsFreed ==
  \A r \in Requests : client[r] \in {"closed", "gone"} => r \notin table

\* A frame says that frames before it are missing exactly if some are, and
\* never more of them than there are.  It may say fewer: the count that a
\* dropped frame was stamped with is lost with it.
GapIsReported ==
  \A i \in 1..Len(sent) - 1 :
    LET gap == sent[i + 1].seq - sent[i].seq - 1
        said == sent[i + 1].dropped_before IN
    /\ said = 0 <=> gap = 0
    /\ said <= gap

\* "The receiver closes when the session is closed", lib.rs:641: once the
\* client lets the session go its streams end, with what was queued read.
ReleasedStreamsEnd ==
  client[Watched] \in {"closing", "releasing"} ~>
    \A u \in Readers : reader[u] # "open"

\* The variables have their types, and the hosts' tables hold what clients
\* own, numbers of two kinds aside, and nothing they let go.
TablesMatchHandles == TypeOK /\ OwnedIsLive /\ ReleasedIsFreed
=============================================================================
