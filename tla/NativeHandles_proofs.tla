------------------------ MODULE NativeHandles_proofs ------------------------
(***************************************************************************)
(* A handle that is dropped runs the hooks of all hosts with its bare      *)
(* number.  Whatever is opened, abandoned, closed and released, by how     *)
(* many clients of how many cameras, nothing outlives its handle, and no   *)
(* resource goes before its handle does but for a handle of the other kind *)
(* with the same number.  And the files of the desktop picker by           *)
(* themselves: whoever owns one is served, and a descriptor has one owner. *)
(* And the sessions of one camera host by themselves: what runs belongs to *)
(* a session, and delivers what its client was told.                       *)
(***************************************************************************)
EXTENDS MCNativeHandles, FiniteSetTheorems, SequenceTheorems, WellFoundedInduction, TLAPS

\* The types of handleVars ...
HandleTypes ==
  /\ DOMAIN next = {"session", "file"} /\ \A k \in DOMAIN next : next[k] \in Nat
  /\ table \subseteq {r \in Requests : host[r] = "done" /\ num[r] > 0}
  /\ hooks \subseteq Hosts /\ destroyed \subseteq Cameras
  /\ host \in [Requests -> {"idle", "called", "hooked", "done"}]
  /\ client \in [Requests ->
       {"idle", "waiting", "owned", "abandoned", "releasing", "closing", "closed",
        "gone"}]
  /\ num \in [Requests -> Nat] /\ todo \in [Requests -> SUBSET Hosts]

\* ... and of frameVars.
FrameTypes ==
  /\ seq \in 0..MaxFrames /\ dropped \in 0..MaxFrames
  /\ sent \in Seq(Frame) /\ taken \in 0..Len(sent)
  /\ Len(sent) - taken <= Depth
  /\ reader \in [Readers -> {"none", "open", "ended"}]

\* A number is drawn when a request is served, and never twice of one counter.
Numbers ==
  /\ \A k \in DOMAIN next : next[k] > 0
  /\ \A r \in Requests :
       /\ host[r] # "done" => num[r] = 0
       /\ num[r] < next[Counter(HostOf[r])]
  /\ \A q, r \in Requests :
       q # r /\ Counter(HostOf[q]) = Counter(HostOf[r]) /\ num[q] = num[r] => num[q] = 0

\* How far client and host are with a request.
Phase(r) ==
  /\ client[r] = "idle" <=> host[r] = "idle"
  /\ client[r] \in {"owned", "closing", "releasing"} => num[r] > 0
  /\ client[r] = "waiting" /\ host[r] = "done" => num[r] > 0
  /\ client[r] \in {"closed", "gone"} => host[r] = "done"
  /\ host[r] = "hooked" \/ num[r] > 0 => HostOf[r] \in hooks
  /\ KeepsClient(r) => HostOf[r] \notin destroyed

\* What is let go is freed, or its host's hook has still to run.
Leaving(r) ==
  r \in table =>
    /\ client[r] \notin {"closed", "gone"}
    /\ client[r] = "releasing" => HostOf[r] \in todo[r]

HandleInv ==
  /\ HandleTypes /\ Numbers /\ Picker \in hooks
  /\ \A r \in Requests : Phase(r) /\ Leaving(r)

\* What a client will own or owns is in the table from when it has a number, but
\* for what was taken for another.
Held ==
  \A r \in Requests :
    KeepsClient(r) /\ num[r] > 0 => r \in table \/ \E q \in Requests : TakenFor(q, r)

\* A dropped frame is counted until the next one is stamped.
FrameInv ==
  /\ FrameTypes
  /\ Len(sent) = 0 => seq = 0 /\ dropped = 0
  /\ Len(sent) > 0 =>
       /\ sent[Len(sent)].seq < seq
       /\ dropped = 0 <=> sent[Len(sent)].seq = seq - 1
       /\ dropped <= seq - 1 - sent[Len(sent)].seq
  /\ GapIsReported
-----------------------------------------------------------------------------
(* Handles.                                                                *)

LEMMA HandlesStart == Init => HandleInv /\ Held
BY NativeHandlesAssumption
   DEF Init, HandleInv, Held, HandleTypes, Numbers, Phase, Leaving, KeepsClient, Hosts, Counter

LEMMA CallKeeps ==
  ASSUME HandleInv, NEW r \in Requests, Call(r)
  PROVE  HandleInv'
<1> USE NativeHandlesAssumption
<1>1. HandleTypes'
  BY DEF HandleInv, HandleTypes, Phase, Call
<1>2. Numbers'
  BY DEF HandleInv, HandleTypes, Numbers, Phase, Counter, Call
<1>3. ASSUME NEW q \in Requests PROVE Phase(q)' /\ Leaving(q)'
  BY DEF HandleInv, HandleTypes, Numbers, Phase, Leaving, KeepsClient, Call
<1> QED BY <1>1, <1>2, <1>3 DEF HandleInv, Call

LEMMA InstallKeeps ==
  ASSUME HandleInv, NEW r \in Requests, install_release_hook(r)
  PROVE  HandleInv'
<1> USE NativeHandlesAssumption
<1>1. HandleTypes'
  BY DEF HandleInv, HandleTypes, install_release_hook, Hosts
<1>2. Numbers'
  BY DEF HandleInv, HandleTypes, Numbers, install_release_hook
<1>3. ASSUME NEW q \in Requests PROVE Phase(q)' /\ Leaving(q)'
  BY DEF HandleInv, HandleTypes, Phase, Leaving, KeepsClient, install_release_hook
<1> QED BY <1>1, <1>2, <1>3 DEF HandleInv, install_release_hook

LEMMA AllocKeeps ==
  ASSUME HandleInv, NEW r \in Requests, Alloc(r)
  PROVE  HandleInv'
<1> USE NativeHandlesAssumption
<1> DEFINE k == Counter(HostOf[r])
<1>1. /\ next' = [next EXCEPT ![k] = @ + 1]
      /\ num' = [num EXCEPT ![r] = next[k]] /\ host' = [host EXCEPT ![r] = "done"]
      /\ table' \subseteq table \cup {r}
      /\ UNCHANGED <<hooks, destroyed, client, todo>>
  BY DEF Alloc
<1>2. k \in DOMAIN next /\ next[k] \in Nat /\ next[k] > 0
  BY DEF HandleInv, HandleTypes, Numbers, Counter
<1>3. \A q \in Requests : num'[q] = IF q = r THEN next[k] ELSE num[q]
  BY <1>1 DEF HandleInv, HandleTypes
<1>4. \A c \in DOMAIN next : next'[c] = IF c = k THEN next[c] + 1 ELSE next[c]
  BY <1>1 DEF HandleInv, HandleTypes
<1>5. \A q \in Requests : Counter(HostOf[q]) \in DOMAIN next
  BY DEF HandleInv, HandleTypes, Counter
<1>6. DOMAIN next' = DOMAIN next
  BY <1>1
<1>7. HandleTypes'
  BY <1>1, <1>2, <1>3, <1>4, <1>6 DEF HandleInv, HandleTypes
<1>8. Numbers'
  <2>1. \A c \in DOMAIN next' : next'[c] > 0
    BY <1>2, <1>4, <1>6 DEF HandleInv, HandleTypes, Numbers
  <2>2. ASSUME NEW q \in Requests
        PROVE  /\ host'[q] # "done" => num'[q] = 0
               /\ num'[q] < next'[Counter(HostOf[q])]
    BY <1>1, <1>2, <1>3, <1>4, <1>5 DEF HandleInv, HandleTypes, Numbers
  <2>3. ASSUME NEW p \in Requests, NEW q \in Requests, p # q,
               Counter(HostOf[p]) = Counter(HostOf[q]), num'[p] = num'[q]
        PROVE  num'[p] = 0
    BY <1>2, <1>3, <2>3 DEF HandleInv, HandleTypes, Numbers
  <2> QED BY <2>1, <2>2, <2>3 DEF Numbers, Counter
<1>9. ASSUME NEW q \in Requests PROVE Phase(q)' /\ Leaving(q)'
  <2>1. CASE q # r
    <3>1. UNCHANGED <<client[q], host[q], num[q], todo[q], hooks, destroyed, q \in table>>
      BY <1>1, <1>3, <2>1 DEF HandleInv, HandleTypes, Alloc
    <3> QED BY <3>1 DEF HandleInv, Phase, Leaving, KeepsClient
  <2>2. CASE q = r
    <3>1. Phase(r) /\ (host[r] # "done" => num[r] = 0)
      BY DEF HandleInv, Numbers
    <3>2. host'[r] = "done" /\ num'[r] > 0
      BY <1>1, <1>2, <1>3 DEF HandleInv, HandleTypes
    <3>3. client'[r] = client[r] /\ client[r] \in {"waiting", "abandoned"}
      <4>1. host[r] \notin {"idle", "done"}
        BY DEF Alloc
      <4>2. client[r] \notin {"idle", "owned", "closing", "releasing", "closed", "gone"}
        BY <3>1, <4>1 DEF Phase
      <4>3. client[r] \in
              {"idle", "waiting", "owned", "abandoned", "releasing", "closing", "closed", "gone"}
        BY DEF HandleInv, HandleTypes
      <4> QED BY <1>1, <4>2, <4>3
    <3>4. HostOf[r] \in hooks'
      <4>1. HostOf[r] \in Cameras \/ HostOf[r] = Picker
        BY DEF Hosts
      <4>2. HostOf[r] \in Cameras => host[r] = "hooked"
        BY DEF Alloc
      <4>3. HostOf[r] \in hooks
        BY <3>1, <4>1, <4>2 DEF HandleInv, Phase
      <4> QED BY <1>1, <4>3
    <3> QED BY <1>1, <2>2, <3>1, <3>2, <3>3, <3>4 DEF Phase, Leaving, KeepsClient
  <2> QED BY <2>1, <2>2
<1> QED BY <1>1, <1>7, <1>8, <1>9 DEF HandleInv

LEMMA OpenFailsKeeps ==
  ASSUME HandleInv, NEW r \in Requests, OpenFails(r)
  PROVE  HandleInv'
<1> USE NativeHandlesAssumption
<1>1. HandleTypes'
  BY DEF HandleInv, HandleTypes, OpenFails
<1>2. Numbers'
  BY DEF HandleInv, HandleTypes, Numbers, OpenFails
<1>3. ASSUME NEW q \in Requests PROVE Phase(q)' /\ Leaving(q)'
  BY DEF HandleInv, HandleTypes, Numbers, Phase, Leaving, KeepsClient, OpenFails
<1> QED BY <1>1, <1>2, <1>3 DEF HandleInv, OpenFails

\* What the client does by itself leaves the hosts as they are.
LEMMA ClientKeeps ==
  ASSUME HandleInv, NEW r \in Requests,
         Adopt(r) \/ Abandon(r) \/ release_native_handle(r) \/ close(r) \/ Released(r)
  PROVE  HandleInv'
<1> USE NativeHandlesAssumption
<1>1. UNCHANGED <<next, table, hooks, destroyed, host, num>>
  BY DEF Adopt, Abandon, release_native_handle, close, Released
<1>2. HandleTypes'
  BY DEF HandleInv, HandleTypes, Adopt, Abandon, release_native_handle, close, Released
<1>3. Numbers'
  BY <1>1 DEF HandleInv, Numbers, Counter
<1>4. ASSUME NEW q \in Requests PROVE Phase(q)' /\ Leaving(q)'
  <2>1. CASE q # r
    <3>1. UNCHANGED <<client[q], todo[q]>>
      BY <2>1 DEF HandleInv, HandleTypes, Adopt, Abandon, release_native_handle, close, Released
    <3> QED BY <1>1, <3>1 DEF HandleInv, Phase, Leaving, KeepsClient
  <2>2. CASE q = r
    <3>1. CASE Adopt(r)
      BY <1>1, <2>2, <3>1 DEF HandleInv, HandleTypes, Phase, Leaving, KeepsClient, Adopt
    <3>2. CASE Abandon(r)
      BY <1>1, <2>2, <3>2 DEF HandleInv, HandleTypes, Phase, Leaving, KeepsClient, Abandon
    <3>3. CASE release_native_handle(r)
      BY <1>1, <2>2, <3>3
         DEF HandleInv, HandleTypes, Phase, Leaving, KeepsClient, release_native_handle
    <3>4. CASE close(r)
      BY <1>1, <2>2, <3>4 DEF HandleInv, HandleTypes, Phase, Leaving, KeepsClient, close
    <3>5. CASE Released(r)
      BY <1>1, <2>2, <3>5 DEF HandleInv, HandleTypes, Numbers, Phase, Leaving, KeepsClient, Released
    <3> QED BY <3>1, <3>2, <3>3, <3>4, <3>5
  <2> QED BY <2>1, <2>2
<1> QED BY <1>1, <1>2, <1>3, <1>4 DEF HandleInv

\* A resource that goes is of the host, and has the number, that were asked for.
LEMMA RunHookKeeps ==
  ASSUME HandleInv, NEW r \in Requests, NEW h \in Hosts, RunHook(r, h)
  PROVE  HandleInv'
<1> USE NativeHandlesAssumption
<1>1. /\ table' = table \ Entry(h, num[r]) /\ todo' = [todo EXCEPT ![r] = @ \ {h}]
      /\ UNCHANGED <<next, hooks, destroyed, host, client, num>>
  BY DEF RunHook
<1>2. HandleTypes'
  BY <1>1 DEF HandleInv, HandleTypes
<1>3. Numbers'
  BY <1>1 DEF HandleInv, Numbers, Counter
<1>4. ASSUME NEW q \in Requests PROVE Phase(q)' /\ Leaving(q)'
  <2>1. Phase(q)'
    BY <1>1 DEF HandleInv, Phase, KeepsClient
  <2>2. CASE q # r
    BY <1>1, <2>1, <2>2 DEF HandleInv, HandleTypes, Leaving
  <2>3. CASE q = r
    <3>1. r \in table' => r \in table /\ HostOf[r] # h
      BY <1>1 DEF Entry
    <3> QED BY <1>1, <2>1, <2>3, <3>1 DEF HandleInv, HandleTypes, Leaving
  <2> QED BY <2>2, <2>3
<1> QED BY <1>1, <1>2, <1>3, <1>4 DEF HandleInv

LEMMA HostCloseKeeps ==
  ASSUME HandleInv, NEW r \in Requests, HostClose(r)
  PROVE  HandleInv'
<1> USE NativeHandlesAssumption
<1>1. /\ table' = table \ Entry(HostOf[r], num[r])
      /\ client[r] = "closing" /\ client' = [client EXCEPT ![r] = "closed"]
      /\ UNCHANGED <<next, hooks, destroyed, host, num, todo>>
  BY DEF HostClose
<1>2. HandleTypes'
  BY <1>1 DEF HandleInv, HandleTypes
<1>3. Numbers'
  BY <1>1 DEF HandleInv, Numbers, Counter
<1>4. r \notin table' /\ host[r] = "done"
  BY <1>1 DEF HandleInv, HandleTypes, Numbers, Phase, Entry
<1>5. ASSUME NEW q \in Requests PROVE Phase(q)' /\ Leaving(q)'
  BY <1>1, <1>4 DEF HandleInv, HandleTypes, Phase, Leaving, KeepsClient
<1> QED BY <1>1, <1>2, <1>3, <1>5 DEF HandleInv

LEMMA DropClientKeeps ==
  ASSUME HandleInv, NEW h \in Cameras, DropClient(h)
  PROVE  HandleInv'
<1> USE NativeHandlesAssumption
<1>1. HandleTypes'
  BY DEF HandleInv, HandleTypes, DropClient
<1>2. Numbers'
  BY DEF HandleInv, Numbers, Counter, DropClient
<1>3. ASSUME NEW q \in Requests PROVE Phase(q)' /\ Leaving(q)'
  BY DEF HandleInv, HandleTypes, Phase, Leaving, KeepsClient, DropClient
<1> QED BY <1>1, <1>2, <1>3 DEF HandleInv, DropClient

LEMMA FramesKeepHandles ==
  ASSUME HandleInv, UNCHANGED handleVars
  PROVE  HandleInv' /\ (Held => Held')
BY DEF handleVars, HandleInv, Held, TakenFor, HandleTypes, Numbers, Phase, Leaving, KeepsClient, Counter

LEMMA HandlesKeep ==
  ASSUME HandleInv, [Next]_vars
  PROVE  HandleInv'
<1>1. ASSUME NEW r \in Requests, HandleStep(r) PROVE HandleInv'
  <2>1. CASE Call(r) BY <2>1, CallKeeps
  <2>2. CASE install_release_hook(r) BY <2>2, InstallKeeps
  <2>3. CASE Alloc(r) BY <2>3, AllocKeeps
  <2>4. CASE OpenFails(r) BY <2>4, OpenFailsKeeps
  <2>5. CASE Adopt(r) \/ Abandon(r) \/ release_native_handle(r) \/ close(r) \/ Released(r)
    BY <2>5, ClientKeeps
  <2>6. CASE \E h \in Hosts : RunHook(r, h) BY <2>6, RunHookKeeps
  <2>7. CASE HostClose(r) BY <2>7, HostCloseKeeps
  <2> QED BY <1>1, <2>1, <2>2, <2>3, <2>4, <2>5, <2>6, <2>7 DEF HandleStep, LetGo
<1>2. ASSUME NEW h \in Cameras, DropClient(h) PROVE HandleInv'
  BY <1>2, DropClientKeeps
<1>3. ASSUME Capture PROVE HandleInv'
  BY <1>3, FramesKeepHandles DEF Capture
<1>4. ASSUME NEW u \in Readers, FrameStep(u) PROVE HandleInv'
  BY <1>4, FramesKeepHandles DEF FrameStep, Subscribe, Read, EndOfStream
<1>5. ASSUME UNCHANGED vars PROVE HandleInv'
  BY <1>5, FramesKeepHandles DEF vars
<1> QED BY <1>1, <1>2, <1>3, <1>4, <1>5 DEF Next
-----------------------------------------------------------------------------
(* Frames.                                                                 *)

LEMMA FramesStart == Init => FrameInv
BY NativeHandlesAssumption DEF Init, FrameInv, FrameTypes, GapIsReported

\* A frame that goes into the channel tells of those since the last, one that
\* does not is counted.
LEMMA CaptureKeeps ==
  ASSUME FrameInv, Capture
  PROVE  FrameInv'
<1> USE NativeHandlesAssumption
<1>1. sent \in Seq(Frame) /\ Len(sent) \in Nat /\ seq \in Nat /\ dropped \in Nat /\ taken \in Nat
  BY DEF FrameInv, FrameTypes
<1>2. \A i \in 1..Len(sent) : sent[i] \in Frame
  BY <1>1
<1>3. \A i \in 1..Len(sent) : sent[i].seq \in Nat /\ sent[i].dropped_before \in Nat
  BY <1>2 DEF Frame
<1>4. CASE Len(sent) - taken < Depth
  <2> DEFINE f == [seq |-> seq, dropped_before |-> dropped]
  <2>1. sent' = Append(sent, f) /\ dropped' = 0 /\ seq' = seq + 1 /\ UNCHANGED <<taken, reader>>
    BY <1>4 DEF Capture
  <2>2. f \in Frame /\ f.seq = seq /\ f.dropped_before = dropped
    BY DEF FrameInv, FrameTypes, Frame
  <2>3. /\ sent' \in Seq(Frame) /\ Len(sent') = Len(sent) + 1
        /\ \A i \in 1..Len(sent) : sent'[i] = sent[i]
        /\ sent'[Len(sent) + 1] = f
    BY <1>1, <2>1, <2>2, AppendProperties
  <2> HIDE DEF f
  <2>4. FrameTypes'
    BY <1>1, <1>4, <2>1, <2>3 DEF FrameInv, FrameTypes, Capture
  <2>5. GapIsReported'
    <3> SUFFICES ASSUME NEW i \in 1..Len(sent)
                 PROVE  LET gap == sent'[i + 1].seq - sent'[i].seq - 1
                            said == sent'[i + 1].dropped_before IN
                        (said = 0 <=> gap = 0) /\ said <= gap
      BY <1>1, <2>3 DEF GapIsReported
    <3>1. CASE i < Len(sent)
      <4>1. i \in 1..Len(sent) - 1 /\ i + 1 \in 1..Len(sent)
        BY <1>1, <3>1
      <4> QED BY <2>3, <4>1 DEF FrameInv, GapIsReported
    <3>2. CASE i = Len(sent)
      <4>1. sent'[i] = sent[i] /\ sent'[i + 1].seq = seq /\ sent'[i + 1].dropped_before = dropped
        BY <2>2, <2>3, <3>2
      <4> QED BY <1>1, <1>3, <3>2, <4>1 DEF FrameInv
    <3> QED BY <1>1, <3>1, <3>2
  <2>6. sent'[Len(sent')].seq = seq /\ Len(sent') > 0
    BY <1>1, <2>2, <2>3
  <2> QED BY <1>1, <2>1, <2>4, <2>5, <2>6 DEF FrameInv
<1>5. CASE ~(Len(sent) - taken < Depth)
  <2>1. sent' = sent /\ dropped' = 1 /\ seq' = seq + 1 /\ UNCHANGED <<taken, reader>>
    BY <1>5 DEF Capture
  <2>2. Len(sent) > 0
    BY <1>1, <1>5
  <2>3. sent[Len(sent)].seq \in Nat
    BY <1>1, <1>3, <2>2
  <2>4. FrameTypes'
    BY <1>1, <2>1 DEF FrameInv, FrameTypes, Capture
  <2>5. GapIsReported'
    BY <2>1 DEF FrameInv, GapIsReported
  <2> QED BY <1>1, <2>1, <2>2, <2>3, <2>4, <2>5 DEF FrameInv
<1> QED BY <1>4, <1>5

LEMMA ReadersKeep ==
  ASSUME FrameInv, NEW u \in Readers, FrameStep(u)
  PROVE  FrameInv'
<1>1. UNCHANGED <<seq, dropped, sent>>
  BY DEF FrameStep, Subscribe, Read, EndOfStream
<1>2. FrameTypes'
  <2>1. Len(sent) \in Nat
    BY DEF FrameInv, FrameTypes
  <2>2. reader' \in [Readers -> {"none", "open", "ended"}]
    BY DEF FrameInv, FrameTypes, FrameStep, Subscribe, Read, EndOfStream
  <2>3. taken' \in 0..Len(sent) /\ Len(sent) - taken' <= Depth
    BY <2>1, NativeHandlesAssumption
       DEF FrameInv, FrameTypes, FrameStep, Subscribe, Read, EndOfStream
  <2> QED BY <1>1, <2>2, <2>3 DEF FrameInv, FrameTypes
<1>3. GapIsReported'
  BY <1>1 DEF FrameInv, GapIsReported
<1> QED BY <1>1, <1>2, <1>3 DEF FrameInv

LEMMA HandlesKeepFrames ==
  ASSUME FrameInv, UNCHANGED frameVars
  PROVE  FrameInv'
BY DEF frameVars, FrameInv, FrameTypes, GapIsReported

LEMMA FramesKeep ==
  ASSUME FrameInv, [Next]_vars
  PROVE  FrameInv'
<1>1. ASSUME NEW r \in Requests, HandleStep(r) PROVE FrameInv'
  <2>1. UNCHANGED frameVars
    BY <1>1 DEF HandleStep, Call, install_release_hook, Alloc, OpenFails, Adopt, Abandon,
         release_native_handle, close, LetGo, Released, HostClose, RunHook
  <2> QED BY <2>1, HandlesKeepFrames
<1>2. ASSUME NEW h \in Cameras, DropClient(h) PROVE FrameInv'
  BY <1>2, HandlesKeepFrames DEF DropClient
<1>3. CASE Capture BY <1>3, CaptureKeeps
<1>4. ASSUME NEW u \in Readers, FrameStep(u) PROVE FrameInv'
  BY <1>4, ReadersKeep
<1>5. CASE UNCHANGED vars
  BY <1>5, HandlesKeepFrames DEF vars
<1> QED BY <1>1, <1>2, <1>3, <1>4, <1>5 DEF Next
-----------------------------------------------------------------------------
(* What is owned is there.                                                 *)

\* What was taken stays so, and the other handle is to blame.
LEMMA TakenLasts ==
  ASSUME HandleInv, [Next]_vars, NEW q \in Requests, NEW r \in Requests, num[r] > 0, TakenFor(q, r)
  PROVE  TakenFor(q, r)'
<1> USE NativeHandlesAssumption
<1>1. num[q] > 0 /\ host[q] = "done" /\ host[r] = "done" /\ client[q] \in {"releasing", "gone"}
  BY DEF TakenFor, HandleInv, Numbers
<1>2. num'[q] = num[q] /\ num'[r] = num[r]
  <2>1. ASSUME NEW p \in Requests, Alloc(p) PROVE num'[q] = num[q] /\ num'[r] = num[r]
    <3>1. p # q /\ p # r
      BY <1>1, <2>1 DEF Alloc
    <3> QED BY <2>1, <3>1 DEF HandleInv, HandleTypes, Alloc
  <2>2. (\E p \in Requests : Alloc(p)) \/ num' = num
    BY DEF Next, vars, handleVars, HandleStep, LetGo, Call, install_release_hook, OpenFails, Adopt, Abandon,
       release_native_handle, close, Released, HostClose, RunHook, DropClient, Capture, FrameStep, Subscribe,
       Read, EndOfStream
  <2> QED BY <2>1, <2>2
<1>3. client'[q] \in {"releasing", "gone"} /\ todo'[q] \subseteq todo[q]
  <2>1. ASSUME NEW p \in Requests, HandleStep(p)
        PROVE  client'[q] \in {"releasing", "gone"} /\ todo'[q] \subseteq todo[q]
    <3>1. CASE p # q
      BY <1>1, <2>1, <3>1 DEF HandleInv, HandleTypes, HandleStep, LetGo, Call, install_release_hook, Alloc,
         OpenFails, Adopt, Abandon, release_native_handle, close, Released, HostClose, RunHook
    <3>2. CASE p = q
      <4>1. LetGo(q) /\ ~HostClose(q)
        BY <1>1, <2>1, <3>2 DEF HandleStep, LetGo, Call, install_release_hook, Alloc, OpenFails, Adopt,
           Abandon, release_native_handle, close, HostClose
      <4> QED BY <1>1, <4>1 DEF HandleInv, HandleTypes, LetGo, Released, RunHook
    <3> QED BY <3>1, <3>2
  <2>2. (\E p \in Requests : HandleStep(p)) \/ UNCHANGED <<client, todo>>
    BY DEF Next, vars, handleVars, DropClient, Capture, FrameStep, Subscribe, Read, EndOfStream
  <2> QED BY <1>1, <2>1, <2>2
<1> QED BY <1>2, <1>3 DEF TakenFor, Counter

\* No step takes what a client waits for, owns or closes, but a hook that runs for
\* a handle of the other kind.
LEMMA HeldKeeps ==
  ASSUME HandleInv, Held, [Next]_vars
  PROVE  Held'
<1> USE NativeHandlesAssumption
<1>0. ASSUME NEW q \in Requests, KeepsClient(q)', num'[q] > 0, KeepsClient(q), num[q] = num'[q],
             q \in table => q \in table'
      PROVE  q \in table' \/ \E p \in Requests : TakenFor(p, q)'
  <2>1. q \in table \/ \E p \in Requests : TakenFor(p, q)
    BY <1>0 DEF Held
  <2> QED BY <1>0, <2>1, TakenLasts
<1>1. ASSUME NEW r \in Requests, HandleStep(r) PROVE Held'
  <2> SUFFICES ASSUME NEW q \in Requests, KeepsClient(q)', num'[q] > 0
               PROVE  q \in table' \/ \E p \in Requests : TakenFor(p, q)'
    BY DEF Held
  <2>1. CASE Call(r)
    <3>1. KeepsClient(q) /\ num[q] = num'[q] /\ table' = table
      BY <2>1 DEF HandleInv, HandleTypes, Numbers, Phase, KeepsClient, Call
    <3> QED BY <1>0, <3>1
  <2>2. CASE install_release_hook(r)
    BY <1>0, <2>2 DEF KeepsClient, install_release_hook
  <2>3. CASE Alloc(r)
    <3>1. KeepsClient(q) /\ table \subseteq table'
      BY <2>3 DEF KeepsClient, Alloc
    <3>2. CASE q # r
      BY <1>0, <2>3, <3>1, <3>2 DEF HandleInv, HandleTypes, Alloc
    <3>3. CASE q = r
      BY <2>3, <3>1, <3>3 DEF HandleInv, Phase, Alloc
    <3> QED BY <3>2, <3>3
  <2>4. CASE OpenFails(r)
    <3>1. KeepsClient(q) /\ num[q] = num'[q] /\ table' = table
      BY <2>4 DEF HandleInv, HandleTypes, KeepsClient, OpenFails
    <3> QED BY <1>0, <3>1
  <2>5. CASE Adopt(r) \/ Abandon(r) \/ release_native_handle(r) \/ close(r) \/ Released(r)
    <3>1. UNCHANGED <<table, num>> /\ KeepsClient(q)
      BY <2>5 DEF HandleInv, HandleTypes, KeepsClient, Adopt, Abandon, release_native_handle,
           close, Released
    <3> QED BY <1>0, <3>1
  <2>6. ASSUME NEW h \in Hosts, RunHook(r, h)
        PROVE  q \in table' \/ \E p \in Requests : TakenFor(p, q)'
    <3>1. /\ UNCHANGED <<client, num>> /\ table' = table \ Entry(h, num[r])
          /\ client[r] = "releasing" /\ todo' = [todo EXCEPT ![r] = @ \ {h}]
      BY <2>6 DEF RunHook
    <3>2. num[r] > 0 /\ num[r] \in Nat /\ KeepsClient(q) /\ q # r
      BY <3>1 DEF HandleInv, HandleTypes, Phase, KeepsClient
    <3>3. CASE q \in Entry(h, num[r])
      <4>1. HostOf[q] = h /\ num[q] = num[r]
        BY <3>3 DEF Entry
      <4>2. Counter(HostOf[r]) # Counter(HostOf[q])
        BY <3>2, <4>1 DEF HandleInv, Numbers
      <4>3. HostOf[q] \notin todo'[r]
        BY <3>1, <4>1 DEF HandleInv, HandleTypes
      <4>4. TakenFor(r, q)'
        BY <3>1, <4>1, <4>2, <4>3 DEF TakenFor, Counter
      <4> QED BY <4>4
    <3>4. CASE q \notin Entry(h, num[r])
      BY <1>0, <3>1, <3>2, <3>4
    <3> QED BY <3>3, <3>4
  <2>7. CASE HostClose(r)
    <3>1. /\ UNCHANGED num /\ table' = table \ Entry(HostOf[r], num[r])
          /\ client[r] = "closing" /\ client' = [client EXCEPT ![r] = "closed"]
      BY <2>7 DEF HostClose
    <3>2. num[r] > 0 /\ num[r] \in Nat
      BY <3>1 DEF HandleInv, HandleTypes, Phase
    <3>3. q # r /\ KeepsClient(q)
      BY <3>1 DEF HandleInv, HandleTypes, KeepsClient
    <3>4. q \notin Entry(HostOf[r], num[r])
      BY <3>2, <3>3 DEF HandleInv, Numbers, Entry
    <3> QED BY <1>0, <3>1, <3>3, <3>4
  <2> QED BY <1>1, <2>1, <2>2, <2>3, <2>4, <2>5, <2>6, <2>7 DEF HandleStep, LetGo
<1>2. ASSUME NEW h \in Cameras, DropClient(h) PROVE Held'
  <2> SUFFICES ASSUME NEW q \in Requests, KeepsClient(q)', num'[q] > 0
               PROVE  q \in table' \/ \E p \in Requests : TakenFor(p, q)'
    BY DEF Held
  <2> QED BY <1>0, <1>2 DEF KeepsClient, DropClient
<1>3. CASE Capture
  BY <1>3, FramesKeepHandles DEF Capture
<1>4. ASSUME NEW u \in Readers, FrameStep(u) PROVE Held'
  BY <1>4, FramesKeepHandles DEF FrameStep, Subscribe, Read, EndOfStream
<1>5. CASE UNCHANGED vars
  BY <1>5, FramesKeepHandles DEF vars
<1> QED BY <1>1, <1>2, <1>3, <1>4, <1>5 DEF Next
-----------------------------------------------------------------------------
(* The theorems.                                                           *)

\* Whatever hooks run with whatever numbers, a session or file that was closed or
\* whose handle was dropped is in no table.
THEOREM NoSessionOutlivesItsHandle == Spec => []ReleasedIsFreed
<1>1. HandleInv => ReleasedIsFreed
  BY DEF HandleInv, Leaving, ReleasedIsFreed
<1> QED BY <1>1, HandlesStart, HandlesKeep, PTL DEF Spec

\* The tables of the hosts hold what clients own, but for what the drop of a handle
\* of the other kind with the same number took, and nothing they let go.
THEOREM TablesAreTrue == Spec => []TablesMatchHandles
<1>1. HandleInv /\ FrameInv /\ Held => TablesMatchHandles
  <2>1. HandleInv /\ FrameInv => TypeOK
    BY DEF HandleInv, HandleTypes, FrameInv, FrameTypes, TypeOK
  <2>2. HandleInv /\ Held => OwnedIsLive
    BY DEF HandleInv, Phase, Held, KeepsClient, OwnedIsLive
  <2>3. HandleInv => ReleasedIsFreed
    BY DEF HandleInv, Leaving, ReleasedIsFreed
  <2> QED BY <2>1, <2>2, <2>3 DEF TablesMatchHandles
<1> QED BY <1>1, HandlesStart, HandlesKeep, FramesStart, FramesKeep, HeldKeeps, PTL DEF Spec

\* Cameras alone share one counter: however many there are, each with its hook, no
\* drop takes what somebody else owns.
COROLLARY CamerasAlone ==
  ASSUME \A r \in Requests : HostOf[r] \in Cameras
  PROVE  Spec => []HooksAreNoOps
<1>1. OwnedIsLive => HooksAreNoOps
  BY DEF OwnedIsLive, HooksAreNoOps, TakenFor, Counter
<1>2. TablesMatchHandles => HooksAreNoOps
  BY <1>1 DEF TablesMatchHandles
<1> QED BY <1>2, TablesAreTrue, PTL

\* Frames that are missing are announced by the next that arrives, however slow
\* the readers, and never more of them than are missing.
THEOREM GapsAreTold == Spec => []GapIsReported
<1>1. FrameInv => GapIsReported
  BY DEF FrameInv
<1> QED BY <1>1, FramesStart, FramesKeep, PTL DEF Spec
-----------------------------------------------------------------------------
(* Picked files.                                                           *)

DialogRecs ==
  [state : {"idle", "shown", "answered", "done", "abandoned"},
   kind : {"none", "pick_file", "pick_files", "save_file"}, ids : Seq(Nat), err : BOOLEAN]
OpenRecs ==
  [state : {"idle", "asked", "answered", "reading", "file", "closed", "failed", "abandoned", "lost"},
   kind : {"none", "read", "write", "path"}, id : Nat, fd : Nat, err : {"none", "NotFound", "Io"}]

\* The types, by who keeps what.
HostTyped ==
  /\ hooked \in BOOLEAN /\ purged \in BOOLEAN /\ disk \subseteq Paths /\ next_id \in Nat \ {0}
  /\ DOMAIN files \subseteq 1..(next_id - 1) /\ \A n \in DOMAIN files : files[n] \in Paths
Ids(k) == F!Range(dialog[k].ids)
DialogsTyped ==
  /\ dialog \in [Dialogs -> DialogRecs]
  /\ \A k \in Dialogs : Ids(k) \subseteq 1..(next_id - 1)
OwnersTyped ==
  /\ DOMAIN owners \subseteq 1..(next_id - 1) /\ letgo \subseteq DOMAIN owners
  /\ \A n \in DOMAIN owners : owners[n] \subseteq Opens \cup {None}
OpensTyped ==
  /\ open \in [Opens -> OpenRecs]
  /\ DOMAIN fds \subseteq Nat \ {0} /\ IsFiniteSet(DOMAIN fds)
  /\ \A n \in DOMAIN fds : fds[n] \in Opens

\* A number is given to one dialog, which has it until its caller adopts it.
DialogsApart ==
  /\ \A k \in Dialogs : dialog[k].state \in {"idle", "shown", "abandoned"} => Ids(k) = {}
  /\ \A k, l \in Dialogs : k # l => Ids(k) \cap Ids(l) = {}
  /\ \A k \in Dialogs : dialog[k].state = "answered" =>
       /\ Ids(k) \cap DOMAIN owners = {}
       /\ ~purged => Ids(k) \subseteq DOMAIN files

\* What is owned is in the map, and what is let go is not owned.
ArcsServe ==
  /\ \A n \in DOMAIN owners : owners[n] # {} /\ ~purged => n \in DOMAIN files
  /\ \A n \in letgo : owners[n] = {}

\* Whoever is at a file has the Arc and, once it was opened, the descriptor.
HasArc(o) ==
  open[o].state \in {"asked", "answered", "reading"} =>
    open[o].id \in DOMAIN owners /\ o \in owners[open[o].id]
ToldWhy(o) ==
  /\ open[o].state \in {"idle", "asked"} => open[o].err = "none"
  /\ open[o].state \in {"answered", "failed"} /\ open[o].err = "NotFound" => purged
HasFd(o) ==
  /\ open[o].state \in {"idle", "asked", "abandoned"} => open[o].fd = 0
  /\ open[o].state \in {"reading", "file"} => open[o].fd # 0
  /\ open[o].state \in {"answered", "reading", "file"} /\ open[o].fd # 0 =>
       open[o].fd \in DOMAIN fds /\ fds[open[o].fd] = o
FdOwned(fd) ==
  open[fds[fd]].fd = fd /\ open[fds[fd]].state \in {"answered", "reading", "file", "lost"}
OpensHold ==
  /\ \A o \in Opens : HasArc(o) /\ ToldWhy(o) /\ HasFd(o)
  /\ \A fd \in DOMAIN fds : FdOwned(fd)

PickerInv ==
  /\ HostTyped /\ DialogsTyped /\ OwnersTyped /\ OpensTyped
  /\ DialogsApart /\ ArcsServe /\ OpensHold /\ F!MapFollowsOwners

\* The numbers alloc_many gives.
LEMMA Allocates ==
  ASSUME HostTyped, DialogsTyped, NEW k \in Dialogs, NEW paths \in Seq(Paths), F!Chosen(k), F!alloc_many(k, paths)
  PROVE  /\ next_id' \in Nat \ {0} /\ next_id <= next_id'
         /\ dialog' \in [Dialogs -> DialogRecs]
         /\ \A l \in Dialogs \ {k} : dialog'[l] = dialog[l]
         /\ dialog'[k].state \in {"answered", "done"}
         /\ Ids(k)' \subseteq next_id..(next_id' - 1)
         /\ DOMAIN files' = DOMAIN files \cup Ids(k)'
         /\ \A n \in DOMAIN files' : files'[n] \in Paths
<1> DEFINE ids == [i \in DOMAIN paths |-> next_id + i - 1]
<1>1. /\ next_id' = next_id + Len(paths)
      /\ files' = [n \in DOMAIN files \cup F!Range(ids) |->
                     IF n \in DOMAIN files THEN files[n] ELSE paths[n - next_id + 1]]
      /\ dialog' = [dialog EXCEPT ![k].ids = ids,
                                  ![k].state = IF @ = "shown" THEN "answered" ELSE "done"]
  BY DEF F!alloc_many
<1>2. Len(paths) \in Nat /\ DOMAIN paths = 1..Len(paths) /\ next_id \in Nat \ {0}
  BY DEF HostTyped
<1>3. ids \in Seq(Nat) /\ \A i \in DOMAIN paths : ids[i] = next_id + i - 1
  BY <1>2
<1>4. F!Range(ids) \subseteq next_id..(next_id + Len(paths) - 1)
  BY <1>2 DEF F!Range
<1>5. \A n \in F!Range(ids) : n - next_id + 1 \in DOMAIN paths
  BY <1>2 DEF F!Range
<1>6. \A i \in DOMAIN paths : paths[i] \in Paths
  OBVIOUS
<1>7. dialog[k] \in DialogRecs
  BY DEF DialogsTyped
<1> HIDE DEF ids
<1>8. /\ dialog'[k].ids = ids /\ dialog'[k].state \in {"answered", "done"}
      /\ dialog'[k] \in DialogRecs
      /\ \A l \in Dialogs \ {k} : dialog'[l] = dialog[l]
  BY <1>1, <1>3, <1>7 DEF DialogsTyped, DialogRecs
<1>9. dialog' \in [Dialogs -> DialogRecs]
  BY <1>1, <1>8 DEF DialogsTyped
<1>10. Ids(k)' = F!Range(ids)
  BY <1>8 DEF Ids
<1>11. \A n \in DOMAIN files' : files'[n] \in Paths
  BY <1>1, <1>5, <1>6 DEF HostTyped
<1>12. next_id' - 1 = next_id + Len(paths) - 1 /\ next_id' \in Nat \ {0} /\ next_id <= next_id'
  BY <1>1, <1>2
<1>13. DOMAIN files' = DOMAIN files \cup Ids(k)'
  BY <1>1, <1>10
<1> QED BY <1>4, <1>8, <1>9, <1>10, <1>11, <1>12, <1>13

LEMMA AllocKeepsFiles ==
  ASSUME PickerInv, NEW k \in Dialogs, NEW paths \in Seq(Paths), F!Chosen(k), F!alloc_many(k, paths),
         disk' \subseteq Paths, UNCHANGED <<hooked, purged, owners, letgo, open, fds>>
  PROVE  PickerInv'
<1>1. /\ next_id' \in Nat \ {0} /\ next_id <= next_id' /\ next_id \in Nat \ {0}
      /\ dialog' \in [Dialogs -> DialogRecs]
      /\ \A l \in Dialogs \ {k} : dialog'[l] = dialog[l]
      /\ dialog'[k].state \in {"answered", "done"}
      /\ Ids(k)' \subseteq next_id..(next_id' - 1)
      /\ DOMAIN files' = DOMAIN files \cup Ids(k)'
      /\ \A n \in DOMAIN files' : files'[n] \in Paths
  BY Allocates DEF PickerInv, HostTyped
<1>2. \A l \in Dialogs \ {k} : Ids(l)' = Ids(l)
  BY <1>1 DEF Ids
<1>3. \A n \in 1..(next_id - 1) : n \in 1..(next_id' - 1) /\ n \notin Ids(k)'
  <2>1. \A n \in Ids(k)' : n \in Nat /\ n >= next_id
    BY <1>1
  <2> SUFFICES ASSUME NEW n \in 1..(next_id - 1) PROVE n \in 1..(next_id' - 1) /\ n \notin Ids(k)'
    OBVIOUS
  <2>2. n \in 1..(next_id' - 1) /\ n \in Nat /\ n < next_id
    BY <1>1
  <2>3. ASSUME n \in Ids(k)' PROVE FALSE
    <3>1. n >= next_id
      BY <2>1, <2>3
    <3> QED BY <1>1, <2>2, <3>1
  <2> QED BY <2>2, <2>3
<1>4. \A n \in Ids(k)' : n \in 1..(next_id' - 1)
  BY <1>1
<1>5. HostTyped'
  BY <1>1, <1>3, <1>4 DEF PickerInv, HostTyped
<1>6. DialogsTyped'
  <2>1. \A l \in Dialogs : Ids(l)' \subseteq 1..(next_id' - 1)
    BY <1>2, <1>3, <1>4 DEF PickerInv, DialogsTyped
  <2> QED BY <1>1, <2>1 DEF DialogsTyped
<1>7. OwnersTyped' /\ OpensTyped'
  BY <1>3 DEF PickerInv, OwnersTyped, OpensTyped
<1>8. DialogsApart'
  <2>1. \A l \in Dialogs \ {k} : Ids(k)' \cap Ids(l)' = {}
    BY <1>2, <1>3 DEF PickerInv, DialogsTyped
  <2>2. Ids(k)' \cap DOMAIN owners = {}
    BY <1>3 DEF PickerInv, OwnersTyped
  <2>3. \A l, m \in Dialogs : l # m => Ids(l)' \cap Ids(m)' = {}
    BY <1>2, <2>1 DEF PickerInv, DialogsApart
  <2>4. \A l \in Dialogs : dialog'[l].state \in {"idle", "shown", "abandoned"} => Ids(l)' = {}
    BY <1>1, <1>2 DEF PickerInv, DialogsApart
  <2>5. \A l \in Dialogs : dialog'[l].state = "answered" =>
          Ids(l)' \cap DOMAIN owners = {} /\ (~purged => Ids(l)' \subseteq DOMAIN files')
    BY <1>1, <1>2, <2>2 DEF PickerInv, DialogsApart
  <2> QED BY <2>3, <2>4, <2>5 DEF DialogsApart
<1>9. ArcsServe' /\ OpensHold'
  BY <1>1 DEF PickerInv, ArcsServe, OpensHold, HasArc, ToldWhy, HasFd, FdOwned
<1>10. F!MapFollowsOwners'
  <2>1. \A l \in Dialogs : Ids(l) \subseteq Ids(l)'
    <3>1. Ids(k) = {}
      BY DEF PickerInv, DialogsApart, F!Chosen
    <3> QED BY <1>2, <3>1
  <2>2. \A n \in Ids(k)' : n \notin DOMAIN owners
    BY <1>3 DEF PickerInv, OwnersTyped
  <2> QED BY <1>1, <2>1, <2>2 DEF PickerInv, F!MapFollowsOwners, Ids
<1> QED BY <1>5, <1>6, <1>7, <1>8, <1>9, <1>10 DEF PickerInv

\* What the picker takes from the library is the library's.
LEMMA SameFinite == \A S : F!IsFiniteSet(S) <=> IsFiniteSet(S)
BY DEF F!IsFiniteSet, IsFiniteSet

LEMMA SameSize == \A S : F!Cardinality(S) = Cardinality(S)
BY DEF F!Cardinality, Cardinality

\* The list of a set of files.
LEMMA Listed ==
  ASSUME IsFiniteSet(Paths), NEW S \in SUBSET Paths
  PROVE  F!SetToSeq(S) \in Seq(Paths)
<1>1. IsFiniteSet(S)
  BY FS_Subset
<1>2. Cardinality(S) \in Nat /\ ExistsBijection(1..Cardinality(S), S)
  BY <1>1, FS_CardinalityType
<1>3. \E f \in [1..Cardinality(S) -> S] : F!IsInjective(f)
  BY <1>2 DEF ExistsBijection, Bijection, Injection, F!IsInjective, IsInjective
<1>4. F!SetToSeq(S) \in [1..Cardinality(S) -> S]
  BY <1>3, SameSize DEF F!SetToSeq
<1> QED BY <1>2, <1>4

LEMMA DialogsKeepFiles ==
  ASSUME F!FilePickerAssumption, PickerInv, NEW k \in Dialogs
  PROVE  /\ F!pick_file(k) \/ F!pick_files(k) \/ F!save_file(k) => PickerInv'
         /\ \A kind \in {"pick_file", "pick_files", "save_file"} : F!Show(k, kind) => PickerInv'
         /\ F!AbandonDialog(k) => PickerInv'
<1>1. ASSUME F!pick_file(k) PROVE PickerInv'
  <2>1. PICK paths \in {<<>>} \cup {<<p>> : p \in disk} : F!alloc_many(k, paths)
    BY <1>1 DEF F!pick_file
  <2>2. paths \in Seq(Paths)
    <3>1. CASE paths = <<>>
      BY <3>1
    <3>2. ASSUME NEW p \in disk, paths = <<p>> PROVE paths \in Seq(Paths)
      <4>1. p \in Paths
        BY DEF PickerInv, HostTyped
      <4> QED BY <3>2, <4>1
    <3> QED BY <2>1, <3>1, <3>2
  <2>3. disk' \subseteq Paths /\ UNCHANGED <<hooked, purged, owners, letgo, open, fds>> /\ F!Chosen(k)
    BY <1>1 DEF F!pick_file, PickerInv, HostTyped
  <2> QED BY <2>1, <2>2, <2>3, AllocKeepsFiles
<1>2. ASSUME F!pick_files(k) PROVE PickerInv'
  <2>1. PICK chosen \in SUBSET disk : F!alloc_many(k, F!SetToSeq(chosen))
    BY <1>2 DEF F!pick_files
  <2>2. F!SetToSeq(chosen) \in Seq(Paths)
    <3>1. chosen \in SUBSET Paths /\ IsFiniteSet(Paths)
      BY <2>1, SameFinite DEF PickerInv, HostTyped, F!FilePickerAssumption
    <3> QED BY <3>1, Listed
  <2>3. disk' \subseteq Paths /\ UNCHANGED <<hooked, purged, owners, letgo, open, fds>> /\ F!Chosen(k)
    BY <1>2 DEF F!pick_files, PickerInv, HostTyped
  <2> QED BY <2>1, <2>2, <2>3, AllocKeepsFiles
\* A dialog that moves on without a number.
<1>3. ASSUME UNCHANGED <<hooked, purged, next_id, files, owners, letgo, open, fds>>, disk' \subseteq Paths,
             dialog' \in [Dialogs -> DialogRecs],
             \A l \in Dialogs : Ids(l)' = Ids(l),
             \A l \in Dialogs \ {k} : dialog'[l] = dialog[l],
             dialog'[k].state \in {"idle", "shown", "abandoned"} => Ids(k) = {},
             dialog'[k].state = "answered" => Ids(k) = {}
      PROVE  PickerInv'
  <2>1. HostTyped' /\ DialogsTyped' /\ OwnersTyped' /\ OpensTyped'
    BY <1>3 DEF PickerInv, HostTyped, DialogsTyped, OwnersTyped, OpensTyped
  <2>2. DialogsApart'
    BY <1>3 DEF PickerInv, DialogsApart
  <2>3. ArcsServe' /\ OpensHold'
    BY <1>3 DEF PickerInv, ArcsServe, OpensHold, HasArc, ToldWhy, HasFd, FdOwned
  <2>4. F!MapFollowsOwners'
    BY <1>3 DEF PickerInv, F!MapFollowsOwners, Ids
  <2> QED BY <2>1, <2>2, <2>3, <2>4 DEF PickerInv
<1>4. ASSUME F!save_file(k) PROVE PickerInv'
  <2>1. ASSUME NEW p \in Paths, disk' = disk \cup {p}, F!alloc_many(k, <<p>>) PROVE PickerInv'
    <3>1. disk' \subseteq Paths /\ UNCHANGED <<hooked, purged, owners, letgo, open, fds>> /\ F!Chosen(k)
      BY <1>4, <2>1 DEF F!save_file, PickerInv, HostTyped
    <3>2. <<p>> \in Seq(Paths)
      OBVIOUS
    <3> QED BY <2>1, <3>1, <3>2, AllocKeepsFiles
  <2>2. ASSUME F!alloc_many(k, <<>>), UNCHANGED disk PROVE PickerInv'
    <3>1. disk' \subseteq Paths /\ UNCHANGED <<hooked, purged, owners, letgo, open, fds>> /\ F!Chosen(k)
      BY <1>4, <2>2 DEF F!save_file, PickerInv, HostTyped
    <3>2. <<>> \in Seq(Paths)
      OBVIOUS
    <3> QED BY <2>2, <3>1, <3>2, AllocKeepsFiles
  <2>3. ASSUME dialog' = [dialog EXCEPT ![k].state = IF @ = "shown" THEN "answered" ELSE "done",
                                        ![k].err = TRUE],
               UNCHANGED <<disk, files, next_id>>
        PROVE  PickerInv'
    <3>1. dialog[k] \in DialogRecs /\ dialog \in [Dialogs -> DialogRecs] /\ Ids(k) = {}
      BY <1>4 DEF PickerInv, DialogsTyped, DialogsApart, F!save_file, F!Chosen
    <3>2. /\ dialog' \in [Dialogs -> DialogRecs] /\ dialog'[k].ids = dialog[k].ids
          /\ \A l \in Dialogs \ {k} : dialog'[l] = dialog[l]
      BY <2>3, <3>1 DEF DialogRecs
    <3>3. \A l \in Dialogs : Ids(l)' = Ids(l)
      BY <3>2 DEF Ids
    <3>4. UNCHANGED <<hooked, purged, owners, letgo, open, fds>> /\ disk' \subseteq Paths
      BY <1>4, <2>3 DEF F!save_file, PickerInv, HostTyped
    <3> QED BY <1>3, <2>3, <3>1, <3>2, <3>3, <3>4
  <2> QED BY <1>4, <2>1, <2>2, <2>3 DEF F!save_file, F!hostVars
<1>5. ASSUME NEW kind \in {"pick_file", "pick_files", "save_file"}, F!Show(k, kind) PROVE PickerInv'
  <2>1. dialog[k] \in DialogRecs /\ dialog \in [Dialogs -> DialogRecs] /\ Ids(k) = {}
    BY <1>5 DEF PickerInv, DialogsTyped, DialogsApart, F!Show
  <2>2. /\ dialog' \in [Dialogs -> DialogRecs] /\ dialog'[k].ids = dialog[k].ids
        /\ \A l \in Dialogs \ {k} : dialog'[l] = dialog[l]
    BY <1>5, <2>1 DEF F!Show, DialogRecs
  <2>3. \A l \in Dialogs : Ids(l)' = Ids(l)
    BY <2>2 DEF Ids
  <2>4. UNCHANGED <<hooked, purged, next_id, files, owners, letgo, open, fds>> /\ disk' \subseteq Paths
    BY <1>5 DEF F!Show, F!hostVars, PickerInv, HostTyped
  <2> QED BY <1>3, <2>1, <2>2, <2>3, <2>4
<1>6. ASSUME F!AbandonDialog(k) PROVE PickerInv'
  <2>1. dialog[k] \in DialogRecs /\ dialog \in [Dialogs -> DialogRecs]
        /\ (dialog[k].state = "shown" => Ids(k) = {})
    BY <1>6 DEF PickerInv, DialogsTyped, DialogsApart
  <2>2. /\ dialog' \in [Dialogs -> DialogRecs] /\ dialog'[k].ids = dialog[k].ids
        /\ dialog'[k].state \in {"abandoned", "done"}
        /\ dialog'[k].state = "abandoned" => dialog[k].state = "shown"
        /\ \A l \in Dialogs \ {k} : dialog'[l] = dialog[l]
    BY <1>6, <2>1 DEF F!AbandonDialog, DialogRecs
  <2>3. \A l \in Dialogs : Ids(l)' = Ids(l)
    BY <2>2 DEF Ids
  <2>4. UNCHANGED <<hooked, purged, next_id, files, owners, letgo, open, fds>> /\ disk' \subseteq Paths
    BY <1>6 DEF F!AbandonDialog, F!hostVars, PickerInv, HostTyped
  <2> QED BY <1>3, <2>1, <2>2, <2>3, <2>4
<1> QED BY <1>1, <1>2, <1>4, <1>5, <1>6

LEMMA AdoptKeepsFiles ==
  ASSUME PickerInv, NEW k \in Dialogs, F!AdoptPicked(k)
  PROVE  PickerInv'
<1>1. /\ dialog[k].state = "answered" /\ dialog[k] \in DialogRecs /\ dialog \in [Dialogs -> DialogRecs]
      /\ dialog' = [dialog EXCEPT ![k].state = "done"]
      /\ owners' = [n \in DOMAIN owners \cup Ids(k) |-> IF n \in DOMAIN owners THEN owners[n] ELSE {None}]
      /\ UNCHANGED <<hooked, purged, disk, files, next_id, letgo, open, fds>>
  BY DEF F!AdoptPicked, F!hostVars, PickerInv, DialogsTyped, Ids
<1>2. /\ dialog' \in [Dialogs -> DialogRecs] /\ dialog'[k].ids = dialog[k].ids /\ dialog'[k].state = "done"
      /\ \A l \in Dialogs \ {k} : dialog'[l] = dialog[l]
  BY <1>1 DEF DialogRecs
<1>3. \A l \in Dialogs : Ids(l)' = Ids(l)
  BY <1>2 DEF Ids
<1>4. /\ DOMAIN owners' = DOMAIN owners \cup Ids(k)
      /\ \A n \in DOMAIN owners : owners'[n] = owners[n]
      /\ \A n \in Ids(k) : owners'[n] = {None}
  BY <1>1 DEF PickerInv, DialogsApart
<1>5. HostTyped' /\ DialogsTyped' /\ OpensTyped'
  BY <1>1, <1>2, <1>3 DEF PickerInv, HostTyped, DialogsTyped, OpensTyped
<1>6. OwnersTyped'
  <2>1. DOMAIN owners' \subseteq 1..(next_id - 1)
    BY <1>4 DEF PickerInv, OwnersTyped, DialogsTyped
  <2>2. \A n \in DOMAIN owners' : owners'[n] \subseteq Opens \cup {None}
    BY <1>4 DEF PickerInv, OwnersTyped
  <2> QED BY <1>1, <1>4, <2>1, <2>2 DEF PickerInv, OwnersTyped
<1>7. DialogsApart'
  <2>1. \A l \in Dialogs : dialog'[l].state = "answered" => l # k /\ dialog[l].state = "answered"
    BY <1>2
  <2>2. \A l \in Dialogs : dialog'[l].state \in {"idle", "shown", "abandoned"} =>
          dialog[l].state \in {"idle", "shown", "abandoned"}
    BY <1>2
  <2> QED BY <1>1, <1>3, <1>4, <2>1, <2>2 DEF PickerInv, DialogsApart
<1>8. ArcsServe'
  BY <1>1, <1>4 DEF PickerInv, ArcsServe, DialogsApart, OwnersTyped
<1>9. OpensHold'
  BY <1>1, <1>4 DEF PickerInv, OpensHold, HasArc, ToldWhy, HasFd, FdOwned
<1>10. F!MapFollowsOwners'
  <2> SUFFICES ASSUME NEW n \in DOMAIN files, hooked, n \notin letgo
               PROVE  \/ n \in DOMAIN owners' /\ owners'[n] # {}
                      \/ \E l \in Dialogs : n \in Ids(l)' /\ n \notin DOMAIN owners'
    BY <1>1 DEF F!MapFollowsOwners, Ids
  <2>1. \/ n \in DOMAIN owners /\ owners[n] # {}
        \/ \E l \in Dialogs : n \in Ids(l) /\ n \notin DOMAIN owners
    BY DEF PickerInv, F!MapFollowsOwners, Ids
  <2> QED BY <1>3, <1>4, <2>1
<1> QED BY <1>5, <1>6, <1>7, <1>8, <1>9, <1>10 DEF PickerInv

\* An Arc less.
LEMMA DropsArc ==
  ASSUME OwnersTyped, NEW n \in DOMAIN owners, NEW who, F!DropArc(n, who)
  PROVE  /\ DOMAIN owners' = DOMAIN owners
         /\ owners'[n] = owners[n] \ {who}
         /\ \A m \in DOMAIN owners \ {n} : owners'[m] = owners[m]
         /\ \A m \in DOMAIN owners : owners'[m] \subseteq owners[m]
         /\ letgo \subseteq letgo' /\ letgo' \subseteq letgo \cup {n}
         /\ n \in letgo' => n \in letgo \/ owners'[n] = {}
         /\ owners[n] # {} /\ owners'[n] = {} => n \in letgo'
<1>1. /\ owners' = [owners EXCEPT ![n] = owners[n] \ {who}]
      /\ letgo' = IF owners[n] = {who} THEN letgo \cup {n} ELSE letgo
  BY DEF F!DropArc
<1>2. DOMAIN owners' = DOMAIN owners /\ owners'[n] = owners[n] \ {who}
      /\ \A m \in DOMAIN owners \ {n} : owners'[m] = owners[m]
  BY <1>1 DEF OwnersTyped
<1>3. owners[n] = {who} <=> owners[n] # {} /\ owners'[n] = {}
  BY <1>2
<1> QED BY <1>1, <1>2, <1>3

\* What an Arc less leaves as it was.
LEMMA ArcDropped ==
  ASSUME PickerInv, NEW n \in DOMAIN owners, NEW who, F!DropArc(n, who),
         UNCHANGED <<hooked, purged, disk, files, next_id, dialog>>
  PROVE  /\ HostTyped' /\ DialogsTyped' /\ OwnersTyped' /\ DialogsApart' /\ ArcsServe' /\ F!MapFollowsOwners'
         /\ \A m \in DOMAIN owners : m \in DOMAIN owners' /\ owners[m] \ {who} \subseteq owners'[m]
         /\ \A m \in DOMAIN owners \ {n} : owners'[m] = owners[m]
<1>1. /\ DOMAIN owners' = DOMAIN owners
      /\ owners'[n] = owners[n] \ {who}
      /\ \A m \in DOMAIN owners \ {n} : owners'[m] = owners[m]
      /\ \A m \in DOMAIN owners : owners'[m] \subseteq owners[m]
      /\ letgo \subseteq letgo' /\ letgo' \subseteq letgo \cup {n}
      /\ n \in letgo' => n \in letgo \/ owners'[n] = {}
      /\ owners[n] # {} /\ owners'[n] = {} => n \in letgo'
  BY DropsArc DEF PickerInv
<1>2. HostTyped' /\ DialogsTyped'
  BY DEF PickerInv, HostTyped, DialogsTyped, Ids
<1>3. OwnersTyped'
  BY <1>1 DEF PickerInv, OwnersTyped
<1>4. DialogsApart'
  BY <1>1 DEF PickerInv, DialogsApart, Ids
<1>5. ArcsServe'
  BY <1>1 DEF PickerInv, ArcsServe, OwnersTyped
<1>6. F!MapFollowsOwners'
  <2> SUFFICES ASSUME NEW m \in DOMAIN files, hooked, m \notin letgo'
               PROVE  \/ m \in DOMAIN owners' /\ owners'[m] # {}
                      \/ \E l \in Dialogs : m \in Ids(l) /\ m \notin DOMAIN owners'
    BY DEF F!MapFollowsOwners, Ids
  <2>1. \/ m \in DOMAIN owners /\ owners[m] # {}
        \/ \E l \in Dialogs : m \in Ids(l) /\ m \notin DOMAIN owners
    BY <1>1 DEF PickerInv, F!MapFollowsOwners, Ids
  <2> QED BY <1>1, <2>1
<1> QED BY <1>1, <1>2, <1>3, <1>4, <1>5, <1>6

LEMMA OwnersKeepFiles ==
  ASSUME F!FilePickerAssumption, PickerInv
  PROVE  /\ \A n \in DOMAIN owners : F!DropPicked(n) \/ F!install_release_hook(n) => PickerInv'
         /\ F!purge => PickerInv'
         /\ \A p \in Paths : F!Unlink(p) => PickerInv'
<1>1. ASSUME NEW n \in DOMAIN owners, F!DropPicked(n) PROVE PickerInv'
  <2>1. F!DropArc(n, None) /\ UNCHANGED <<hooked, purged, disk, files, next_id, dialog, open, fds>>
    BY <1>1 DEF F!DropPicked, F!hostVars
  <2>2. /\ HostTyped' /\ DialogsTyped' /\ OwnersTyped' /\ DialogsApart' /\ ArcsServe' /\ F!MapFollowsOwners'
        /\ \A m \in DOMAIN owners : m \in DOMAIN owners' /\ owners[m] \ {None} \subseteq owners'[m]
    BY <2>1, ArcDropped
  <2>3. OpensTyped'
    BY <2>1 DEF PickerInv, OpensTyped
  <2>4. OpensHold'
    BY <2>1, <2>2 DEF PickerInv, OpensHold, HasArc, ToldWhy, HasFd, FdOwned, F!FilePickerAssumption
  <2> QED BY <2>2, <2>3, <2>4 DEF PickerInv
<1>2. ASSUME NEW n \in DOMAIN owners, F!install_release_hook(n) PROVE PickerInv'
  <2>1. /\ n \in letgo /\ letgo' = letgo \ {n} /\ owners[n] = {}
        /\ UNCHANGED <<hooked, purged, disk, next_id, dialog, owners, open, fds>>
        /\ IF hooked THEN files' = [m \in DOMAIN files \ {n} |-> files[m]] ELSE files' = files
    BY <1>2 DEF F!install_release_hook, PickerInv, ArcsServe
  <2>2. /\ DOMAIN files' \subseteq DOMAIN files /\ DOMAIN files \ {n} \subseteq DOMAIN files'
        /\ \A m \in DOMAIN files' : files'[m] = files[m]
        /\ hooked => n \notin DOMAIN files'
    BY <2>1
  <2>3. HostTyped' /\ DialogsTyped' /\ OwnersTyped' /\ OpensTyped'
    BY <2>1, <2>2 DEF PickerInv, HostTyped, DialogsTyped, OwnersTyped, OpensTyped, Ids
  <2>4. DialogsApart'
    BY <2>1, <2>2 DEF PickerInv, DialogsApart, OwnersTyped, Ids
  <2>5. ArcsServe'
    BY <2>1, <2>2 DEF PickerInv, ArcsServe
  <2>6. OpensHold'
    BY <2>1 DEF PickerInv, OpensHold, HasArc, ToldWhy, HasFd, FdOwned
  <2>7. F!MapFollowsOwners'
    BY <2>1, <2>2 DEF PickerInv, F!MapFollowsOwners
  <2> QED BY <2>3, <2>4, <2>5, <2>6, <2>7 DEF PickerInv
<1>3. ASSUME F!purge PROVE PickerInv'
  <2>1. /\ ~hooked /\ purged' = TRUE /\ DOMAIN files' = {}
        /\ UNCHANGED <<hooked, disk, next_id, dialog, owners, letgo, open, fds>>
    BY <1>3 DEF F!purge
  <2>2. HostTyped' /\ DialogsTyped' /\ OwnersTyped' /\ OpensTyped'
    BY <2>1 DEF PickerInv, HostTyped, DialogsTyped, OwnersTyped, OpensTyped, Ids
  <2>3. DialogsApart' /\ ArcsServe'
    BY <2>1 DEF PickerInv, DialogsApart, ArcsServe, Ids
  <2>4. OpensHold' /\ F!MapFollowsOwners'
    BY <2>1 DEF PickerInv, OpensHold, HasArc, ToldWhy, HasFd, FdOwned, F!MapFollowsOwners
  <2> QED BY <2>2, <2>3, <2>4 DEF PickerInv
<1>4. ASSUME NEW p \in Paths, F!Unlink(p) PROVE PickerInv'
  <2>1. /\ disk' \subseteq disk
        /\ UNCHANGED <<hooked, purged, files, next_id, dialog, owners, letgo, open, fds>>
    BY <1>4 DEF F!Unlink, F!hostVars
  <2>2. HostTyped' /\ DialogsTyped' /\ OwnersTyped' /\ OpensTyped'
    BY <2>1 DEF PickerInv, HostTyped, DialogsTyped, OwnersTyped, OpensTyped, Ids
  <2>3. DialogsApart' /\ ArcsServe'
    BY <2>1 DEF PickerInv, DialogsApart, ArcsServe, Ids
  <2>4. OpensHold' /\ F!MapFollowsOwners'
    BY <2>1 DEF PickerInv, OpensHold, HasArc, ToldWhy, HasFd, FdOwned, F!MapFollowsOwners
  <2> QED BY <2>2, <2>3, <2>4 DEF PickerInv
<1> QED BY <1>1, <1>2, <1>3, <1>4

\* The lowest descriptor that is free.
LEMMA FreeDescriptor ==
  ASSUME OpensTyped, NEW o \in Opens, F!raw_from_file(o)
  PROVE  \E fd \in Nat \ {0} :
           /\ fd \notin DOMAIN fds
           /\ fds' = [n \in DOMAIN fds \cup {fd} |-> IF n = fd THEN o ELSE fds[n]]
           /\ open' = [open EXCEPT ![o].fd = fd,
                                   ![o].state = IF @ = "asked" THEN "answered" ELSE "lost"]
<1> DEFINE many == Cardinality(DOMAIN fds)
           free == (1..(many + 1)) \ DOMAIN fds
<1>1. many \in Nat
  BY FS_CardinalityType DEF OpensTyped
<1>2. free # {}
  <2> SUFFICES ASSUME 1..(many + 1) \subseteq DOMAIN fds PROVE FALSE
    OBVIOUS
  <2>1. Cardinality(1..(many + 1)) = many + 1
    <3>1. Cardinality(1..(many + 1)) = IF 1 > many + 1 THEN 0 ELSE many + 1 - 1 + 1
      BY <1>1, FS_Interval
    <3> QED BY <1>1, <3>1
  <2>2. Cardinality(1..(many + 1)) <= many
    BY FS_Subset DEF OpensTyped
  <2> QED BY <1>1, <2>1, <2>2
<1>3. free \subseteq Nat \ {0}
  BY <1>1
<1>4. F!Min(free) \in free
  <2> HIDE DEF free
  <2>1. PICK x \in free : \A y \in free : <<y, x>> \notin OpToRel(<, Nat)
    <3>1. free \subseteq Nat
      BY <1>3
    <3> QED BY <1>2, <3>1, NatLessThanWellFounded, WFMin
  <2>2. \A y \in free : ~(y < x)
    BY <1>3, <2>1 DEF OpToRel
  <2>3. \A y \in free : x <= y
    BY <1>3, <2>2
  <2> QED BY <2>1, <2>3 DEF F!Min
<1>5. F!Cardinality(DOMAIN fds) = many
  BY SameSize
<1> QED BY <1>3, <1>4, <1>5 DEF F!raw_from_file

\* An open that goes on.
LEMMA OpenMoves ==
  ASSUME OpensTyped, NEW o \in Opens, NEW r \in OpenRecs, open' = [open EXCEPT ![o] = r]
  PROVE  /\ open' \in [Opens -> OpenRecs] /\ open'[o] = r
         /\ \A p \in Opens \ {o} : open'[p] = open[p]
BY DEF OpensTyped

\* What the others have.
LEMMA OtherOpens ==
  ASSUME OpensHold, NEW o \in Opens, \A p \in Opens \ {o} : open'[p] = open[p],
         UNCHANGED purged,
         \A p \in Opens \ {o} : \A m \in DOMAIN owners :
           m \in DOMAIN owners' /\ (p \in owners[m] => p \in owners'[m])
  PROVE  \A p \in Opens \ {o} : HasArc(p)' /\ ToldWhy(p)'
BY DEF OpensHold, HasArc, ToldWhy

LEMMA FdsStay ==
  ASSUME OpensTyped, OpensHold, NEW o \in Opens, \A p \in Opens \ {o} : open'[p] = open[p],
         UNCHANGED fds, open'[o].fd = open[o].fd,
         open[o].state \in {"answered", "reading", "file", "lost"} =>
           open'[o].state \in {"answered", "reading", "file", "lost"} \/ open[o].fd = 0
  PROVE  /\ \A p \in Opens \ {o} : HasFd(p)'
         /\ \A fd \in DOMAIN fds' : FdOwned(fd)'
<1>1. \A p \in Opens \ {o} : HasFd(p)'
  BY DEF OpensHold, HasFd
<1>2. ASSUME NEW fd \in DOMAIN fds PROVE FdOwned(fd)'
  <2>1. FdOwned(fd) /\ fds[fd] \in Opens /\ fd # 0
    BY DEF OpensHold, OpensTyped
  <2> QED BY <2>1 DEF FdOwned
<1> QED BY <1>1, <1>2

\* The rest of the invariant, where only open and its descriptors change.
LEMMA RestStays ==
  ASSUME PickerInv, UNCHANGED <<hooked, purged, disk, files, next_id, dialog, owners, letgo>>
  PROVE  HostTyped' /\ DialogsTyped' /\ OwnersTyped' /\ DialogsApart' /\ ArcsServe' /\ F!MapFollowsOwners'
BY DEF PickerInv, HostTyped, DialogsTyped, OwnersTyped, DialogsApart, ArcsServe, F!MapFollowsOwners, Ids

LEMMA AskKeepsFiles ==
  ASSUME F!FilePickerAssumption, PickerInv, NEW o \in Opens, NEW n \in DOMAIN owners, NEW kind \in KindsOf[o],
         F!open_keeping(o, n, kind)
  PROVE  PickerInv'
<1>1. /\ open[o].state = "idle" /\ None \in owners[n]
      /\ open' = [open EXCEPT ![o].state = "asked", ![o].kind = kind, ![o].id = n]
      /\ owners' = [owners EXCEPT ![n] = owners[n] \cup {o}]
      /\ UNCHANGED <<hooked, purged, disk, files, next_id, dialog, letgo, fds>>
  BY DEF F!open_keeping, F!hostVars
<1>2. /\ kind \in {"read", "write", "path"} /\ n \in Nat /\ open[o] \in OpenRecs
  BY DEF F!FilePickerAssumption, PickerInv, OwnersTyped, OpensTyped, HostTyped
<1>3. /\ open' \in [Opens -> OpenRecs] /\ \A p \in Opens \ {o} : open'[p] = open[p]
      /\ open'[o].state = "asked" /\ open'[o].id = n /\ open'[o].fd = open[o].fd /\ open'[o].err = open[o].err
  BY <1>1, <1>2 DEF PickerInv, OpensTyped, OpenRecs
<1>4. /\ DOMAIN owners' = DOMAIN owners /\ owners'[n] = owners[n] \cup {o}
      /\ \A m \in DOMAIN owners \ {n} : owners'[m] = owners[m]
  BY <1>1
<1>5. HostTyped' /\ DialogsTyped' /\ OwnersTyped' /\ OpensTyped'
  BY <1>1, <1>3, <1>4 DEF PickerInv, HostTyped, DialogsTyped, OwnersTyped, OpensTyped, Ids
<1>6. DialogsApart'
  BY <1>1, <1>4 DEF PickerInv, DialogsApart, Ids
<1>7. ArcsServe'
  BY <1>1, <1>4 DEF PickerInv, ArcsServe
<1>8. F!MapFollowsOwners'
  BY <1>1, <1>4 DEF PickerInv, F!MapFollowsOwners
<1>9. \A p \in Opens \ {o} : HasArc(p)' /\ ToldWhy(p)'
  BY <1>1, <1>3, <1>4, OtherOpens DEF PickerInv
<1>10. HasArc(o)' /\ ToldWhy(o)' /\ HasFd(o)'
  BY <1>1, <1>3, <1>4 DEF PickerInv, OpensHold, HasArc, ToldWhy, HasFd
<1>11. /\ \A p \in Opens \ {o} : HasFd(p)'
       /\ \A fd \in DOMAIN fds' : FdOwned(fd)'
  BY <1>1, <1>3, FdsStay DEF PickerInv
<1> QED BY <1>5, <1>6, <1>7, <1>8, <1>9, <1>10, <1>11 DEF PickerInv, OpensHold

\* The host answers without a descriptor.
LEMMA AnswerKeepsFiles ==
  ASSUME PickerInv, NEW o \in Opens, open[o].state \in {"asked", "abandoned"},
         NEW err \in {"none", "NotFound", "Io"},
         open' = [open EXCEPT ![o] = [open[o] EXCEPT !.err = err,
                                        !.state = IF open[o].state = "asked" THEN "answered" ELSE "lost"]],
         open[o].state = "asked" /\ err = "NotFound" => purged,
         UNCHANGED <<hooked, purged, disk, files, next_id, dialog, owners, letgo, fds>>
  PROVE  PickerInv'
<1> DEFINE r == [open[o] EXCEPT !.err = err, !.state = IF open[o].state = "asked" THEN "answered" ELSE "lost"]
<1>1. open[o] \in OpenRecs
  BY DEF PickerInv, OpensTyped
<1>2. /\ r \in OpenRecs /\ r.fd = open[o].fd /\ r.id = open[o].id /\ r.err = err
      /\ r.state = IF open[o].state = "asked" THEN "answered" ELSE "lost"
  BY <1>1 DEF OpenRecs
<1>3. open' = [open EXCEPT ![o] = r]
  OBVIOUS
<1> HIDE DEF r
<1>4. /\ open' \in [Opens -> OpenRecs] /\ open'[o] = r
      /\ \A p \in Opens \ {o} : open'[p] = open[p]
  BY <1>2, <1>3, OpenMoves DEF PickerInv
<1>5. OpensTyped'
  BY <1>4 DEF PickerInv, OpensTyped
<1>6. \A p \in Opens \ {o} : HasArc(p)' /\ ToldWhy(p)'
  BY <1>4, OtherOpens DEF PickerInv
<1>7. HasArc(o)' /\ ToldWhy(o)' /\ HasFd(o)'
  BY <1>2, <1>4 DEF PickerInv, OpensHold, HasArc, ToldWhy, HasFd
<1>8. /\ \A p \in Opens \ {o} : HasFd(p)'
      /\ \A fd \in DOMAIN fds' : FdOwned(fd)'
  BY <1>2, <1>4, FdsStay DEF PickerInv
<1> QED BY <1>5, <1>6, <1>7, <1>8, RestStays DEF PickerInv, OpensHold

\* The host answers with a descriptor, which nobody has but this open.
LEMMA RawKeepsFiles ==
  ASSUME PickerInv, NEW o \in Opens, open[o].state \in {"asked", "abandoned"}, F!raw_from_file(o),
         UNCHANGED <<hooked, purged, disk, files, next_id, dialog, owners, letgo>>
  PROVE  PickerInv'
<1>1. PICK fd \in Nat \ {0} :
        /\ fd \notin DOMAIN fds
        /\ fds' = [n \in DOMAIN fds \cup {fd} |-> IF n = fd THEN o ELSE fds[n]]
        /\ open' = [open EXCEPT ![o].fd = fd,
                                ![o].state = IF @ = "asked" THEN "answered" ELSE "lost"]
  BY FreeDescriptor DEF PickerInv
<1>2. open[o] \in OpenRecs /\ OpensTyped /\ OpensHold
  BY DEF PickerInv, OpensTyped
<1>3. /\ open' \in [Opens -> OpenRecs] /\ \A p \in Opens \ {o} : open'[p] = open[p]
      /\ open'[o].state = IF open[o].state = "asked" THEN "answered" ELSE "lost"
      /\ open'[o].fd = fd /\ open'[o].id = open[o].id /\ open'[o].err = open[o].err
  BY <1>1, <1>2 DEF OpensTyped, OpenRecs
<1>4. /\ DOMAIN fds' = DOMAIN fds \cup {fd} /\ fds'[fd] = o
      /\ \A n \in DOMAIN fds : fds'[n] = fds[n]
  BY <1>1
<1>5. IsFiniteSet(DOMAIN fds')
  <2>1. IsFiniteSet(DOMAIN fds \cup {fd})
    BY <1>2, FS_AddElement DEF OpensTyped
  <2> QED BY <1>4, <2>1
<1>6. OpensTyped'
  BY <1>2, <1>3, <1>4, <1>5 DEF OpensTyped
<1>7. \A p \in Opens \ {o} : HasArc(p)' /\ ToldWhy(p)'
  BY <1>2, <1>3, OtherOpens
<1>8. \A p \in Opens \ {o} : HasFd(p)'
  BY <1>2, <1>3, <1>4 DEF OpensHold, HasFd
<1>9. HasArc(o)' /\ ToldWhy(o)' /\ HasFd(o)'
  BY <1>2, <1>3, <1>4 DEF OpensHold, HasArc, ToldWhy, HasFd
<1>10. ASSUME NEW n \in DOMAIN fds' PROVE FdOwned(n)'
  <2>1. CASE n = fd
    BY <1>3, <1>4, <2>1 DEF FdOwned
  <2>2. CASE n # fd
    <3>1. n \in DOMAIN fds /\ FdOwned(n) /\ fds[n] \in Opens /\ fds'[n] = fds[n]
      BY <1>2, <1>4, <2>2 DEF OpensHold, OpensTyped
    <3>2. fds[n] # o
      BY <3>1 DEF FdOwned
    <3> QED BY <1>3, <3>1, <3>2 DEF FdOwned
  <2> QED BY <2>1, <2>2
<1> QED BY <1>6, <1>7, <1>8, <1>9, <1>10, RestStays DEF PickerInv, OpensHold

LEMMA HostAnswersKeepFiles ==
  ASSUME PickerInv, NEW o \in Opens
  PROVE  F!NotFound(o) \/ F!open_read(o) \/ F!open_write(o) \/ F!path(o) => PickerInv'
<1>0. open[o] \in OpenRecs /\ open \in [Opens -> OpenRecs] /\ HasArc(o) /\ ToldWhy(o)
  BY DEF PickerInv, OpensTyped, OpensHold
<1>1. ASSUME NEW err \in {"none", "NotFound", "Io"}, F!Fails(o, err)
      PROVE  open' = [open EXCEPT ![o] = [open[o] EXCEPT !.err = err,
                                            !.state = IF open[o].state = "asked" THEN "answered" ELSE "lost"]]
  BY <1>0, <1>1 DEF F!Fails, OpenRecs
<1>2. ASSUME F!NotFound(o) PROVE PickerInv'
  <2>1. open[o].state \in {"asked", "abandoned"} /\ open[o].id \notin DOMAIN files /\ F!Fails(o, "NotFound")
        /\ UNCHANGED <<hooked, purged, disk, files, next_id, dialog, owners, letgo, fds>>
    BY <1>2 DEF F!NotFound, F!AskedFor, F!lookup, F!hostVars
  <2>2. open[o].state = "asked" => purged
    BY <1>0, <2>1 DEF HasArc, PickerInv, ArcsServe
  <2> QED BY <1>1, <2>1, <2>2, AnswerKeepsFiles
<1>3. ASSUME F!open_read(o) \/ F!open_write(o) PROVE PickerInv'
  <2>1. /\ open[o].state \in {"asked", "abandoned"} /\ (F!Cannot(o) \/ F!raw_from_file(o))
        /\ UNCHANGED <<hooked, purged, disk, files, next_id, dialog, owners, letgo>>
    BY <1>3 DEF F!open_read, F!open_write, F!AskedFor, F!hostVars
  <2>2. CASE F!Cannot(o)
    <3>1. F!Fails(o, "Io") /\ UNCHANGED fds
      BY <2>2 DEF F!Cannot
    <3> QED BY <1>1, <2>1, <3>1, AnswerKeepsFiles
  <2>3. CASE F!raw_from_file(o)
    BY <2>1, <2>3, RawKeepsFiles
  <2> QED BY <2>1, <2>2, <2>3
<1>4. ASSUME F!path(o) PROVE PickerInv'
  <2>1. /\ open[o].state \in {"asked", "abandoned"}
        /\ open' = [open EXCEPT ![o].state = IF @ = "asked" THEN "answered" ELSE "lost"]
        /\ UNCHANGED <<hooked, purged, disk, files, next_id, dialog, owners, letgo, fds>>
    BY <1>4 DEF F!path, F!AskedFor, F!hostVars
  <2>2. open' = [open EXCEPT ![o] = [open[o] EXCEPT !.err = open[o].err,
                                       !.state = IF open[o].state = "asked" THEN "answered" ELSE "lost"]]
    BY <1>0, <2>1 DEF OpenRecs
  <2>3. open[o].err \in {"none", "NotFound", "Io"} /\ (open[o].state = "asked" => open[o].err = "none")
    BY <1>0 DEF OpenRecs, ToldWhy
  <2> QED BY <2>1, <2>2, <2>3, AnswerKeepsFiles
<1> QED BY <1>2, <1>3, <1>4

\* Whoever leaves lets the Arc go.
LEMMA LeaveKeepsFiles ==
  ASSUME F!FilePickerAssumption, PickerInv, NEW o \in Opens, open[o].state \in {"asked", "answered", "reading"},
         NEW st \in {"closed", "failed", "abandoned", "lost", "file"},
         open' = [open EXCEPT ![o] = [open[o] EXCEPT !.state = st]],
         st \in {"closed", "failed"} => open[o].state = "answered" /\ open[o].fd = 0,
         st = "abandoned" => open[o].state = "asked", st = "file" => open[o].state = "reading",
         st = "lost" => open[o].state = "answered",
         F!DropArc(open[o].id, o), UNCHANGED <<hooked, purged, disk, files, next_id, dialog, fds>>
  PROVE  PickerInv'
<1> DEFINE r == [open[o] EXCEPT !.state = st]
           n == open[o].id
<1>1. open[o] \in OpenRecs /\ HasArc(o) /\ ToldWhy(o) /\ HasFd(o)
  BY DEF PickerInv, OpensTyped, OpensHold
<1>2. r \in OpenRecs /\ r.fd = open[o].fd /\ r.id = open[o].id /\ r.err = open[o].err /\ r.state = st
  BY <1>1 DEF OpenRecs
<1>3. open' = [open EXCEPT ![o] = r]
  OBVIOUS
<1>4. n \in DOMAIN owners
  BY <1>1 DEF HasArc
<1>5. /\ HostTyped' /\ DialogsTyped' /\ OwnersTyped' /\ DialogsApart' /\ ArcsServe' /\ F!MapFollowsOwners'
      /\ \A m \in DOMAIN owners : m \in DOMAIN owners' /\ owners[m] \ {o} \subseteq owners'[m]
  BY <1>4, ArcDropped
<1> HIDE DEF r, n
<1>6. /\ open' \in [Opens -> OpenRecs] /\ open'[o] = r
      /\ \A p \in Opens \ {o} : open'[p] = open[p]
  BY <1>2, <1>3, OpenMoves DEF PickerInv
<1>7. OpensTyped'
  BY <1>6 DEF PickerInv, OpensTyped
<1>8. \A p \in Opens \ {o} : HasArc(p)' /\ ToldWhy(p)'
  BY <1>5, <1>6, OtherOpens DEF PickerInv
<1>9. HasArc(o)' /\ ToldWhy(o)'
  BY <1>1, <1>2, <1>6 DEF HasArc, ToldWhy
<1>10. HasFd(o)'
  BY <1>1, <1>2, <1>6 DEF HasFd
<1>11. /\ \A p \in Opens \ {o} : HasFd(p)'
       /\ \A fd \in DOMAIN fds' : FdOwned(fd)'
  BY <1>1, <1>2, <1>6, FdsStay DEF PickerInv, HasFd
<1> QED BY <1>5, <1>7, <1>8, <1>9, <1>10, <1>11 DEF PickerInv, OpensHold

\* Only the file that has a descriptor closes it.
LEMMA ClosesOwn ==
  ASSUME OpensTyped, OpensHold, NEW o \in Opens, open[o].state \in {"reading", "file"}, F!Close(o)
  PROVE  /\ OpensTyped'
         /\ open'[o].state = "closed" /\ \A p \in Opens \ {o} : open'[p] = open[p]
         /\ \A p \in Opens : HasFd(p)'
         /\ \A fd \in DOMAIN fds' : FdOwned(fd)'
<1>1. open[o] \in OpenRecs /\ HasFd(o)
  BY DEF OpensTyped, OpensHold
<1>2. /\ open' \in [Opens -> OpenRecs] /\ \A p \in Opens \ {o} : open'[p] = open[p]
      /\ open'[o].state = "closed" /\ open'[o].fd = open[o].fd
  BY <1>1 DEF F!Close, OpensTyped, OpenRecs
<1>3. /\ DOMAIN fds' = DOMAIN fds \ {open[o].fd}
      /\ \A n \in DOMAIN fds' : fds'[n] = fds[n]
  BY DEF F!Close
<1>4. fds[open[o].fd] = o /\ open[o].fd \in DOMAIN fds
  BY <1>1 DEF HasFd
<1>5. IsFiniteSet(DOMAIN fds')
  BY <1>3, FS_Subset DEF OpensTyped
<1>6. OpensTyped'
  BY <1>2, <1>3, <1>5 DEF OpensTyped
<1>7. ASSUME NEW n \in DOMAIN fds' PROVE fds[n] # o /\ FdOwned(n)'
  <2>1. n \in DOMAIN fds /\ n # open[o].fd /\ FdOwned(n) /\ fds[n] \in Opens
    BY <1>3, <1>7 DEF OpensHold, OpensTyped
  <2>2. fds[n] # o
    BY <2>1 DEF FdOwned
  <2> QED BY <1>2, <1>3, <2>1, <2>2 DEF FdOwned
<1>8. ASSUME NEW p \in Opens PROVE HasFd(p)'
  <2>1. CASE p = o
    BY <1>2, <2>1 DEF HasFd
  <2>2. CASE p # o
    <3>1. HasFd(p) /\ open'[p] = open[p]
      BY <1>2, <2>2 DEF OpensHold
    <3> QED BY <1>3, <1>4, <2>2, <3>1 DEF HasFd
  <2> QED BY <2>1, <2>2
<1> QED BY <1>2, <1>6, <1>7, <1>8

LEMMA ClientsKeepFiles ==
  ASSUME F!FilePickerAssumption, PickerInv, NEW o \in Opens
  PROVE  F!Opened(o) \/ F!AbandonOpen(o) \/ F!into_inner(o) \/ F!DropReader(o) \/ F!DropFile(o) => PickerInv'
<1>0. open[o] \in OpenRecs /\ HasArc(o) /\ ToldWhy(o) /\ HasFd(o) /\ OpensTyped /\ OpensHold
  BY DEF PickerInv, OpensTyped, OpensHold
<1>1. ASSUME NEW st, open' = [open EXCEPT ![o].state = st]
      PROVE  open' = [open EXCEPT ![o] = [open[o] EXCEPT !.state = st]]
  BY <1>1
<1>2. ASSUME F!Opened(o) PROVE PickerInv'
  <2>1. open[o].state = "answered" /\ UNCHANGED <<hooked, purged, disk, files, next_id, dialog, fds>>
    BY <1>2 DEF F!Opened, F!hostVars
  <2>2. ASSUME open[o].fd # 0, open' = [open EXCEPT ![o].state = "reading"], UNCHANGED <<owners, letgo>>
        PROVE  PickerInv'
    <3>1. /\ open' \in [Opens -> OpenRecs] /\ \A p \in Opens \ {o} : open'[p] = open[p]
          /\ open'[o].state = "reading" /\ open'[o].fd = open[o].fd /\ open'[o].id = open[o].id
      BY <1>0, <2>2 DEF OpensTyped, OpenRecs
    <3>2. OpensTyped'
      BY <1>0, <2>1, <3>1 DEF OpensTyped
    <3>3. \A p \in Opens \ {o} : HasArc(p)' /\ ToldWhy(p)'
      BY <1>0, <2>1, <2>2, <3>1, OtherOpens
    <3>4. HasArc(o)' /\ ToldWhy(o)' /\ HasFd(o)'
      BY <1>0, <2>1, <2>2, <3>1 DEF HasArc, ToldWhy, HasFd
    <3>5. (\A p \in Opens \ {o} : HasFd(p)') /\ (\A fd \in DOMAIN fds' : FdOwned(fd)')
      BY <1>0, <2>1, <3>1, FdsStay
    <3> QED BY <2>1, <2>2, <3>2, <3>3, <3>4, <3>5, RestStays DEF PickerInv, OpensHold
  <2>3. ASSUME open[o].fd = 0, F!DropArc(open[o].id, o),
               open' = [open EXCEPT ![o].state = IF open[o].err = "none" THEN "closed" ELSE "failed"]
        PROVE  PickerInv'
    <3>1. CASE open[o].err = "none"
      BY <1>1, <2>1, <2>3, <3>1, LeaveKeepsFiles
    <3>2. CASE open[o].err # "none"
      BY <1>1, <2>1, <2>3, <3>2, LeaveKeepsFiles
    <3> QED BY <3>1, <3>2
  <2> QED BY <1>2, <2>2, <2>3 DEF F!Opened
<1>3. ASSUME F!AbandonOpen(o) PROVE PickerInv'
  <2>1. /\ open[o].state \in {"asked", "answered"} /\ F!DropArc(open[o].id, o)
        /\ open' = [open EXCEPT ![o].state = IF open[o].state = "asked" THEN "abandoned" ELSE "lost"]
        /\ UNCHANGED <<hooked, purged, disk, files, next_id, dialog, fds>>
    BY <1>3 DEF F!AbandonOpen, F!hostVars
  <2>2. CASE open[o].state = "asked"
    BY <1>1, <2>1, <2>2, LeaveKeepsFiles
  <2>3. CASE open[o].state = "answered"
    BY <1>1, <2>1, <2>3, LeaveKeepsFiles
  <2> QED BY <2>1, <2>2, <2>3
<1>4. ASSUME F!into_inner(o) PROVE PickerInv'
  <2>1. /\ open[o].state = "reading" /\ F!DropArc(open[o].id, o)
        /\ open' = [open EXCEPT ![o].state = "file"]
        /\ UNCHANGED <<hooked, purged, disk, files, next_id, dialog, fds>>
    BY <1>4 DEF F!into_inner, F!hostVars
  <2> QED BY <1>1, <2>1, LeaveKeepsFiles
<1>5. ASSUME F!DropReader(o) PROVE PickerInv'
  <2>1. /\ open[o].state = "reading" /\ F!Close(o) /\ F!DropArc(open[o].id, o)
        /\ UNCHANGED <<hooked, purged, disk, files, next_id, dialog>>
    BY <1>5 DEF F!DropReader, F!hostVars
  <2>2. open[o].id \in DOMAIN owners
    BY <1>0, <2>1 DEF HasArc
  <2>3. /\ HostTyped' /\ DialogsTyped' /\ OwnersTyped' /\ DialogsApart' /\ ArcsServe' /\ F!MapFollowsOwners'
        /\ \A m \in DOMAIN owners : m \in DOMAIN owners' /\ owners[m] \ {o} \subseteq owners'[m]
    BY <2>1, <2>2, ArcDropped
  <2>4. /\ OpensTyped'
        /\ open'[o].state = "closed" /\ \A p \in Opens \ {o} : open'[p] = open[p]
        /\ \A p \in Opens : HasFd(p)'
        /\ \A fd \in DOMAIN fds' : FdOwned(fd)'
    BY <1>0, <2>1, ClosesOwn
  <2>5. \A p \in Opens \ {o} : HasArc(p)' /\ ToldWhy(p)'
    BY <1>0, <2>1, <2>3, <2>4, OtherOpens
  <2>6. HasArc(o)' /\ ToldWhy(o)'
    BY <2>4 DEF HasArc, ToldWhy
  <2> QED BY <2>3, <2>4, <2>5, <2>6 DEF PickerInv, OpensHold
<1>6. ASSUME F!DropFile(o) PROVE PickerInv'
  <2>1. /\ open[o].state = "file" /\ F!Close(o)
        /\ UNCHANGED <<hooked, purged, disk, files, next_id, dialog, owners, letgo>>
    BY <1>6 DEF F!DropFile, F!hostVars
  <2>2. /\ OpensTyped'
        /\ open'[o].state = "closed" /\ \A p \in Opens \ {o} : open'[p] = open[p]
        /\ \A p \in Opens : HasFd(p)'
        /\ \A fd \in DOMAIN fds' : FdOwned(fd)'
    BY <1>0, <2>1, ClosesOwn
  <2>3. \A p \in Opens \ {o} : HasArc(p)' /\ ToldWhy(p)'
    BY <1>0, <2>1, <2>2, OtherOpens
  <2>4. HasArc(o)' /\ ToldWhy(o)'
    BY <2>2 DEF HasArc, ToldWhy
  <2> QED BY <2>1, <2>2, <2>3, <2>4, RestStays DEF PickerInv, OpensHold
<1> QED BY <1>2, <1>3, <1>4, <1>5, <1>6

LEMMA FilesStart == F!Init => PickerInv
<1> SUFFICES ASSUME F!Init PROVE PickerInv
  OBVIOUS
<1>1. /\ hooked \in BOOLEAN /\ purged = FALSE /\ disk \subseteq Paths /\ next_id = 1 /\ letgo = {}
      /\ DOMAIN files = {} /\ DOMAIN owners = {} /\ DOMAIN fds = {}
      /\ dialog = [k \in Dialogs |-> [state |-> "idle", kind |-> "none", ids |-> <<>>, err |-> FALSE]]
      /\ open = [o \in Opens |-> [state |-> "idle", kind |-> "none", id |-> 0, fd |-> 0, err |-> "none"]]
  BY DEF F!Init, F!Closed
<1>2. \A k \in Dialogs : Ids(k) = {}
  BY <1>1 DEF Ids, F!Range
<1>3. HostTyped /\ OwnersTyped /\ ArcsServe /\ F!MapFollowsOwners
  <2>1. HostTyped
    <3>1. next_id \in Nat \ {0} /\ DOMAIN files \subseteq 1..(next_id - 1)
      BY <1>1
    <3>2. purged \in BOOLEAN /\ \A n \in DOMAIN files : files[n] \in Paths
      BY <1>1
    <3> QED BY <1>1, <3>1, <3>2 DEF HostTyped
  <2>2. OwnersTyped /\ ArcsServe
    BY <1>1 DEF OwnersTyped, ArcsServe
  <2>3. F!MapFollowsOwners
    BY <1>1 DEF F!MapFollowsOwners
  <2> QED BY <2>1, <2>2, <2>3
<1>4. DialogsTyped /\ DialogsApart
  <2>1. <<>> \in Seq(Nat)
    OBVIOUS
  <2>2. dialog \in [Dialogs -> DialogRecs]
    BY <1>1, <2>1 DEF DialogRecs
  <2> QED BY <1>1, <1>2, <2>2 DEF DialogsTyped, DialogsApart
<1>5. OpensTyped
  <2>1. IsFiniteSet(DOMAIN fds)
    BY <1>1, FS_EmptySet
  <2>2. open \in [Opens -> OpenRecs]
    BY <1>1 DEF OpenRecs
  <2> QED BY <1>1, <2>1, <2>2 DEF OpensTyped
<1>6. OpensHold
  BY <1>1 DEF OpensHold, HasArc, ToldWhy, HasFd
<1> QED BY <1>3, <1>4, <1>5, <1>6 DEF PickerInv

LEMMA FilesKeep == F!FilePickerAssumption /\ PickerInv /\ F!Next => PickerInv'
<1> SUFFICES ASSUME F!FilePickerAssumption, PickerInv, F!Next PROVE PickerInv'
  OBVIOUS
<1>1. ASSUME NEW k \in Dialogs,
             \/ \E kind \in {"pick_file", "pick_files", "save_file"} : F!Show(k, kind)
             \/ F!pick_file(k) \/ F!pick_files(k) \/ F!save_file(k) \/ F!AdoptPicked(k) \/ F!AbandonDialog(k)
      PROVE  PickerInv'
  BY <1>1, DialogsKeepFiles, AdoptKeepsFiles
<1>2. ASSUME NEW n \in DOMAIN owners,
             \/ F!DropPicked(n) \/ F!install_release_hook(n)
             \/ \E o \in Opens : \E kind \in KindsOf[o] : F!open_keeping(o, n, kind)
      PROVE  PickerInv'
  BY <1>2, OwnersKeepFiles, AskKeepsFiles
<1>3. ASSUME NEW o \in Opens,
             \/ F!NotFound(o) \/ F!open_read(o) \/ F!open_write(o) \/ F!path(o) \/ F!Opened(o)
             \/ F!AbandonOpen(o) \/ F!into_inner(o) \/ F!DropReader(o) \/ F!DropFile(o)
      PROVE  PickerInv'
  BY <1>3, HostAnswersKeepFiles, ClientsKeepFiles
<1>4. ASSUME F!purge \/ \E p \in Paths : F!Unlink(p) PROVE PickerInv'
  BY <1>4, OwnersKeepFiles
<1> QED BY <1>1, <1>2, <1>3, <1>4 DEF F!Next

LEMMA FilesServe == PickerInv => F!FilesStayOpenable
<1> SUFFICES ASSUME PickerInv PROVE F!FilesStayOpenable
  OBVIOUS
<1>1. F!TypeOK
  <2>1. F!Range(files) \subseteq Paths /\ F!Range(fds) \subseteq Opens
    BY DEF PickerInv, HostTyped, OpensTyped, F!Range
  <2>2. ASSUME NEW k \in Dialogs PROVE dialog[k].ids \in Seq(1..(next_id - 1))
    <3> DEFINE s == dialog[k].ids
               given == 1..(next_id - 1)
    <3>1. s \in Seq(Nat) /\ \A i \in DOMAIN s : s[i] \in given
      BY DEF PickerInv, DialogsTyped, DialogRecs, Ids, F!Range
    <3> HIDE DEF s, given
    <3>2. Len(s) \in Nat /\ s \in [1..Len(s) -> given]
      BY <3>1
    <3>3. s \in Seq(given)
      BY <3>2
    <3> QED BY <3>3 DEF s, given
  <2>3. \A k \in Dialogs : dialog[k] \in DialogRecs
    BY DEF PickerInv, DialogsTyped
  <2>4. \A o \in Opens : open[o] \in OpenRecs
    BY DEF PickerInv, OpensTyped
  <2>5. letgo \subseteq 1..(next_id - 1) /\ DOMAIN owners \subseteq 1..(next_id - 1)
    BY DEF PickerInv, OwnersTyped
  <2>6. hooked \in BOOLEAN /\ purged \in BOOLEAN /\ disk \subseteq Paths /\ DOMAIN files \subseteq 1..(next_id - 1)
    BY DEF PickerInv, HostTyped
  <2>7. \A k \in Dialogs :
          /\ dialog[k].state \in {"idle", "shown", "answered", "done", "abandoned"}
          /\ dialog[k].kind \in {"none", "pick_file", "pick_files", "save_file"}
    BY <2>3 DEF DialogRecs
  <2>8. \A o \in Opens :
          /\ open[o].state \in {"idle", "asked", "answered", "reading", "file", "closed",
                                "failed", "abandoned", "lost"}
          /\ open[o].kind \in {"none", "read", "write", "path"}
    BY <2>4 DEF OpenRecs
  <2> QED BY <2>1, <2>2, <2>5, <2>6, <2>7, <2>8 DEF F!TypeOK
<1>2. F!OwnedIsFound
  BY DEF PickerInv, ArcsServe, OpensHold, ToldWhy, F!OwnedIsFound
<1>3. F!DescriptorsOwnedOnce
  BY DEF PickerInv, OpensHold, HasFd, FdOwned, F!DescriptorsOwnedOnce
<1> QED BY <1>1, <1>2, <1>3 DEF PickerInv, F!FilesStayOpenable

\* Whoever drops what, and whatever is purged, abandoned, removed or answered
\* late: a number that is owned is in the picker's map, a descriptor is closed
\* by the file it was opened for, and the map keeps nothing without a reason
\* (fd_bridge.rs, PickedFileReader and PickedFileWriter).
THEOREM OwnersAreServed == AllSpec => []FilesServeOwners
<1>1. AllInit => PickerInv
  BY FilesStart DEF AllInit
<1>2. ASSUME PickerInv, [AllNext]_allVars PROVE PickerInv'
  <2>1. CASE F!Next
    BY <1>2, <2>1, FilesAssumption, FilesKeep
  <2>2. CASE UNCHANGED fileVars
    <3>1. UNCHANGED <<hooked, purged, disk, files, next_id, dialog, owners, letgo>>
      BY <2>2 DEF fileVars
    <3>2. OpensTyped' /\ OpensHold'
      BY <1>2, <2>2 DEF fileVars, PickerInv, OpensTyped, OpensHold, HasArc, ToldWhy, HasFd, FdOwned
    <3> QED BY <1>2, <3>1, <3>2, RestStays DEF PickerInv
  <2> QED BY <1>2, <2>1, <2>2 DEF AllNext, allVars
<1>3. PickerInv => FilesServeOwners
  BY FilesServe DEF FilesServeOwners
<1> QED BY <1>1, <1>2, <1>3, PTL DEF AllSpec
-----------------------------------------------------------------------------
(* Sessions of one camera host.                                            *)

Stages == {"idle", "asked", "metadata", "running", "sent", "open", "closed", "failed", "lost"}
Callers == {"idle", "waiting", "dropped", "served"} \cup C!Error

CallTypes ==
  /\ backend \in Backends /\ backend \in {"desktop", "web"}
  /\ stage \in [Sessions -> Stages] /\ caller \in [Sessions -> Callers]
  /\ tracks \subseteq Sessions /\ elements \subseteq Sessions /\ timers \subseteq Sessions
  /\ sessions \subseteq Sessions

\* How far host and caller are with a session ...
Together(s) ==
  /\ caller[s] = "idle" => stage[s] = "idle"
  /\ caller[s] = "waiting" => stage[s] \in {"asked", "metadata", "running", "sent"}
  /\ caller[s] = "served" <=> stage[s] \in {"open", "closed"}
  /\ stage[s] = "asked" => caller[s] \in {"waiting", "dropped"}
  /\ stage[s] \in {"running", "sent"} => caller[s] = "waiting"
  /\ stage[s] \in {"metadata", "sent"} \/ caller[s] = "dropped" => C!Web
  /\ stage[s] = "running" => C!Desktop

\* ... and what runs for it.
Runs(s) ==
  /\ s \in sessions <=> stage[s] = "open"
  /\ s \in timers <=> stage[s] \in {"running", "sent", "open"}
  /\ stage[s] \in {"running", "sent", "open", "metadata"} => s \in tracks /\ (C!Web => s \in elements)
  /\ s \in tracks \cup elements => stage[s] \in {"running", "sent", "open", "metadata", "lost"}
  /\ s \in elements => C!Web

CallInv == CallTypes /\ \A s \in Sessions : Together(s) /\ Runs(s)

\* A session that moves on leaves the others where they are.
Alone(s) ==
  /\ UNCHANGED backend
  /\ \A q \in Sessions \ {s} :
       /\ stage'[q] = stage[q] /\ caller'[q] = caller[q]
       /\ q \in tracks' <=> q \in tracks
       /\ q \in elements' <=> q \in elements
       /\ q \in timers' <=> q \in timers
       /\ q \in sessions' <=> q \in sessions

LEMMA AloneKeeps ==
  ASSUME CallInv, NEW s \in Sessions, Alone(s), CallTypes', Together(s)', Runs(s)'
  PROVE  CallInv'
<1>1. \A q \in Sessions \ {s} : Together(q)' /\ Runs(q)'
  BY DEF CallInv, Alone, Together, Runs, C!Web, C!Desktop
<1> QED BY <1>1 DEF CallInv

\* What a caller that waits is told of a failure.
LEMMA FailureIsTold ==
  ASSUME CallTypes, NEW s \in Sessions, NEW error, C!Fails(s, error)
  PROVE  /\ caller' \in [Sessions -> Callers]
         /\ \A q \in Sessions \ {s} : caller'[q] = caller[q]
         /\ IF caller[s] = "waiting" THEN caller'[s] \in C!CameraErrors ELSE caller'[s] = caller[s]
<1> DEFINE told == C!CameraErrorFrom([kind |-> "PluginError", decoded |-> error])
<1>1. told \in C!CameraErrors
  BY DEF C!CameraErrorFrom, C!CameraErrors
<1>2. caller' = [caller EXCEPT ![s] = IF @ = "waiting" THEN told ELSE @]
  BY DEF C!Fails, C!Answer
<1> HIDE DEF told
<1>3. C!CameraErrors \subseteq Callers
  BY DEF Callers, C!Error
<1> QED BY <1>1, <1>2, <1>3 DEF CallTypes

LEMMA ErrorsAreErrors ==
  C!CameraErrors \cap {"idle", "waiting", "dropped", "served"} = {} /\ C!CameraErrors \subseteq Callers
BY DEF C!CameraErrors, Callers, C!Error

\* A setup that fails, and what is left of it.
LEMMA FailsKeeps ==
  ASSUME CallInv, NEW s \in Sessions, NEW error, C!Fails(s, error), NEW st \in {"failed", "lost"}, C!Stage(s, st),
         stage[s] \in {"asked", "metadata", "running"},
         UNCHANGED <<backend, sessions>>,
         tracks' \subseteq Sessions, elements' \subseteq Sessions, timers' \subseteq Sessions,
         \A q \in Sessions \ {s} :
           /\ q \in tracks' <=> q \in tracks
           /\ q \in elements' <=> q \in elements
           /\ q \in timers' <=> q \in timers,
         s \notin timers', st = "failed" => s \notin tracks' \cup elements', s \in elements' => C!Web
  PROVE  CallInv'
<1>1. /\ stage' = [stage EXCEPT ![s] = st] /\ stage \in [Sessions -> Stages] /\ st \in Stages
      /\ Together(s) /\ Runs(s) /\ CallTypes
  BY DEF C!Stage, CallInv, CallTypes, Stages
<1>2. /\ stage' \in [Sessions -> Stages] /\ stage'[s] = st
      /\ \A q \in Sessions \ {s} : stage'[q] = stage[q]
  BY <1>1
<1>3. /\ caller' \in [Sessions -> Callers]
      /\ \A q \in Sessions \ {s} : caller'[q] = caller[q]
      /\ IF caller[s] = "waiting" THEN caller'[s] \in C!CameraErrors ELSE caller'[s] = caller[s]
  BY <1>1, FailureIsTold
<1>4. CallTypes' /\ Alone(s)
  BY <1>1, <1>2, <1>3 DEF CallTypes, Alone
<1>5. caller'[s] \notin {"idle", "waiting", "served"} /\ (caller'[s] = "dropped" => caller[s] = "dropped")
  BY <1>1, <1>3, ErrorsAreErrors DEF Together
<1>6. Together(s)' /\ Runs(s)'
  BY <1>1, <1>2, <1>5 DEF Together, Runs, C!Web, C!Desktop
<1> QED BY <1>4, <1>6, AloneKeeps

LEMMA OpeningKeeps ==
  ASSUME CallInv, NEW s \in Sessions, C!Opening(s)
  PROVE  CallInv'
<1>0. /\ CallTypes /\ Together(s) /\ Runs(s)
      /\ stage[s] \in Stages /\ caller[s] \in Callers
  BY DEF CallInv, CallTypes
<1>1. ASSUME NEW c \in Configs, C!open(s, c) PROVE CallInv'
  <2>1. /\ caller[s] = "idle" /\ stage[s] = "idle"
        /\ UNCHANGED <<backend, tracks, elements, timers, sessions>>
        /\ \/ caller' = [caller EXCEPT ![s] = "waiting"] /\ stage' = [stage EXCEPT ![s] = "asked"]
           \/ caller' = [caller EXCEPT ![s] = "FormatUnsupported"] /\ UNCHANGED stage
    BY <1>0, <1>1 DEF C!open, C!held, C!Stage, Together
  <2>2. "waiting" \in Callers /\ "FormatUnsupported" \in Callers /\ "asked" \in Stages
    BY DEF Callers, Stages, C!Error, C!CameraErrors
  <2>3. CallTypes' /\ Alone(s)
    BY <1>0, <2>1, <2>2 DEF CallTypes, Alone
  <2>4. Together(s)' /\ Runs(s)'
    BY <1>0, <2>1 DEF Together, Runs, CallTypes
  <2> QED BY <2>3, <2>4, AloneKeeps
<1>2. ASSUME C!OpenStream(s) PROVE CallInv'
  <2>1. /\ stage[s] = "asked" /\ backend = "desktop" /\ tracks' = tracks \cup {s} /\ timers' = timers \cup {s}
        /\ stage' = [stage EXCEPT ![s] = "running"] /\ "running" \in Stages
        /\ UNCHANGED <<backend, caller, elements, sessions>>
    BY <1>2 DEF C!OpenStream, C!Stage, C!Desktop, Stages
  <2>2. CallTypes' /\ Alone(s)
    BY <1>0, <2>1 DEF CallTypes, Alone
  <2>3. Together(s)' /\ Runs(s)'
    BY <1>0, <2>1 DEF Together, Runs, CallTypes, C!Web, C!Desktop
  <2> QED BY <2>2, <2>3, AloneKeeps
<1>3. ASSUME C!OpenStreamFails(s) PROVE CallInv'
  BY <1>0, <1>3, FailsKeeps DEF C!OpenStreamFails, C!held, Runs, CallTypes
<1>4. ASSUME C!CameraFormatFails(s) PROVE CallInv'
  <2>1. /\ stage[s] = "running" /\ tracks' = tracks \ {s} /\ timers' = timers \ {s}
        /\ C!Stage(s, "failed") /\ C!Fails(s, "Backend") /\ UNCHANGED <<backend, sessions, elements>>
    BY <1>4 DEF C!CameraFormatFails
  <2>2. s \notin elements
    BY <1>0, <2>1 DEF Together, Runs, C!Web, C!Desktop
  <2> QED BY <1>0, <2>1, <2>2, FailsKeeps DEF CallTypes
<1>5. ASSUME NEW err \in Thrown, C!GetUserMediaFails(s, err) PROVE CallInv'
  BY <1>0, <1>5, FailsKeeps DEF C!GetUserMediaFails, C!held, Runs, CallTypes
<1>6. ASSUME C!install_dom(s) PROVE CallInv'
  <2>1. /\ stage[s] = "asked" /\ backend = "web" /\ tracks' = tracks \cup {s} /\ elements' = elements \cup {s}
        /\ stage' = [stage EXCEPT ![s] = "metadata"] /\ "metadata" \in Stages
        /\ UNCHANGED <<backend, caller, timers, sessions>>
    BY <1>6 DEF C!install_dom, C!GivesStream, C!Stage, C!Web, Stages
  <2>2. CallTypes' /\ Alone(s)
    BY <1>0, <2>1 DEF CallTypes, Alone
  <2>3. Together(s)' /\ Runs(s)'
    BY <1>0, <2>1 DEF Together, Runs, CallTypes, C!Web, C!Desktop
  <2> QED BY <2>2, <2>3, AloneKeeps
<1>7. ASSUME C!InstallDomFails(s) PROVE CallInv'
  <2>1. /\ stage[s] = "asked" /\ C!Web /\ tracks' = tracks \cup {s}
        /\ elements' = elements \/ elements' = elements \cup {s}
        /\ C!Stage(s, "lost") /\ C!Fails(s, "Backend") /\ UNCHANGED <<backend, sessions, timers>>
    BY <1>7 DEF C!InstallDomFails, C!GivesStream
  <2>2. s \notin timers
    BY <1>0, <2>1 DEF Runs
  <2>3. tracks' \subseteq Sessions /\ elements' \subseteq Sessions /\ timers' \subseteq Sessions
    BY <1>0, <2>1 DEF CallTypes
  <2> QED BY <2>1, <2>2, <2>3, FailsKeeps
<1>8. ASSUME C!wait_for_metadata(s) PROVE CallInv'
  <2>1. /\ stage[s] = "metadata" /\ backend = "web" /\ UNCHANGED <<backend, caller, sessions>>
        /\ \/ /\ caller[s] = "waiting" /\ stage' = [stage EXCEPT ![s] = "sent"] /\ timers' = timers \cup {s}
              /\ UNCHANGED <<tracks, elements>>
           \/ /\ caller[s] # "waiting" /\ stage' = [stage EXCEPT ![s] = "failed"]
              /\ tracks' = tracks \ {s} /\ elements' = elements \ {s} /\ UNCHANGED timers
    BY <1>8 DEF C!wait_for_metadata, C!Stage, C!Web
  <2>2. CallTypes' /\ Alone(s)
    BY <1>0, <2>1 DEF CallTypes, Alone, Stages
  <2>3. Together(s)' /\ Runs(s)'
    BY <1>0, <2>1 DEF Together, Runs, CallTypes, C!Web, C!Desktop
  <2> QED BY <2>2, <2>3, AloneKeeps
<1>9. ASSUME C!SetIntervalFails(s) PROVE CallInv'
  BY <1>0, <1>9, FailsKeeps DEF C!SetIntervalFails, C!held, Runs, CallTypes
<1>10. ASSUME C!Insert(s) PROVE CallInv'
  <2>1. /\ stage[s] \in {"sent", "running"} /\ caller[s] = "waiting" /\ sessions' = sessions \cup {s}
        /\ stage' = [stage EXCEPT ![s] = "open"] /\ caller' = [caller EXCEPT ![s] = "served"]
        /\ UNCHANGED <<backend, tracks, elements, timers>>
    BY <1>0, <1>10 DEF C!Insert, C!Stage, C!Answer, CallTypes
  <2>2. CallTypes' /\ Alone(s)
    BY <1>0, <2>1 DEF CallTypes, Alone, Stages, Callers
  <2>3. Together(s)' /\ Runs(s)'
    BY <1>0, <2>1 DEF Together, Runs, CallTypes, C!Web, C!Desktop
  <2> QED BY <2>2, <2>3, AloneKeeps
<1>11. ASSUME C!Abandon(s) PROVE CallInv'
  <2>1. /\ backend = "web" /\ caller[s] = "waiting" /\ caller' = [caller EXCEPT ![s] = "dropped"]
        /\ UNCHANGED <<backend, sessions>>
        /\ \/ /\ stage[s] = "sent" /\ stage' = [stage EXCEPT ![s] = "failed"]
              /\ timers' = timers \ {s} /\ tracks' = tracks \ {s} /\ elements' = elements \ {s}
           \/ stage[s] # "sent" /\ UNCHANGED <<stage, timers, tracks, elements>>
    BY <1>11 DEF C!Abandon, C!Stage, C!DropEntries, C!Web
  <2>2. CallTypes' /\ Alone(s)
    BY <1>0, <2>1 DEF CallTypes, Alone, Stages, Callers
  <2>3. Together(s)' /\ Runs(s)'
    BY <1>0, <2>1 DEF Together, Runs, CallTypes, C!Web, C!Desktop
  <2> QED BY <2>2, <2>3, AloneKeeps
<1>12. ASSUME C!close(s) PROVE CallInv'
  <2>1. /\ stage[s] = "open" /\ sessions' = sessions \ {s} /\ stage' = [stage EXCEPT ![s] = "closed"]
        /\ timers' = timers \ {s} /\ tracks' = tracks \ {s} /\ elements' = elements \ {s}
        /\ UNCHANGED <<backend, caller>>
    BY <1>12 DEF C!close, C!Stage, C!DropEntries
  <2>2. CallTypes' /\ Alone(s)
    BY <1>0, <2>1 DEF CallTypes, Alone, Stages
  <2>3. Together(s)' /\ Runs(s)'
    BY <1>0, <2>1 DEF Together, Runs, CallTypes, C!Web, C!Desktop
  <2> QED BY <2>2, <2>3, AloneKeeps
<1> QED BY <1>1, <1>2, <1>3, <1>4, <1>5, <1>6, <1>7, <1>8, <1>9, <1>10, <1>11, <1>12 DEF C!Opening

\* What is done with sessions that run opens and closes none.
LEMMA CallsStay ==
  ASSUME CallInv, UNCHANGED <<backend, stage, caller, tracks, elements, timers, sessions>>
  PROVE  CallInv'
BY DEF CallInv, CallTypes, Together, Runs, C!Web, C!Desktop

LEMMA OthersLeaveCalls ==
  ASSUME NEW s \in Sessions,
         C!Filming(s) \/ C!Controlling(s) \/ C!request_access \/ \E err \in Thrown : C!PromptAnswered(err)
  PROVE  UNCHANGED <<backend, stage, caller, tracks, elements, timers, sessions, config>>
<1>1. CASE C!Filming(s)
  <2>1. UNCHANGED <<C!calls, C!held>>
    BY <1>1 DEF C!Filming, C!Turn, C!Pump, C!ReadFails, C!Read, C!capture_still
  <2> QED BY <2>1 DEF C!calls, C!held
<1>2. CASE C!Controlling(s)
  <2>1. UNCHANGED <<C!calls, C!held>>
    BY <1>2 DEF C!Controlling, C!DesktopApply, C!WebApply, C!WebApplied
  <2> QED BY <2>1 DEF C!calls, C!held
<1>3. CASE C!request_access \/ \E err \in Thrown : C!PromptAnswered(err)
  BY <1>3 DEF C!request_access, C!PromptAnswered, C!held
<1> QED BY <1>1, <1>2, <1>3

\* Permission: what is granted stays so, and so does what is denied.
AccessInv ==
  /\ access \in {"prompt", "granted", "denied"}
  /\ prompt \in {"idle", "asked", "Granted", "Denied", "Backend"}
  /\ C!Desktop => prompt \in {"idle", "Granted"}
  /\ C!Web /\ prompt = "Granted" => access = "granted"
  /\ C!Web /\ prompt = "Denied" => access = "denied"

LEMMA AccessKeeps ==
  ASSUME AccessInv, CallInv, C!Next
  PROVE  AccessInv'
<1>1. ASSUME NEW s \in Sessions, C!Opening(s) PROVE AccessInv'
  <2>1. UNCHANGED <<backend, prompt>>
    BY <1>1 DEF C!Opening, C!open, C!OpenStream, C!OpenStreamFails, C!CameraFormatFails, C!GetUserMediaFails,
       C!install_dom, C!InstallDomFails, C!wait_for_metadata, C!SetIntervalFails, C!Insert, C!Abandon, C!close
  <2>2. \/ UNCHANGED access
        \/ access # "denied" /\ access' = "granted"
        \/ access # "granted" /\ access' = "denied"
    <3>1. ASSUME NEW err \in Thrown, C!GetUserMediaFails(s, err) 
          PROVE  UNCHANGED access \/ (access # "granted" /\ access' = "denied")
      BY <3>1 DEF C!GetUserMediaFails, C!Refusal
    <3>2. ASSUME C!install_dom(s) \/ C!InstallDomFails(s) PROVE access # "denied" /\ access' = "granted"
      BY <3>2 DEF C!install_dom, C!InstallDomFails, C!GivesStream
    <3> QED BY <1>1, <3>1, <3>2 DEF C!Opening, C!open, C!OpenStream, C!OpenStreamFails, C!CameraFormatFails,
       C!wait_for_metadata, C!SetIntervalFails, C!Insert, C!Abandon, C!close
  <2> QED BY <2>1, <2>2 DEF AccessInv, C!Web, C!Desktop
<1>2. ASSUME NEW s \in Sessions, C!Filming(s) \/ C!Controlling(s) PROVE AccessInv'
  <2>1. UNCHANGED C!calls
    BY <1>2 DEF C!Filming, C!Turn, C!Pump, C!ReadFails, C!Read, C!capture_still,
       C!Controlling, C!DesktopApply, C!WebApply, C!WebApplied
  <2> QED BY <2>1 DEF C!calls, AccessInv, C!Web, C!Desktop
<1>3. ASSUME C!request_access PROVE AccessInv'
  BY <1>3 DEF C!request_access, AccessInv, C!Web, C!Desktop, CallInv, CallTypes
<1>4. ASSUME NEW err \in Thrown, C!PromptAnswered(err) PROVE AccessInv'
  <2>1. prompt = "asked" /\ UNCHANGED backend
    BY <1>4 DEF C!PromptAnswered
  <2>2. CASE access # "denied" /\ access' = "granted" /\ prompt' = "Granted"
    BY <2>1, <2>2 DEF AccessInv, C!Web, C!Desktop
  <2>3. ASSUME C!Refusal(err),
               prompt' = IF C!classify_get_user_media_error(err) = "PermissionDenied" THEN "Denied" ELSE "Backend"
        PROVE  AccessInv'
    <3>1. access' \in {access, "denied"} /\ (prompt' = "Denied" => access' = "denied")
      <4>1. ASSUME C!classify_get_user_media_error(err) = "PermissionDenied"
            PROVE  err.name \in {"NotAllowedError", "PermissionDeniedError"}
        BY <4>1 DEF C!classify_get_user_media_error, C!js_err
      <4> QED BY <2>3, <4>1 DEF C!Refusal, C!Refuses
    <3>2. prompt' \in {"Denied", "Backend"}
      BY <2>3
    <3> QED BY <2>1, <3>1, <3>2 DEF AccessInv, C!Web, C!Desktop
  <2> QED BY <1>4, <2>2, <2>3 DEF C!PromptAnswered
<1> QED BY <1>1, <1>2, <1>3, <1>4 DEF C!Next

\* What a session shows is what its client was told.
Dot == Nat \X Nat
PictureTypes ==
  /\ picture \in [Sessions -> Dot] /\ size \in [Sessions -> Dot]
  /\ stamped \in [Sessions -> Nat] /\ missed \in [Sessions -> {0, 1}]
  /\ DOMAIN config = Sessions /\ DOMAIN queue = Sessions /\ DOMAIN still = Sessions

Told(s) == config[s].pixel_format
FramesOf(s) ==
  [seq : Nat, resolution : {size[s]}, pixel_format : {Told(s)}, plane : {C!FramePlane(size[s])},
   bytes : {C!OrderOf(Told(s))}, dropped_before : {0, 1}]

Early == {"idle", "asked", "metadata"}
Pictures(s) ==
  /\ stage[s] # "idle" => Told(s) \in C!Packed
  /\ stage[s] \in Early => queue[s] = <<>> /\ still[s] = None
  /\ queue[s] \in Seq(FramesOf(s))
  /\ still[s] \in {None, C!StillPhoto(size[s], Told(s), C!OrderOf(Told(s)))}

PictureInv == PictureTypes /\ \A s \in Sessions : Pictures(s)

LEMMA PicturesMove ==
  ASSUME PictureInv, NEW s \in Sessions, UNCHANGED <<queue, stamped, missed, still>>,
         picture' \in [Sessions -> Dot], size' \in [Sessions -> Dot], DOMAIN config' = Sessions,
         \A q \in Sessions \ {s} : stage'[q] = stage[q] /\ config'[q] = config[q] /\ size'[q] = size[q],
         stage'[s] \in Early => stage[s] \in Early,
         \/ config'[s] = config[s] /\ size'[s] = size[s]
         \/ stage[s] \in Early,
         stage'[s] # "idle" => config'[s].pixel_format \in C!Packed
  PROVE  PictureInv'
<1>1. PictureTypes'
  BY DEF PictureInv, PictureTypes
<1>2. ASSUME NEW q \in Sessions \ {s} PROVE Pictures(q)'
  <2>1. Told(q)' = Told(q) /\ Pictures(q) /\ size'[q] = size[q] /\ stage'[q] = stage[q]
    BY DEF Told, PictureInv
  <2>2. FramesOf(q)' = FramesOf(q)
    BY <2>1 DEF FramesOf
  <2> QED BY <2>1, <2>2 DEF Pictures
<1>3. Pictures(s)'
  <2>1. Pictures(s)
    BY DEF PictureInv
  <2>2. CASE config'[s] = config[s] /\ size'[s] = size[s]
    <3>1. Told(s)' = Told(s)
      BY <2>2 DEF Told
    <3>2. FramesOf(s)' = FramesOf(s)
      BY <2>2, <3>1 DEF FramesOf
    <3>3. stage'[s] # "idle" => Told(s)' \in C!Packed
      BY DEF Told
    <3>4. queue'[s] \in Seq(FramesOf(s)')
      BY <2>1, <3>2 DEF Pictures
    <3>5. still'[s] \in {None, C!StillPhoto(size[s], Told(s), C!OrderOf(Told(s)))}
      BY <2>1 DEF Pictures
    <3>6. stage'[s] \in Early => queue'[s] = <<>> /\ still'[s] = None
      BY <2>1 DEF Pictures
    <3> QED BY <2>2, <3>1, <3>3, <3>4, <3>5, <3>6 DEF Pictures
  <2>3. CASE stage[s] \in Early
    <3>1. queue'[s] = <<>> /\ still'[s] = None
      BY <2>1, <2>3 DEF Pictures
    <3>2. <<>> \in Seq(FramesOf(s)')
      OBVIOUS
    <3>3. stage'[s] # "idle" => Told(s)' \in C!Packed
      BY DEF Told
    <3> QED BY <3>1, <3>2, <3>3 DEF Pictures
  <2> QED BY <2>2, <2>3
<1> QED BY <1>1, <1>2, <1>3 DEF PictureInv

LEMMA OpeningShows ==
  ASSUME C!CameraSessionsAssumption, CallInv, PictureInv, NEW s \in Sessions, C!Opening(s)
  PROVE  PictureInv'
<1>0. /\ CallTypes /\ Together(s) /\ PictureTypes /\ Pictures(s)
      /\ stage[s] \in Stages /\ Sizes \subseteq Dot
  BY DEF CallInv, CallTypes, PictureInv, C!CameraSessionsAssumption, Dot
<1>1. UNCHANGED <<queue, stamped, missed, still>>
  BY DEF C!frameVars, C!Opening, C!open, C!OpenStream, C!OpenStreamFails, C!CameraFormatFails, C!GetUserMediaFails,
     C!install_dom, C!InstallDomFails, C!wait_for_metadata, C!SetIntervalFails, C!Insert, C!Abandon, C!close
\* A step of a session that was begun.
<1>2. ASSUME NEW st \in Stages, stage' = [stage EXCEPT ![s] = st] \/ UNCHANGED stage,
             st \in Early => stage[s] \in Early, stage[s] # "idle",
             UNCHANGED config,
             picture' \in [Sessions -> Dot], size' \in [Sessions -> Dot],
             \A q \in Sessions \ {s} : size'[q] = size[q],
             size'[s] = size[s] \/ stage[s] \in Early
      PROVE  PictureInv'
  <2>1. \A q \in Sessions \ {s} : stage'[q] = stage[q]
    BY <1>0, <1>2 DEF CallTypes
  <2>2. stage'[s] \in Early => stage[s] \in Early
    BY <1>0, <1>2 DEF CallTypes
  <2>3. config[s].pixel_format \in C!Packed
    BY <1>0, <1>2 DEF Pictures, Told
  <2> QED BY <1>0, <1>1, <1>2, <2>1, <2>2, <2>3, PicturesMove DEF PictureTypes
<1>3. ASSUME NEW c \in Configs, C!open(s, c) PROVE PictureInv'
  <2>1. /\ stage[s] = "idle" /\ config' = [config EXCEPT ![s] = c] /\ UNCHANGED <<picture, size>>
        /\ \/ c.pixel_format \in C!Packed /\ stage' = [stage EXCEPT ![s] = "asked"]
           \/ UNCHANGED stage
    BY <1>0, <1>3 DEF C!open, C!Stage, C!shown, Together
  <2>2. DOMAIN config' = Sessions /\ config'[s] = c /\ \A q \in Sessions \ {s} : config'[q] = config[q]
    BY <1>0, <2>1 DEF PictureTypes
  <2>3. \A q \in Sessions \ {s} : stage'[q] = stage[q]
    BY <1>0, <2>1 DEF CallTypes
  <2>4. stage'[s] # "idle" => config'[s].pixel_format \in C!Packed
    BY <1>0, <2>1, <2>2 DEF CallTypes
  <2> QED BY <1>0, <1>1, <2>1, <2>2, <2>3, <2>4, PicturesMove DEF PictureTypes, Early
<1>4. ASSUME C!OpenStream(s) PROVE PictureInv'
  <2>1. PICK p \in Sizes : picture' = [picture EXCEPT ![s] = p] /\ size' = [size EXCEPT ![s] = p]
    <3>1. C!Offered(C!requested_format(config[s])) \subseteq Sizes
      BY DEF C!Offered
    <3> QED BY <1>4, <3>1 DEF C!OpenStream
  <2>2. stage[s] = "asked" /\ stage' = [stage EXCEPT ![s] = "running"] /\ UNCHANGED config
    BY <1>4 DEF C!OpenStream, C!Stage
  <2>3. /\ picture' \in [Sessions -> Dot] /\ size' \in [Sessions -> Dot]
        /\ \A q \in Sessions \ {s} : size'[q] = size[q]
    BY <1>0, <2>1 DEF PictureTypes
  <2> QED BY <1>2, <2>2, <2>3 DEF Stages, Early
<1>5. ASSUME C!install_dom(s) PROVE PictureInv'
  <2>1. PICK p \in Sizes : picture' = [picture EXCEPT ![s] = p]
    BY <1>5 DEF C!install_dom
  <2>2. stage[s] = "asked" /\ stage' = [stage EXCEPT ![s] = "metadata"] /\ UNCHANGED <<config, size>>
    BY <1>5 DEF C!install_dom, C!GivesStream, C!Stage
  <2>3. picture' \in [Sessions -> Dot] /\ size' \in [Sessions -> Dot]
    BY <1>0, <2>1, <2>2 DEF PictureTypes
  <2> QED BY <1>2, <2>2, <2>3 DEF Stages, Early
<1>6. ASSUME size' = C!SizeOf(s)
      PROVE  size' \in [Sessions -> Dot] /\ \A q \in Sessions \ {s} : size'[q] = size[q]
  <2> DEFINE p == picture[s]
             dot == <<IF p[1] < 1 THEN 1 ELSE p[1], IF p[2] < 1 THEN 1 ELSE p[2]>>
  <2>1. size' = [size EXCEPT ![s] = dot]
    BY <1>6 DEF C!SizeOf
  <2>2. p \in Dot
    BY <1>0 DEF PictureTypes
  <2>3. dot \in Dot
    BY <2>2 DEF Dot
  <2> HIDE DEF dot
  <2> QED BY <1>0, <2>1, <2>3 DEF PictureTypes
<1>7. ASSUME C!wait_for_metadata(s) \/ C!SetIntervalFails(s) PROVE PictureInv'
  <2>1. /\ stage[s] = "metadata" /\ size' = C!SizeOf(s) /\ UNCHANGED <<config, picture>>
        /\ \E st \in {"sent", "failed", "lost"} : stage' = [stage EXCEPT ![s] = st]
    BY <1>7 DEF C!wait_for_metadata, C!SetIntervalFails, C!Stage
  <2>2. picture' \in [Sessions -> Dot]
    BY <1>0, <2>1 DEF PictureTypes
  <2> QED BY <1>2, <1>6, <2>1, <2>2 DEF Stages, Early
\* The others leave the size alone.
<1>8. ASSUME \/ C!OpenStreamFails(s) \/ C!CameraFormatFails(s) \/ C!InstallDomFails(s) \/ C!Insert(s) \/ C!close(s)
             \/ \E err \in Thrown : C!GetUserMediaFails(s, err)
      PROVE  PictureInv'
  <2>1. /\ UNCHANGED <<config, picture, size>> /\ stage[s] # "idle"
        /\ \E st \in {"failed", "lost", "open", "closed"} : stage' = [stage EXCEPT ![s] = st]
    BY <1>8 DEF C!OpenStreamFails, C!CameraFormatFails, C!InstallDomFails, C!GivesStream, C!Insert, C!close,
       C!GetUserMediaFails, C!Stage, C!shown
  <2>2. picture' \in [Sessions -> Dot] /\ size' \in [Sessions -> Dot]
    BY <1>0, <2>1 DEF PictureTypes
  <2> QED BY <1>2, <2>1, <2>2 DEF Stages, Early
<1>9. ASSUME C!Abandon(s) PROVE PictureInv'
  <2>1. /\ UNCHANGED <<config, picture, size>> /\ caller[s] = "waiting"
        /\ UNCHANGED stage \/ stage' = [stage EXCEPT ![s] = "failed"]
    BY <1>9 DEF C!Abandon, C!Stage, C!shown
  <2>2. picture' \in [Sessions -> Dot] /\ size' \in [Sessions -> Dot] /\ stage[s] # "idle"
    BY <1>0, <2>1 DEF PictureTypes, Together
  <2> QED BY <1>2, <2>1, <2>2 DEF Stages, Early
<1> QED BY <1>3, <1>4, <1>5, <1>7, <1>8, <1>9 DEF C!Opening

\* What a session that runs delivers.
LEMMA DeliversAsTold == \A format : C!Delivered(format) = C!OrderOf(format)
BY DEF C!Delivered, C!OrderOf, C!swap_rb_in_place, C!Rgba

LEMMA FilmingShows ==
  ASSUME C!CameraSessionsAssumption, CallInv, PictureInv, NEW s \in Sessions, C!Filming(s)
  PROVE  PictureInv'
<1>0. /\ CallTypes /\ Runs(s) /\ PictureTypes /\ Pictures(s) /\ Sizes \subseteq Dot
      /\ s \in Filmed => s \in Sessions
  BY DEF CallInv, PictureInv, C!CameraSessionsAssumption, Dot
<1>1. UNCHANGED <<stage, config, size>> /\ (\A q \in Sessions : Told(q)' = Told(q) /\ FramesOf(q)' = FramesOf(q))
  <2>1. UNCHANGED <<stage, config, size>>
    BY DEF C!Filming, C!Turn, C!Pump, C!ReadFails, C!Read, C!capture_still, C!calls, C!shown
  <2>2. \A q \in Sessions : Told(q)' = Told(q)
    BY <2>1 DEF Told
  <2> QED BY <2>1, <2>2 DEF FramesOf
\* Only this session, and only when it is set up.
<1>2. ASSUME PictureTypes', \A q \in Sessions \ {s} : queue'[q] = queue[q] /\ still'[q] = still[q],
             stage[s] \in Early => UNCHANGED <<queue, still>>,
             queue'[s] \in Seq(FramesOf(s)),
             still'[s] \in {still[s], C!StillPhoto(size[s], Told(s), C!OrderOf(Told(s)))}
      PROVE  PictureInv'
  <2>1. ASSUME NEW q \in Sessions \ {s} PROVE Pictures(q)'
    <3>1. Pictures(q)
      BY DEF PictureInv
    <3> QED BY <1>1, <1>2, <3>1 DEF Pictures
  <2>2. Pictures(s)'
    <3>1. still'[s] \in {None, C!StillPhoto(size[s], Told(s), C!OrderOf(Told(s)))}
      BY <1>0, <1>2 DEF Pictures
    <3>2. stage'[s] \in Early => queue'[s] = <<>> /\ still'[s] = None
      BY <1>0, <1>1, <1>2 DEF Pictures
    <3>3. stage'[s] # "idle" => Told(s)' \in C!Packed
      BY <1>0, <1>1 DEF Pictures
    <3>4. queue'[s] \in Seq(FramesOf(s)')
      BY <1>1, <1>2
    <3> QED BY <1>1, <3>1, <3>2, <3>3, <3>4 DEF Pictures
  <2> QED BY <1>2, <2>1, <2>2 DEF PictureInv
<1>3. queue[s] \in Seq(FramesOf(s))
  BY <1>0 DEF Pictures
<1>4. ASSUME C!Turn(s) PROVE PictureInv'
  <2>1. PICK p \in Sizes : picture' = [picture EXCEPT ![s] = p]
    BY <1>4 DEF C!Turn
  <2>2. UNCHANGED <<queue, stamped, missed, still>>
    BY <1>4 DEF C!Turn, C!frameVars
  <2>3. PictureTypes'
    BY <1>0, <1>1, <2>1, <2>2 DEF PictureTypes
  <2> QED BY <1>2, <1>3, <2>2, <2>3
<1>5. ASSUME C!Pump(s) PROVE PictureInv'
  <2>1. /\ s \in timers /\ stamped' = [stamped EXCEPT ![s] = @ + 1] /\ UNCHANGED <<still, picture>>
        /\ \/ /\ queue' = [queue EXCEPT ![s] = Append(@, C!FrameOf(s))] /\ missed' = [missed EXCEPT ![s] = 0]
           \/ queue' = queue /\ missed' = [missed EXCEPT ![s] = 1]
    BY <1>5 DEF C!Pump, C!shown
  <2>2. C!FrameOf(s) \in FramesOf(s)
    <3>1. stamped[s] \in Nat /\ missed[s] \in {0, 1}
      BY <1>0 DEF PictureTypes
    <3> QED BY <3>1, DeliversAsTold DEF C!FrameOf, C!CameraFrame, FramesOf, Told
  <2>3. Append(queue[s], C!FrameOf(s)) \in Seq(FramesOf(s))
    BY <1>3, <2>2
  <2>4. stamped[s] + 1 \in Nat
    BY <1>0 DEF PictureTypes
  <2>5. PictureTypes' /\ \A q \in Sessions \ {s} : queue'[q] = queue[q]
    BY <1>0, <1>1, <2>1, <2>4 DEF PictureTypes
  <2>6. stage[s] \notin Early
    BY <1>0, <2>1 DEF Runs, Early
  <2>7. queue'[s] \in Seq(FramesOf(s))
    BY <1>0, <1>3, <2>1, <2>3 DEF PictureTypes
  <2> QED BY <1>2, <2>1, <2>5, <2>6, <2>7
<1>6. ASSUME C!ReadFails(s) PROVE PictureInv'
  <2>1. missed' = [missed EXCEPT ![s] = 1] /\ UNCHANGED <<queue, stamped, still, picture>>
    BY <1>6 DEF C!ReadFails, C!shown
  <2>2. PictureTypes'
    BY <1>0, <1>1, <2>1 DEF PictureTypes
  <2> QED BY <1>2, <1>3, <2>1, <2>2
<1>7. ASSUME C!Read(s) PROVE PictureInv'
  <2>1. queue[s] # <<>> /\ queue' = [queue EXCEPT ![s] = Tail(@)] /\ UNCHANGED <<stamped, missed, still, picture>>
    BY <1>7 DEF C!Read, C!shown
  <2>2. PictureTypes' /\ (\A q \in Sessions \ {s} : queue'[q] = queue[q]) /\ queue'[s] = Tail(queue[s])
    BY <1>0, <1>1, <2>1 DEF PictureTypes
  <2>3. Tail(queue[s]) \in Seq(FramesOf(s))
    BY <1>3, <2>1
  <2>4. stage[s] \notin Early
    BY <1>0, <2>1 DEF Pictures
  <2> QED BY <1>2, <2>1, <2>2, <2>3, <2>4
<1>8. ASSUME C!capture_still(s) PROVE PictureInv'
  <2>1. /\ s \in sessions /\ UNCHANGED <<queue, stamped, missed, picture>>
        /\ still' = [still EXCEPT ![s] = C!StillPhoto(size[s], Told(s), C!OrderOf(Told(s)))]
    BY <1>8, DeliversAsTold DEF C!capture_still, C!shown, Told
  <2>2. PictureTypes' /\ (\A q \in Sessions \ {s} : still'[q] = still[q])
        /\ still'[s] = C!StillPhoto(size[s], Told(s), C!OrderOf(Told(s)))
    BY <1>0, <1>1, <2>1 DEF PictureTypes
  <2>3. stage[s] \notin Early
    BY <1>0, <2>1 DEF Runs, Early
  <2> QED BY <1>2, <1>3, <2>1, <2>2, <2>3
<1> QED BY <1>4, <1>5, <1>6, <1>7, <1>8 DEF C!Filming

\* Knobs: those of a desktop camera are where they were last put.
KnobTypes ==
  /\ DOMAIN camera = Sessions /\ DOMAIN wanted = Sessions /\ DOMAIN pending = Sessions

Stays(s) ==
  C!Desktop =>
    /\ pending[s] = None
    /\ DOMAIN camera[s] = C!Knobs /\ DOMAIN wanted[s] = C!Knobs
    /\ \A k \in C!Knobs : camera[s][k] = IF wanted[s][k] # None THEN C!Native(k, wanted[s][k]) ELSE C!Default[k]
    /\ stage[s] \in {"idle", "asked"} => \A k \in C!Knobs : camera[s][k] = C!Default[k] /\ wanted[s][k] = None

KnobInv == KnobTypes /\ \A s \in Sessions : Stays(s)

LEMMA KnobsMove ==
  ASSUME KnobInv, NEW s \in Sessions, UNCHANGED backend, KnobTypes', Stays(s)',
         \A q \in Sessions \ {s} :
           stage'[q] = stage[q] /\ camera'[q] = camera[q] /\ wanted'[q] = wanted[q] /\ pending'[q] = pending[q]
  PROVE  KnobInv'
<1>1. \A q \in Sessions \ {s} : Stays(q)'
  BY DEF KnobInv, Stays, C!Desktop
<1> QED BY <1>1 DEF KnobInv

LEMMA KnobsNamed == C!Knobs = {"zoom", "torch", "focus", "ev", "white_balance", "flash"} /\ DOMAIN C!Default = C!Knobs
BY DEF C!Knobs, C!Default

LEMMA OpeningKeepsKnobs ==
  ASSUME CallInv, KnobInv, NEW s \in Sessions, C!Opening(s)
  PROVE  KnobInv'
<1>0. CallTypes /\ KnobTypes /\ Stays(s) /\ stage[s] \in Stages /\ Together(s)
  BY DEF CallInv, CallTypes, KnobInv
<1>1. UNCHANGED backend /\ (\A q \in Sessions \ {s} : stage'[q] = stage[q])
  <2>1. UNCHANGED backend
    BY DEF C!Opening, C!open, C!OpenStream, C!OpenStreamFails, C!CameraFormatFails, C!GetUserMediaFails,
       C!install_dom, C!InstallDomFails, C!wait_for_metadata, C!SetIntervalFails, C!Insert, C!Abandon, C!close
  <2>2. UNCHANGED stage \/ \E st \in Stages : stage' = [stage EXCEPT ![s] = st]
    BY DEF C!Opening, C!open, C!OpenStream, C!OpenStreamFails, C!CameraFormatFails, C!GetUserMediaFails,
       C!install_dom, C!InstallDomFails, C!wait_for_metadata, C!SetIntervalFails, C!Insert, C!Abandon, C!close,
       C!Stage, Stages
  <2> QED BY <1>0, <2>1, <2>2 DEF CallTypes
<1>2. ASSUME UNCHANGED <<camera, wanted, pending>>, stage'[s] \in {"idle", "asked"} => stage[s] \in {"idle", "asked"}
      PROVE  KnobInv'
  <2>1. Stays(s)' /\ KnobTypes'
    BY <1>0, <1>1, <1>2 DEF Stays, C!Desktop, KnobTypes
  <2> QED BY <1>1, <1>2, <2>1, KnobsMove
<1>3. ASSUME NEW c \in Configs, C!open(s, c) PROVE KnobInv'
  <2>1. UNCHANGED <<camera, wanted, pending>> /\ stage[s] = "idle"
    BY <1>0, <1>3 DEF C!open, C!knobVars, Together
  <2> QED BY <1>2, <2>1
<1>4. ASSUME C!OpenStream(s) PROVE KnobInv'
  <2> DEFINE zoom == config[s].initial_controls.zoom
  <2>1. /\ C!Desktop /\ stage[s] = "asked" /\ UNCHANGED pending
        /\ camera' = [camera EXCEPT ![s] = C!apply_initial_controls(@, config[s].initial_controls)]
        /\ wanted' = [wanted EXCEPT ![s] = [@ EXCEPT !.zoom = zoom]]
        /\ stage' = [stage EXCEPT ![s] = "running"]
    BY <1>4 DEF C!OpenStream, C!Stage
  <2>2. /\ DOMAIN camera[s] = C!Knobs /\ DOMAIN wanted[s] = C!Knobs
        /\ \A k \in C!Knobs : camera[s][k] = C!Default[k] /\ wanted[s][k] = None
    BY <1>0, <2>1 DEF Stays
  <2>3. /\ KnobTypes' /\ stage'[s] = "running"
        /\ camera'[s] = IF zoom # None THEN [camera[s] EXCEPT !["zoom"] = C!Native("zoom", zoom)] ELSE camera[s]
        /\ wanted'[s] = [wanted[s] EXCEPT !["zoom"] = zoom]
        /\ \A q \in Sessions \ {s} : camera'[q] = camera[q] /\ wanted'[q] = wanted[q] /\ pending'[q] = pending[q]
    BY <1>0, <2>1 DEF KnobTypes, C!apply_initial_controls, C!Some, CallTypes
  <2> HIDE DEF zoom
  <2>4. "zoom" \in C!Knobs
    BY DEF C!Knobs
  <2>5. /\ DOMAIN camera'[s] = C!Knobs /\ DOMAIN wanted'[s] = C!Knobs
        /\ wanted'[s]["zoom"] = zoom
        /\ camera'[s]["zoom"] = IF zoom # None THEN C!Native("zoom", zoom) ELSE C!Default["zoom"]
        /\ \A k \in C!Knobs \ {"zoom"} : camera'[s][k] = C!Default[k] /\ wanted'[s][k] = None
    BY <2>2, <2>3, <2>4
  <2>6. pending'[s] = pending[s]
    BY <2>1
  <2>7. Stays(s)'
    <3>1. \A k \in C!Knobs :
            camera'[s][k] = IF wanted'[s][k] # None THEN C!Native(k, wanted'[s][k]) ELSE C!Default[k]
      BY <2>5
    <3> QED BY <1>0, <2>1, <2>3, <2>5, <2>6, <3>1 DEF Stays
  <2> QED BY <1>1, <2>3, <2>7, KnobsMove
<1>5. ASSUME C!Opening(s), ~C!OpenStream(s), ~\E c \in Configs : C!open(s, c) PROVE KnobInv'
  <2>1. UNCHANGED <<camera, wanted, pending>>
    BY <1>5 DEF C!Opening, C!knobVars, C!OpenStreamFails, C!CameraFormatFails, C!GetUserMediaFails,
       C!install_dom, C!InstallDomFails, C!wait_for_metadata, C!SetIntervalFails, C!Insert, C!Abandon, C!close
  <2>2. UNCHANGED stage \/ \E st \in Stages \ {"idle", "asked"} : stage' = [stage EXCEPT ![s] = st]
    BY <1>5 DEF C!Opening, C!OpenStreamFails, C!CameraFormatFails, C!GetUserMediaFails,
       C!install_dom, C!InstallDomFails, C!wait_for_metadata, C!SetIntervalFails, C!Insert, C!Abandon, C!close,
       C!Stage, Stages
  <2>3. stage'[s] \in {"idle", "asked"} => stage[s] \in {"idle", "asked"}
    BY <1>0, <2>2 DEF CallTypes
  <2> QED BY <1>2, <2>1, <2>3
<1> QED BY <1>3, <1>4, <1>5

LEMMA ControllingKeepsKnobs ==
  ASSUME CallInv, KnobInv, NEW s \in Sessions, C!Controlling(s)
  PROVE  KnobInv'
<1>0. KnobTypes /\ Stays(s) /\ Runs(s)
  BY DEF CallInv, KnobInv
<1>1. UNCHANGED <<backend, stage>>
  BY DEF C!Controlling, C!DesktopApply, C!WebApply, C!WebApplied, C!calls
<1>2. ASSUME NEW c \in Asked, C!DesktopApply(s, c) PROVE KnobInv'
  <2>1. /\ C!Desktop /\ s \in sessions /\ UNCHANGED pending
        /\ camera' = [camera EXCEPT ![s] = C!desktop_apply_controls(@, c)]
        /\ wanted' = [wanted EXCEPT ![s] = C!Heard(@, c)]
    BY <1>2 DEF C!DesktopApply
  <2>2. /\ DOMAIN camera' = Sessions /\ DOMAIN wanted' = Sessions
        /\ camera'[s] = [k \in C!Knobs |-> IF C!Turns(c, k) THEN C!Native(k, c[k]) ELSE camera[s][k]]
        /\ wanted'[s] = [k \in C!Knobs |-> IF C!Turns(c, k) THEN c[k] ELSE wanted[s][k]]
        /\ \A q \in Sessions \ {s} : camera'[q] = camera[q] /\ wanted'[q] = wanted[q] /\ pending'[q] = pending[q]
    BY <1>0, <2>1 DEF KnobTypes, C!desktop_apply_controls, C!Heard
  <2>3. \A k \in C!Knobs : C!Turns(c, k) => c[k] # None
    BY DEF C!Turns, C!Some
  <2>4. stage'[s] = "open"
    BY <1>0, <1>1, <2>1 DEF Runs
  <2>5. \A k \in C!Knobs :
          camera[s][k] = IF wanted[s][k] # None THEN C!Native(k, wanted[s][k]) ELSE C!Default[k]
    BY <1>0, <2>1 DEF Stays
  <2>6. \A k \in C!Knobs :
          camera'[s][k] = IF wanted'[s][k] # None THEN C!Native(k, wanted'[s][k]) ELSE C!Default[k]
    BY <2>2, <2>3, <2>5
  <2>7. Stays(s)' /\ KnobTypes'
    BY <1>0, <2>1, <2>2, <2>4, <2>6 DEF Stays, KnobTypes
  <2> QED BY <1>1, <2>2, <2>7, KnobsMove
<1>3. ASSUME ~C!Desktop, KnobTypes',
             \A q \in Sessions \ {s} : camera'[q] = camera[q] /\ wanted'[q] = wanted[q] /\ pending'[q] = pending[q]
      PROVE  KnobInv'
  <2>1. Stays(s)'
    BY <1>1, <1>3 DEF Stays, C!Desktop
  <2> QED BY <1>1, <1>3, <2>1, KnobsMove
<1>4. ASSUME NEW c \in Asked, C!WebApply(s, c) PROVE KnobInv'
  <2>1. ~C!Desktop /\ pending' = [pending EXCEPT ![s] = c] /\ UNCHANGED <<camera, wanted>>
    BY <1>4 DEF C!WebApply, C!Web, C!Desktop
  <2> QED BY <1>0, <1>3, <2>1 DEF KnobTypes
<1>5. ASSUME C!WebApplied(s) PROVE KnobInv'
  <2>1. ~C!Desktop
    BY <1>0, <1>5 DEF C!WebApplied, Stays
  <2>2. /\ DOMAIN camera' = Sessions /\ pending' = [pending EXCEPT ![s] = None] /\ UNCHANGED wanted
        /\ \A q \in Sessions \ {s} : camera'[q] = camera[q]
    BY <1>0, <1>5 DEF C!WebApplied, KnobTypes
  <2> QED BY <1>0, <1>3, <2>1, <2>2 DEF KnobTypes
<1> QED BY <1>2, <1>4, <1>5 DEF C!Controlling

CameraInv == CallInv /\ AccessInv /\ PictureInv /\ KnobInv

LEMMA CamerasStart ==
  ASSUME C!CameraSessionsAssumption, C!Init
  PROVE  CameraInv
<1>0. /\ backend \in Backends /\ backend \in {"desktop", "web"} /\ access \in {"prompt", "granted", "denied"} /\ prompt = "idle"
      /\ stage = [s \in Sessions |-> "idle"] /\ caller = [s \in Sessions |-> "idle"]
      /\ tracks = {} /\ elements = {} /\ timers = {} /\ sessions = {}
  BY DEF C!Init, C!CameraSessionsAssumption
<1>1. CallInv
  <2>1. CallTypes
    BY <1>0 DEF CallTypes, Stages, Callers
  <2>2. \A s \in Sessions : Together(s) /\ Runs(s)
    BY <1>0 DEF Together, Runs
  <2> QED BY <2>1, <2>2 DEF CallInv
<1>2. AccessInv
  BY <1>0 DEF AccessInv
<1>3. PictureInv
  <2>1. /\ config = [s \in Sessions |-> None]
        /\ picture = [s \in Sessions |-> <<0, 0>>] /\ size = [s \in Sessions |-> <<0, 0>>]
        /\ queue = [s \in Sessions |-> <<>>] /\ stamped = [s \in Sessions |-> 0]
        /\ missed = [s \in Sessions |-> 0] /\ still = [s \in Sessions |-> None]
    BY DEF C!Init
  <2>2. PictureTypes
    BY <2>1 DEF PictureTypes, Dot
  <2>3. ASSUME NEW s \in Sessions PROVE Pictures(s)
    <3>1. stage[s] = "idle" /\ queue[s] = <<>> /\ still[s] = None
      BY <1>0, <2>1
    <3>2. <<>> \in Seq(FramesOf(s))
      OBVIOUS
    <3> QED BY <3>1, <3>2 DEF Pictures
  <2> QED BY <2>2, <2>3 DEF PictureInv
<1>4. KnobInv
  <2>1. /\ camera = [s \in Sessions |-> C!Default] /\ wanted = [s \in Sessions |-> C!NoControls]
        /\ pending = [s \in Sessions |-> None]
    BY DEF C!Init
  <2>2. KnobTypes
    BY <2>1 DEF KnobTypes
  <2>3. ASSUME NEW s \in Sessions PROVE Stays(s)
    <3>1. camera[s] = C!Default /\ wanted[s] = C!NoControls /\ pending[s] = None
      BY <2>1
    <3>2. DOMAIN C!NoControls = C!Knobs /\ \A k \in C!Knobs : C!NoControls[k] = None
      BY DEF C!NoControls
    <3> QED BY <3>1, <3>2, KnobsNamed DEF Stays
  <2> QED BY <2>2, <2>3 DEF KnobInv
<1> QED BY <1>1, <1>2, <1>3, <1>4 DEF CameraInv

LEMMA CamerasStay ==
  ASSUME CameraInv, UNCHANGED cameraVars
  PROVE  CameraInv'
<1>1. CallInv' /\ AccessInv'
  BY CallsStay DEF CameraInv, cameraVars, AccessInv, C!Web, C!Desktop
<1>2. PictureInv'
  BY DEF CameraInv, cameraVars, PictureInv, PictureTypes, Pictures, FramesOf, Told
<1>3. KnobInv'
  BY DEF CameraInv, cameraVars, KnobInv, KnobTypes, Stays, C!Desktop
<1> QED BY <1>1, <1>2, <1>3 DEF CameraInv

LEMMA CamerasKeep ==
  ASSUME C!CameraSessionsAssumption, CameraInv, C!Next
  PROVE  CameraInv'
<1>0. CallInv /\ AccessInv /\ PictureInv /\ KnobInv
  BY DEF CameraInv
<1>1. AccessInv'
  BY <1>0, AccessKeeps
<1>2. ASSUME NEW s \in Sessions, C!Opening(s) PROVE CameraInv'
  BY <1>0, <1>1, <1>2, OpeningKeeps, OpeningShows, OpeningKeepsKnobs DEF CameraInv
<1>3. ASSUME NEW s \in Sessions, C!Filming(s) PROVE CameraInv'
  <2>1. CallInv'
    BY <1>0, <1>3, OthersLeaveCalls, CallsStay
  <2>2. PictureInv'
    BY <1>0, <1>3, FilmingShows
  <2>3. UNCHANGED <<backend, stage, camera, wanted, pending>>
    <3>1. UNCHANGED C!knobVars
      BY <1>3 DEF C!Filming, C!Turn, C!Pump, C!ReadFails, C!Read, C!capture_still
    <3> QED BY <1>3, <3>1, OthersLeaveCalls DEF C!knobVars
  <2>4. KnobInv'
    BY <1>0, <2>3 DEF KnobInv, KnobTypes, Stays, C!Desktop
  <2> QED BY <1>1, <2>1, <2>2, <2>4 DEF CameraInv
\* What is no picture leaves the pictures.
<1>4. ASSUME UNCHANGED <<stage, config, picture, size, queue, stamped, missed, still>> PROVE PictureInv'
  BY <1>0, <1>4 DEF PictureInv, PictureTypes, Pictures, FramesOf, Told
<1>5. ASSUME NEW s \in Sessions, C!Controlling(s) PROVE CameraInv'
  <2>1. CallInv'
    BY <1>0, <1>5, OthersLeaveCalls, CallsStay
  <2>2. PictureInv'
    <3>1. UNCHANGED <<C!shown, C!frameVars>>
      BY <1>5 DEF C!Controlling, C!DesktopApply, C!WebApply, C!WebApplied
    <3>2. UNCHANGED <<stage, config, picture, size, queue, stamped, missed, still>>
      BY <1>5, <3>1, OthersLeaveCalls DEF C!shown, C!frameVars
    <3> QED BY <1>4, <3>2
  <2>3. KnobInv'
    BY <1>0, <1>5, ControllingKeepsKnobs
  <2> QED BY <1>1, <2>1, <2>2, <2>3 DEF CameraInv
<1>6. ASSUME C!request_access \/ \E err \in Thrown : C!PromptAnswered(err) PROVE CameraInv'
  <2>1. UNCHANGED <<backend, stage, caller, config, C!held, C!shown, C!knobVars, C!frameVars>>
    BY <1>6 DEF C!request_access, C!PromptAnswered
  <2>2. CallInv'
    BY <1>0, <2>1, CallsStay DEF C!held
  <2>3. PictureInv'
    BY <1>4, <2>1 DEF C!shown, C!frameVars
  <2>4. UNCHANGED <<backend, stage, camera, wanted, pending>>
    BY <2>1 DEF C!knobVars
  <2>5. KnobInv'
    BY <1>0, <2>4 DEF KnobInv, KnobTypes, Stays, C!Desktop
  <2> QED BY <1>1, <2>2, <2>3, <2>5 DEF CameraInv
<1> QED BY <1>2, <1>3, <1>5, <1>6 DEF C!Next

\* Every camera that is listed opens by the identity it is listed with.
LEMMA ListedOpen == C!CameraSessionsAssumption => C!DevicesOpen
<1> SUFFICES ASSUME C!CameraSessionsAssumption PROVE C!DevicesOpen
  OBVIOUS
<1>0. None \notin Nat
  BY DEF C!CameraSessionsAssumption
<1>1. ASSUME NEW i \in {C!Index(0), C!Index(1), C!Named(None)}
      PROVE  C!resolve_index(C!describe_device([index |-> i, human_name |-> {}]).id) = i
  <2>1. C!describe_device([index |-> i, human_name |-> {}]).id = i.of
    BY DEF C!describe_device, C!CameraDevice
  <2>2. C!resolve_index(i.of) = i
    BY <1>0 DEF C!resolve_index, C!Index, C!Named
  <2> QED BY <2>1, <2>2
<1>2. ASSUME NEW infos \in [1..2 -> [kind : {"videoinput", "audioinput"}, device_id : 1..2, label : C!Labels]]
      PROVE  LET listed == C!enumerate_devices_impl(infos) IN
             /\ {listed[i].id : i \in DOMAIN listed} =
                  {infos[i].device_id : i \in {j \in 1..2 : infos[j].kind = "videoinput"}}
             /\ \A i \in DOMAIN listed : listed[i].label # {} /\ listed[i].lens = "Wide"
  <2> DEFINE listed == C!enumerate_devices_impl(infos)
             video == {j \in 1..2 : infos[j].kind = "videoinput"}
  <2>1. DOMAIN infos = 1..2
    OBVIOUS
  <2>2. DOMAIN listed = video
    BY <2>1 DEF C!enumerate_devices_impl
  <2>3. ASSUME NEW i \in video
        PROVE  listed[i].id = infos[i].device_id /\ listed[i].label # {} /\ listed[i].lens = "Wide"
    BY <2>1 DEF C!enumerate_devices_impl, C!CameraDevice
  <2> HIDE DEF listed, video
  <2>4. {listed[i].id : i \in DOMAIN listed} = {infos[i].device_id : i \in video}
    BY <2>2, <2>3
  <2>5. \A i \in DOMAIN listed : listed[i].label # {} /\ listed[i].lens = "Wide"
    BY <2>2, <2>3
  <2> QED BY <2>4, <2>5 DEF listed, video
<1> QED BY <1>1, <1>2 DEF C!DevicesOpen

LEMMA CamerasServe == C!CameraSessionsAssumption /\ CameraInv => C!CamerasAreHonest
<1> SUFFICES ASSUME C!CameraSessionsAssumption, CameraInv PROVE C!CamerasAreHonest
  OBVIOUS
<1>0. CallInv /\ CallTypes /\ AccessInv /\ PictureInv /\ KnobInv
  BY DEF CameraInv, CallInv
<1>1. C!TypeOK
  <2>1. backend \in Backends
    BY <1>0 DEF CallTypes
  <2>2. prompt \in {"idle", "asked"} \cup C!Error
    BY <1>0 DEF AccessInv, C!Error, C!CameraErrors, C!AccessStatus
  <2> QED BY <1>0, <2>1, <2>2 DEF C!TypeOK, CallTypes, AccessInv, Stages, Callers
<1>2. C!OnlySessionsRun
  <2>1. \A s \in Sessions : Together(s) /\ Runs(s)
    BY <1>0 DEF CallInv
  <2>2. sessions = {s \in Sessions : stage[s] = "open"}
    BY <1>0, <2>1 DEF Runs, CallTypes
  <2>3. \A s \in Sessions : stage[s] = "open" <=> caller[s] = "served" /\ C!frames(s) = "open"
    BY <2>1 DEF Together, Runs, C!frames
  <2> QED BY <1>0, <2>1, <2>2, <2>3 DEF C!OnlySessionsRun, Together, Runs, CallTypes
<1>3. C!AsNegotiated
  <2> SUFFICES ASSUME NEW s \in Filmed
      PROVE  LET told == C!NegotiatedFormat(size[s], config[s].pixel_format, C!FpsOf(config[s]))
                 Is(f) == /\ f.resolution = told.resolution /\ f.pixel_format = told.pixel_format
                          /\ f.bytes = C!OrderOf(told.pixel_format) IN
             /\ \A i \in DOMAIN queue[s] :
                  /\ Is(queue[s][i])
                  /\ C!PlaneEnd(queue[s][i].plane) = 4 * told.resolution[1] * told.resolution[2]
             /\ still[s] # None => Is(still[s])
             /\ s \in sessions => told.pixel_format \in C!Packed
    BY DEF C!AsNegotiated
  <2> DEFINE told == C!NegotiatedFormat(size[s], config[s].pixel_format, C!FpsOf(config[s]))
  <2>1. s \in Sessions /\ Pictures(s) /\ Runs(s)
    BY <1>0 DEF C!CameraSessionsAssumption, PictureInv, CallInv
  <2>2. told.resolution = size[s] /\ told.pixel_format = Told(s)
    BY DEF C!NegotiatedFormat, Told
  <2> HIDE DEF told
  <2>3. ASSUME NEW i \in DOMAIN queue[s]
        PROVE  LET f == queue[s][i] IN
               /\ f.resolution = size[s] /\ f.pixel_format = Told(s) /\ f.bytes = C!OrderOf(Told(s))
               /\ C!PlaneEnd(f.plane) = 4 * size[s][1] * size[s][2]
    <3>1. queue[s][i] \in FramesOf(s)
      BY <2>1 DEF Pictures
    <3>2. size[s] \in Nat \X Nat
      BY <1>0, <2>1 DEF PictureInv, PictureTypes, Dot
    <3>3. size[s][1] \in Nat /\ size[s][2] \in Nat
      BY <3>2
    <3>4. C!PlaneEnd(C!FramePlane(size[s])) = 0 + (size[s][1] * 4) * size[s][2]
      BY DEF C!PlaneEnd, C!FramePlane
    <3>5. \A x, y \in Nat : 0 + (x * 4) * y = 4 * x * y
      OBVIOUS
    <3> QED BY <3>1, <3>3, <3>4, <3>5 DEF FramesOf
  <2>4. ASSUME still[s] # None
        PROVE  /\ still[s].resolution = size[s] /\ still[s].pixel_format = Told(s)
               /\ still[s].bytes = C!OrderOf(Told(s))
    BY <2>1, <2>4 DEF Pictures, C!StillPhoto
  <2>5. s \in sessions => Told(s) \in C!Packed
    BY <2>1 DEF Runs, Pictures
  <2> QED BY <2>2, <2>3, <2>4, <2>5 DEF told
<1>4. C!KnobsStay
  <2> SUFFICES ASSUME C!Desktop, NEW s \in Sessions, NEW k \in C!Knobs
      PROVE  camera[s][k] = IF C!Some(wanted[s][k]) THEN C!Native(k, wanted[s][k]) ELSE C!Default[k]
    BY DEF C!KnobsStay
  <2> QED BY <1>0 DEF KnobInv, Stays, C!Some
<1>5. C!AccessAgrees
  <2>1. C!Desktop \/ C!Web
    BY <1>0 DEF CallTypes, C!Desktop, C!Web
  <2> QED BY <1>0, <2>1 DEF AccessInv, C!AccessAgrees, C!access_status, C!access_status_impl, C!AccessStatus,
       C!Desktop, C!Web
<1> QED BY <1>1, <1>2, <1>3, <1>4, <1>5, ListedOpen DEF C!CamerasAreHonest

\* On either host, whatever is opened, abandoned, refused, closed, turned and
\* asked for, by however many callers: what runs belongs to a session, its client
\* gets what it was told, and knobs stay where they were put; and in the model of
\* handles by itself, frames that are missing are announced.
THEOREM CamerasAreTrue == AllSpec => []SessionsAreTrue
<1> DEFINE Inv == CameraInv /\ FrameInv
<1>1. AllInit => Inv
  BY SessionsAssumption, CamerasStart, FramesStart DEF AllInit
<1>2. ASSUME Inv, [AllNext]_allVars PROVE Inv'
  <2>1. CASE C!Next /\ UNCHANGED vars
    BY <1>2, <2>1, SessionsAssumption, CamerasKeep, FramesKeep
  <2>2. CASE [Next]_vars /\ UNCHANGED cameraVars
    BY <1>2, <2>2, CamerasStay, FramesKeep
  <2> QED BY <1>2, <2>1, <2>2 DEF AllNext, allVars
<1>3. Inv => SessionsAreTrue
  BY SessionsAssumption, CamerasServe DEF SessionsAreTrue, FrameInv
<1> HIDE DEF Inv
<1> QED BY <1>1, <1>2, <1>3, PTL DEF AllSpec
=============================================================================
