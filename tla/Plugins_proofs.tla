---------------------------- MODULE Plugins_proofs ----------------------------
(***************************************************************************)
(* Services, wake locks, banner slots, publishers and windows, however     *)
(* many calls, locks, tasks, banners, readings, windows and states there   *)
(* are: a body can always be stopped, a lock is given back once, a slot    *)
(* has one banner, clients are told what was sampled, and the windows,     *)
(* their pens and those who listen for them fit together.                  *)
(***************************************************************************)
EXTENDS MCPens, FiniteSetTheorems, SequenceTheorems, WellFoundedInduction, TLAPS
-----------------------------------------------------------------------------
(* Services.                                                               *)

\* A call that serves has the service it took, and behind the mutex of state
\* there is none.
CallsInv ==
  /\ mutex # None => service = None
  /\ \A k \in S!Calls :
       /\ pc[k] \in {"idle", "spawned"} => taken[k] = None
       /\ S!Serving(k) => taken[k] # None
       /\ k \in Starts => (mutex = k <=> S!Serving(k))
       /\ k \in Stops => pc[k] \notin {"spawned", "stored"}
  /\ \A s \in Starts :
       /\ pc[s] # "hook"
       /\ pc[s] = "idle" => body[s] = "none"

\* Only what was stored can be taken, and what is stored was not.
StoredInv ==
  /\ service # None =>
       pc[service] \in {"stored", "done"} /\ \A k \in S!Calls : taken[k] # service
  /\ \A k \in S!Calls : taken[k] # None => pc[taken[k]] \in {"stored", "done"}

ServiceInv ==
  /\ S!TypeOK /\ CallsInv /\ StoredInv
  /\ S!BodiesOwned /\ S!StoppedIfAsked /\ S!TakenHasEnded /\ S!TakenOnce

LEMMA CallFacts ==
  Starts \cap Stops = {} /\ None \notin S!Calls /\ Starts \subseteq S!Calls /\ Stops \subseteq S!Calls
  BY ServicesAssumption DEF S!ServiceLifecycleAssumption, S!Calls

LEMMA OnStartRefusedKeeps ==
  ASSUME ServiceInv, NEW s \in Starts, S!OnStartRefused(s)
  PROVE  ServiceInv'
<1> USE CallFacts
<1>1. S!TypeOK'
  BY DEF ServiceInv, S!TypeOK, S!OnStartRefused, S!callVars, S!bodyVars, S!signal, S!cancelToken,
     S!is_stopped, S!Told
<1>2. CallsInv'
  BY <1>1 DEF ServiceInv, CallsInv, StoredInv, S!TypeOK, S!Serving, S!OnStartRefused, S!callVars,
     S!bodyVars
<1>3. StoredInv'
  BY <1>1 DEF ServiceInv, CallsInv, StoredInv, S!TypeOK, S!Serving, S!OnStartRefused, S!callVars,
     S!bodyVars
<1>4. S!BodiesOwned'
  BY <1>1 DEF ServiceInv, CallsInv, StoredInv, S!BodiesOwned, S!TypeOK, S!Serving,
     S!OnStartRefused, S!callVars, S!bodyVars
<1>5. S!StoppedIfAsked'
  BY <1>1 DEF ServiceInv, CallsInv, StoredInv, S!StoppedIfAsked, S!TypeOK, S!Serving,
     S!OnStartRefused, S!callVars, S!bodyVars, S!signal, S!cancelToken, S!is_stopped, S!Told
<1>6. S!TakenHasEnded'
  BY <1>1 DEF ServiceInv, CallsInv, StoredInv, S!TakenHasEnded, S!TypeOK, S!Serving,
     S!OnStartRefused, S!callVars, S!bodyVars
<1>7. S!TakenOnce'
  BY <1>1 DEF ServiceInv, CallsInv, StoredInv, S!TakenOnce, S!TypeOK, S!Serving, S!OnStartRefused,
     S!callVars, S!bodyVars
<1> QED
  BY <1>1, <1>2, <1>3, <1>4, <1>5, <1>6, <1>7 DEF ServiceInv

LEMMA OnStartKeeps ==
  ASSUME ServiceInv, NEW s \in Starts, S!OnStart(s)
  PROVE  ServiceInv'
<1> USE CallFacts
<1>1. S!TypeOK'
  BY DEF ServiceInv, S!TypeOK, S!OnStart, S!callVars, S!bodyVars, S!signal, S!cancelToken,
     S!is_stopped, S!Told
<1>2. CallsInv'
  BY <1>1 DEF ServiceInv, CallsInv, StoredInv, S!TypeOK, S!Serving, S!OnStart, S!callVars,
     S!bodyVars
<1>3. StoredInv'
  BY <1>1 DEF ServiceInv, CallsInv, StoredInv, S!TypeOK, S!Serving, S!OnStart, S!callVars,
     S!bodyVars
<1>4. S!BodiesOwned'
  BY <1>1 DEF ServiceInv, CallsInv, StoredInv, S!BodiesOwned, S!TypeOK, S!Serving, S!OnStart,
     S!callVars, S!bodyVars
<1>5. S!StoppedIfAsked'
  BY <1>1 DEF ServiceInv, CallsInv, StoredInv, S!StoppedIfAsked, S!TypeOK, S!Serving, S!OnStart,
     S!callVars, S!bodyVars, S!signal, S!cancelToken, S!is_stopped, S!Told
<1>6. S!TakenHasEnded'
  BY <1>1 DEF ServiceInv, CallsInv, StoredInv, S!TakenHasEnded, S!TypeOK, S!Serving, S!OnStart,
     S!callVars, S!bodyVars
<1>7. S!TakenOnce'
  BY <1>1 DEF ServiceInv, CallsInv, StoredInv, S!TakenOnce, S!TypeOK, S!Serving, S!OnStart,
     S!callVars, S!bodyVars
<1> QED
  BY <1>1, <1>2, <1>3, <1>4, <1>5, <1>6, <1>7 DEF ServiceInv

LEMMA CancelStartKeeps ==
  ASSUME ServiceInv, NEW s \in Starts, S!CancelStart(s)
  PROVE  ServiceInv'
<1> USE CallFacts
<1>1. S!TypeOK'
  BY DEF ServiceInv, S!TypeOK, S!CancelStart, S!callVars, S!bodyVars, S!signal, S!cancelToken,
     S!is_stopped, S!Told
<1>2. CallsInv'
  BY <1>1 DEF ServiceInv, CallsInv, StoredInv, S!TypeOK, S!Serving, S!CancelStart, S!callVars,
     S!bodyVars
<1>3. StoredInv'
  BY <1>1 DEF ServiceInv, CallsInv, StoredInv, S!TypeOK, S!Serving, S!CancelStart, S!callVars,
     S!bodyVars
<1>4. S!BodiesOwned'
  BY <1>1 DEF ServiceInv, CallsInv, StoredInv, S!BodiesOwned, S!TypeOK, S!Serving, S!CancelStart,
     S!callVars, S!bodyVars
<1>5. S!StoppedIfAsked'
  BY <1>1 DEF ServiceInv, CallsInv, StoredInv, S!StoppedIfAsked, S!TypeOK, S!Serving,
     S!CancelStart, S!callVars, S!bodyVars, S!signal, S!cancelToken, S!is_stopped, S!Told
<1>6. S!TakenHasEnded'
  BY <1>1 DEF ServiceInv, CallsInv, StoredInv, S!TakenHasEnded, S!TypeOK, S!Serving,
     S!CancelStart, S!callVars, S!bodyVars
<1>7. S!TakenOnce'
  BY <1>1 DEF ServiceInv, CallsInv, StoredInv, S!TakenOnce, S!TypeOK, S!Serving, S!CancelStart,
     S!callVars, S!bodyVars
<1> QED
  BY <1>1, <1>2, <1>3, <1>4, <1>5, <1>6, <1>7 DEF ServiceInv

LEMMA LockStateKeeps ==
  ASSUME ServiceInv, NEW s \in Starts, S!LockState(s)
  PROVE  ServiceInv'
<1> USE CallFacts
<1>1. S!TypeOK'
  BY DEF ServiceInv, S!TypeOK, S!LockState, S!callVars, S!bodyVars, S!signal, S!cancelToken,
     S!is_stopped, S!Told
<1>2. CallsInv'
  BY <1>1 DEF ServiceInv, CallsInv, StoredInv, S!TypeOK, S!Serving, S!LockState, S!callVars,
     S!bodyVars
<1>3. StoredInv'
  BY <1>1 DEF ServiceInv, CallsInv, StoredInv, S!TypeOK, S!Serving, S!LockState, S!callVars,
     S!bodyVars
<1>4. S!BodiesOwned'
  BY <1>1 DEF ServiceInv, CallsInv, StoredInv, S!BodiesOwned, S!TypeOK, S!Serving, S!LockState,
     S!callVars, S!bodyVars
<1>5. S!StoppedIfAsked'
  BY <1>1 DEF ServiceInv, CallsInv, StoredInv, S!StoppedIfAsked, S!TypeOK, S!Serving, S!LockState,
     S!callVars, S!bodyVars, S!signal, S!cancelToken, S!is_stopped, S!Told
<1>6. S!TakenHasEnded'
  BY <1>1 DEF ServiceInv, CallsInv, StoredInv, S!TakenHasEnded, S!TypeOK, S!Serving, S!LockState,
     S!callVars, S!bodyVars
<1>7. S!TakenOnce'
  BY <1>1 DEF ServiceInv, CallsInv, StoredInv, S!TakenOnce, S!TypeOK, S!Serving, S!LockState,
     S!callVars, S!bodyVars
<1> QED
  BY <1>1, <1>2, <1>3, <1>4, <1>5, <1>6, <1>7 DEF ServiceInv

LEMMA RespondKeeps ==
  ASSUME ServiceInv, NEW s \in Starts, S!Respond(s)
  PROVE  ServiceInv'
<1> USE CallFacts
<1>1. S!TypeOK'
  BY DEF ServiceInv, S!TypeOK, S!Respond, S!callVars, S!bodyVars, S!signal, S!cancelToken,
     S!is_stopped, S!Told
<1>2. CallsInv'
  BY <1>1 DEF ServiceInv, CallsInv, StoredInv, S!TypeOK, S!Serving, S!Respond, S!callVars,
     S!bodyVars
<1>3. StoredInv'
  BY <1>1 DEF ServiceInv, CallsInv, StoredInv, S!TypeOK, S!Serving, S!Respond, S!callVars,
     S!bodyVars
<1>4. S!BodiesOwned'
  BY <1>1 DEF ServiceInv, CallsInv, StoredInv, S!BodiesOwned, S!TypeOK, S!Serving, S!Respond,
     S!callVars, S!bodyVars
<1>5. S!StoppedIfAsked'
  BY <1>1 DEF ServiceInv, CallsInv, StoredInv, S!StoppedIfAsked, S!TypeOK, S!Serving, S!Respond,
     S!callVars, S!bodyVars, S!signal, S!cancelToken, S!is_stopped, S!Told
<1>6. S!TakenHasEnded'
  BY <1>1 DEF ServiceInv, CallsInv, StoredInv, S!TakenHasEnded, S!TypeOK, S!Serving, S!Respond,
     S!callVars, S!bodyVars
<1>7. S!TakenOnce'
  BY <1>1 DEF ServiceInv, CallsInv, StoredInv, S!TakenOnce, S!TypeOK, S!Serving, S!Respond,
     S!callVars, S!bodyVars
<1> QED
  BY <1>1, <1>2, <1>3, <1>4, <1>5, <1>6, <1>7 DEF ServiceInv

LEMMA WatchKeeps ==
  ASSUME ServiceInv, NEW s \in Starts, S!Watch(s)
  PROVE  ServiceInv'
<1> USE CallFacts
<1>1. S!TypeOK'
  BY DEF ServiceInv, S!TypeOK, S!Watch, S!callVars, S!bodyVars, S!signal, S!cancelToken,
     S!is_stopped, S!Told
<1>2. CallsInv'
  BY <1>1 DEF ServiceInv, CallsInv, StoredInv, S!TypeOK, S!Serving, S!Watch, S!callVars, S!bodyVars
<1>3. StoredInv'
  BY <1>1 DEF ServiceInv, CallsInv, StoredInv, S!TypeOK, S!Serving, S!Watch, S!callVars, S!bodyVars
<1>4. S!BodiesOwned'
  BY <1>1 DEF ServiceInv, CallsInv, StoredInv, S!BodiesOwned, S!TypeOK, S!Serving, S!Watch,
     S!callVars, S!bodyVars
<1>5. S!StoppedIfAsked'
  BY <1>1 DEF ServiceInv, CallsInv, StoredInv, S!StoppedIfAsked, S!TypeOK, S!Serving, S!Watch,
     S!callVars, S!bodyVars, S!signal, S!cancelToken, S!is_stopped, S!Told
<1>6. S!TakenHasEnded'
  BY <1>1 DEF ServiceInv, CallsInv, StoredInv, S!TakenHasEnded, S!TypeOK, S!Serving, S!Watch,
     S!callVars, S!bodyVars
<1>7. S!TakenOnce'
  BY <1>1 DEF ServiceInv, CallsInv, StoredInv, S!TakenOnce, S!TypeOK, S!Serving, S!Watch,
     S!callVars, S!bodyVars
<1> QED
  BY <1>1, <1>2, <1>3, <1>4, <1>5, <1>6, <1>7 DEF ServiceInv

LEMMA OnStopKeeps ==
  ASSUME ServiceInv, NEW p \in Stops, S!OnStop(p)
  PROVE  ServiceInv'
<1> USE CallFacts
<1>1. S!TypeOK'
  BY DEF ServiceInv, S!TypeOK, S!OnStop, S!callVars, S!bodyVars, S!signal, S!cancelToken,
     S!is_stopped, S!Told
<1>2. CallsInv'
  BY <1>1 DEF ServiceInv, CallsInv, StoredInv, S!TypeOK, S!Serving, S!OnStop, S!callVars, S!bodyVars
<1>3. StoredInv'
  BY <1>1 DEF ServiceInv, CallsInv, StoredInv, S!TypeOK, S!Serving, S!OnStop, S!callVars, S!bodyVars
<1>4. S!BodiesOwned'
  BY <1>1 DEF ServiceInv, CallsInv, StoredInv, S!BodiesOwned, S!TypeOK, S!Serving, S!OnStop,
     S!callVars, S!bodyVars
<1>5. S!StoppedIfAsked'
  BY <1>1 DEF ServiceInv, CallsInv, StoredInv, S!StoppedIfAsked, S!TypeOK, S!Serving, S!OnStop,
     S!callVars, S!bodyVars, S!signal, S!cancelToken, S!is_stopped, S!Told
<1>6. S!TakenHasEnded'
  BY <1>1 DEF ServiceInv, CallsInv, StoredInv, S!TakenHasEnded, S!TypeOK, S!Serving, S!OnStop,
     S!callVars, S!bodyVars
<1>7. S!TakenOnce'
  BY <1>1 DEF ServiceInv, CallsInv, StoredInv, S!TakenOnce, S!TypeOK, S!Serving, S!OnStop,
     S!callVars, S!bodyVars
<1> QED
  BY <1>1, <1>2, <1>3, <1>4, <1>5, <1>6, <1>7 DEF ServiceInv

LEMMA RunHookKeeps ==
  ASSUME ServiceInv, NEW p \in Stops, S!RunHook(p)
  PROVE  ServiceInv'
<1> USE CallFacts
<1>1. S!TypeOK'
  BY DEF ServiceInv, S!TypeOK, S!RunHook, S!callVars, S!bodyVars, S!signal, S!cancelToken,
     S!is_stopped, S!Told
<1>2. CallsInv'
  BY <1>1 DEF ServiceInv, CallsInv, StoredInv, S!TypeOK, S!Serving, S!RunHook, S!callVars,
     S!bodyVars
<1>3. StoredInv'
  BY <1>1 DEF ServiceInv, CallsInv, StoredInv, S!TypeOK, S!Serving, S!RunHook, S!callVars,
     S!bodyVars
<1>4. S!BodiesOwned'
  BY <1>1 DEF ServiceInv, CallsInv, StoredInv, S!BodiesOwned, S!TypeOK, S!Serving, S!RunHook,
     S!callVars, S!bodyVars
<1>5. S!StoppedIfAsked'
  BY <1>1 DEF ServiceInv, CallsInv, StoredInv, S!StoppedIfAsked, S!TypeOK, S!Serving, S!RunHook,
     S!callVars, S!bodyVars, S!signal, S!cancelToken, S!is_stopped, S!Told
<1>6. S!TakenHasEnded'
  BY <1>1 DEF ServiceInv, CallsInv, StoredInv, S!TakenHasEnded, S!TypeOK, S!Serving, S!RunHook,
     S!callVars, S!bodyVars
<1>7. S!TakenOnce'
  BY <1>1 DEF ServiceInv, CallsInv, StoredInv, S!TakenOnce, S!TypeOK, S!Serving, S!RunHook,
     S!callVars, S!bodyVars
<1> QED
  BY <1>1, <1>2, <1>3, <1>4, <1>5, <1>6, <1>7 DEF ServiceInv

LEMMA SignalTakenKeeps ==
  ASSUME ServiceInv, NEW k \in S!Calls, S!SignalTaken(k)
  PROVE  ServiceInv'
<1> USE CallFacts
<1>1. S!TypeOK'
  BY DEF ServiceInv, CallsInv, S!Serving, S!TypeOK, S!SignalTaken, S!callVars, S!bodyVars,
     S!signal, S!cancelToken, S!is_stopped, S!Told
<1>2. CallsInv'
  BY <1>1 DEF ServiceInv, CallsInv, StoredInv, S!TypeOK, S!Serving, S!SignalTaken, S!callVars,
     S!bodyVars
<1>3. StoredInv'
  BY <1>1 DEF ServiceInv, CallsInv, StoredInv, S!TypeOK, S!Serving, S!SignalTaken, S!callVars,
     S!bodyVars
<1>4. S!BodiesOwned'
  BY <1>1 DEF ServiceInv, CallsInv, StoredInv, S!BodiesOwned, S!TypeOK, S!Serving, S!SignalTaken,
     S!callVars, S!bodyVars
<1>5. S!StoppedIfAsked'
  BY <1>1 DEF ServiceInv, CallsInv, StoredInv, S!StoppedIfAsked, S!TypeOK, S!Serving,
     S!SignalTaken, S!callVars, S!bodyVars, S!signal, S!cancelToken, S!is_stopped, S!Told
<1>6. S!TakenHasEnded'
  BY <1>1 DEF ServiceInv, CallsInv, StoredInv, S!TakenHasEnded, S!TypeOK, S!Serving,
     S!SignalTaken, S!callVars, S!bodyVars
<1>7. S!TakenOnce'
  BY <1>1 DEF ServiceInv, CallsInv, StoredInv, S!TakenOnce, S!TypeOK, S!Serving, S!SignalTaken,
     S!callVars, S!bodyVars
<1> QED
  BY <1>1, <1>2, <1>3, <1>4, <1>5, <1>6, <1>7 DEF ServiceInv

LEMMA CancelTakenKeeps ==
  ASSUME ServiceInv, NEW k \in S!Calls, S!CancelTaken(k)
  PROVE  ServiceInv'
<1> USE CallFacts
<1>1. S!TypeOK'
  BY DEF ServiceInv, CallsInv, S!Serving, S!TypeOK, S!CancelTaken, S!callVars, S!bodyVars,
     S!signal, S!cancelToken, S!is_stopped, S!Told
<1>2. CallsInv'
  BY <1>1 DEF ServiceInv, CallsInv, StoredInv, S!TypeOK, S!Serving, S!CancelTaken, S!callVars,
     S!bodyVars
<1>3. StoredInv'
  BY <1>1 DEF ServiceInv, CallsInv, StoredInv, S!TypeOK, S!Serving, S!CancelTaken, S!callVars,
     S!bodyVars
<1>4. S!BodiesOwned'
  BY <1>1 DEF ServiceInv, CallsInv, StoredInv, S!BodiesOwned, S!TypeOK, S!Serving, S!CancelTaken,
     S!callVars, S!bodyVars
<1>5. S!StoppedIfAsked'
  BY <1>1 DEF ServiceInv, CallsInv, StoredInv, S!StoppedIfAsked, S!TypeOK, S!Serving,
     S!CancelTaken, S!callVars, S!bodyVars, S!signal, S!cancelToken, S!is_stopped, S!Told
<1>6. S!TakenHasEnded'
  BY <1>1 DEF ServiceInv, CallsInv, StoredInv, S!TakenHasEnded, S!TypeOK, S!Serving,
     S!CancelTaken, S!callVars, S!bodyVars
<1>7. S!TakenOnce'
  BY <1>1 DEF ServiceInv, CallsInv, StoredInv, S!TakenOnce, S!TypeOK, S!Serving, S!CancelTaken,
     S!callVars, S!bodyVars
<1> QED
  BY <1>1, <1>2, <1>3, <1>4, <1>5, <1>6, <1>7 DEF ServiceInv

LEMMA JoinTakenKeeps ==
  ASSUME ServiceInv, NEW k \in S!Calls, S!JoinTaken(k)
  PROVE  ServiceInv'
<1> USE CallFacts
<1>1. S!TypeOK'
  BY DEF ServiceInv, S!TypeOK, S!JoinTaken, S!callVars, S!bodyVars, S!signal, S!cancelToken,
     S!is_stopped, S!Told
<1>2. CallsInv'
  BY <1>1 DEF ServiceInv, CallsInv, StoredInv, S!TypeOK, S!Serving, S!JoinTaken, S!callVars,
     S!bodyVars
<1>3. StoredInv'
  BY <1>1 DEF ServiceInv, CallsInv, StoredInv, S!TypeOK, S!Serving, S!JoinTaken, S!callVars,
     S!bodyVars
<1>4. S!BodiesOwned'
  BY <1>1 DEF ServiceInv, CallsInv, StoredInv, S!BodiesOwned, S!TypeOK, S!Serving, S!JoinTaken,
     S!callVars, S!bodyVars
<1>5. S!StoppedIfAsked'
  BY <1>1 DEF ServiceInv, CallsInv, StoredInv, S!StoppedIfAsked, S!TypeOK, S!Serving, S!JoinTaken,
     S!callVars, S!bodyVars, S!signal, S!cancelToken, S!is_stopped, S!Told
<1>6. S!TakenHasEnded'
  BY <1>1 DEF ServiceInv, CallsInv, StoredInv, S!TakenHasEnded, S!TypeOK, S!Serving, S!JoinTaken,
     S!callVars, S!bodyVars
<1>7. S!TakenOnce'
  BY <1>1 DEF ServiceInv, CallsInv, StoredInv, S!TakenOnce, S!TypeOK, S!Serving, S!JoinTaken,
     S!callVars, S!bodyVars
<1> QED
  BY <1>1, <1>2, <1>3, <1>4, <1>5, <1>6, <1>7 DEF ServiceInv

LEMMA AsksStoppedKeeps ==
  ASSUME ServiceInv, NEW s \in Starts, NEW w \in Waiters, S!AsksStopped(s, w)
  PROVE  ServiceInv'
<1> USE CallFacts
<1>1. S!TypeOK'
  BY DEF ServiceInv, S!TypeOK, S!AsksStopped, S!callVars, S!bodyVars, S!signal, S!cancelToken,
     S!is_stopped, S!Told
<1>2. CallsInv'
  BY <1>1 DEF ServiceInv, CallsInv, StoredInv, S!TypeOK, S!Serving, S!AsksStopped, S!callVars,
     S!bodyVars
<1>3. StoredInv'
  BY <1>1 DEF ServiceInv, CallsInv, StoredInv, S!TypeOK, S!Serving, S!AsksStopped, S!callVars,
     S!bodyVars
<1>4. S!BodiesOwned'
  BY <1>1 DEF ServiceInv, CallsInv, StoredInv, S!BodiesOwned, S!TypeOK, S!Serving, S!AsksStopped,
     S!callVars, S!bodyVars
<1>5. S!StoppedIfAsked'
  BY <1>1 DEF ServiceInv, CallsInv, StoredInv, S!StoppedIfAsked, S!TypeOK, S!Serving,
     S!AsksStopped, S!callVars, S!bodyVars, S!signal, S!cancelToken, S!is_stopped, S!Told
<1>6. S!TakenHasEnded'
  BY <1>1 DEF ServiceInv, CallsInv, StoredInv, S!TakenHasEnded, S!TypeOK, S!Serving,
     S!AsksStopped, S!callVars, S!bodyVars
<1>7. S!TakenOnce'
  BY <1>1 DEF ServiceInv, CallsInv, StoredInv, S!TakenOnce, S!TypeOK, S!Serving, S!AsksStopped,
     S!callVars, S!bodyVars
<1> QED
  BY <1>1, <1>2, <1>3, <1>4, <1>5, <1>6, <1>7 DEF ServiceInv

LEMMA StopReceivedKeeps ==
  ASSUME ServiceInv, NEW s \in Starts, NEW w \in Waiters, S!StopReceived(s, w)
  PROVE  ServiceInv'
<1> USE CallFacts
<1>1. S!TypeOK'
  BY DEF ServiceInv, S!TypeOK, S!StopReceived, S!callVars, S!bodyVars, S!signal, S!cancelToken,
     S!is_stopped, S!Told
<1>2. CallsInv'
  BY <1>1 DEF ServiceInv, CallsInv, StoredInv, S!TypeOK, S!Serving, S!StopReceived, S!callVars,
     S!bodyVars
<1>3. StoredInv'
  BY <1>1 DEF ServiceInv, CallsInv, StoredInv, S!TypeOK, S!Serving, S!StopReceived, S!callVars,
     S!bodyVars
<1>4. S!BodiesOwned'
  BY <1>1 DEF ServiceInv, CallsInv, StoredInv, S!BodiesOwned, S!TypeOK, S!Serving, S!StopReceived,
     S!callVars, S!bodyVars
<1>5. S!StoppedIfAsked'
  BY <1>1 DEF ServiceInv, CallsInv, StoredInv, S!StoppedIfAsked, S!TypeOK, S!Serving,
     S!StopReceived, S!callVars, S!bodyVars, S!signal, S!cancelToken, S!is_stopped, S!Told
<1>6. S!TakenHasEnded'
  BY <1>1 DEF ServiceInv, CallsInv, StoredInv, S!TakenHasEnded, S!TypeOK, S!Serving,
     S!StopReceived, S!callVars, S!bodyVars
<1>7. S!TakenOnce'
  BY <1>1 DEF ServiceInv, CallsInv, StoredInv, S!TakenOnce, S!TypeOK, S!Serving, S!StopReceived,
     S!callVars, S!bodyVars
<1> QED
  BY <1>1, <1>2, <1>3, <1>4, <1>5, <1>6, <1>7 DEF ServiceInv

LEMMA BodyEndsKeeps ==
  ASSUME ServiceInv, NEW s \in Starts, S!BodyEnds(s)
  PROVE  ServiceInv'
<1> USE CallFacts
<1>1. S!TypeOK'
  BY DEF ServiceInv, S!TypeOK, S!BodyEnds, S!callVars, S!bodyVars, S!signal, S!cancelToken,
     S!is_stopped, S!Told
<1>2. CallsInv'
  BY <1>1 DEF ServiceInv, CallsInv, StoredInv, S!TypeOK, S!Serving, S!BodyEnds, S!callVars,
     S!bodyVars
<1>3. StoredInv'
  BY <1>1 DEF ServiceInv, CallsInv, StoredInv, S!TypeOK, S!Serving, S!BodyEnds, S!callVars,
     S!bodyVars
<1>4. S!BodiesOwned'
  BY <1>1 DEF ServiceInv, CallsInv, StoredInv, S!BodiesOwned, S!TypeOK, S!Serving, S!BodyEnds,
     S!callVars, S!bodyVars
<1>5. S!StoppedIfAsked'
  BY <1>1 DEF ServiceInv, CallsInv, StoredInv, S!StoppedIfAsked, S!TypeOK, S!Serving, S!BodyEnds,
     S!callVars, S!bodyVars, S!signal, S!cancelToken, S!is_stopped, S!Told
<1>6. S!TakenHasEnded'
  BY <1>1 DEF ServiceInv, CallsInv, StoredInv, S!TakenHasEnded, S!TypeOK, S!Serving, S!BodyEnds,
     S!callVars, S!bodyVars
<1>7. S!TakenOnce'
  BY <1>1 DEF ServiceInv, CallsInv, StoredInv, S!TakenOnce, S!TypeOK, S!Serving, S!BodyEnds,
     S!callVars, S!bodyVars
<1> QED
  BY <1>1, <1>2, <1>3, <1>4, <1>5, <1>6, <1>7 DEF ServiceInv

LEMMA ServiceInit == S!Init => ServiceInv
  BY CallFacts DEF S!Init, ServiceInv, S!TypeOK, CallsInv, StoredInv, S!BodiesOwned,
     S!StoppedIfAsked,
     S!TakenHasEnded, S!TakenOnce, S!Serving

LEMMA ServiceKept ==
  ASSUME ServiceInv, Service(S!Next) \/ UNCHANGED serviceVars
  PROVE  ServiceInv'
<1>1. CASE S!Next
  BY <1>1, CallFacts, OnStartRefusedKeeps, OnStartKeeps, CancelStartKeeps, LockStateKeeps,
     RespondKeeps, WatchKeeps, OnStopKeeps,
     RunHookKeeps, SignalTakenKeeps, CancelTakenKeeps, JoinTakenKeeps, AsksStoppedKeeps, StopReceivedKeeps, BodyEndsKeeps
     DEF S!Next, S!Serve, S!StartGoesOn
<1>2. CASE UNCHANGED serviceVars
  BY <1>2 DEF serviceVars, ServiceInv, S!TypeOK, CallsInv, StoredInv, S!BodiesOwned,
     S!StoppedIfAsked,
     S!TakenHasEnded, S!TakenOnce, S!Serving
<1> QED
  BY <1>1, <1>2 DEF Service
-----------------------------------------------------------------------------
(* Wake locks.                                                             *)

\* Where a guard is, and what is on its wire.
GuardOf(l) ==
  /\ lock[l] = "none" => wire[l] = "none" /\ releases[l] = 0 /\ l \notin held
  /\ lock[l] = "asking" => wire[l] \in {"acquire", "granted", "denied"}
  /\ lock[l] = "held" => wire[l] = "none" /\ releases[l] = 0
  /\ lock[l] = "releasing" => wire[l] = "release"
  /\ lock[l] = "gone" => wire[l] \in {"notify", "none"} /\ (l \in held => wire[l] = "notify")
  /\ wire[l] # "none" => releases[l] = 0
  /\ wire[l] \in {"acquire", "denied"} => l \notin held
  /\ releases[l] <= 1

LocksInv == W!TypeOK /\ \A l \in Locks : GuardOf(l)

LEMMA LocksInit == W!Init => LocksInv
  BY DEF W!Init, LocksInv, W!TypeOK, GuardOf

LEMMA acquire_wakelockKeeps ==
  ASSUME LocksInv, NEW l \in Locks, W!acquire_wakelock(l)
  PROVE  LocksInv'
<1>1. W!TypeOK /\ GuardOf(l)
  BY DEF LocksInv
<1>2. W!TypeOK'
  BY <1>1 DEF GuardOf, W!TypeOK, W!acquire_wakelock, W!Sends, W!Becomes
<1>3. ASSUME NEW m \in Locks, m # l PROVE GuardOf(m)'
  BY <1>1, <1>3 DEF LocksInv, GuardOf, W!TypeOK, W!acquire_wakelock, W!Sends, W!Becomes
<1>4. GuardOf(l)'
  BY <1>1 DEF GuardOf, W!TypeOK, W!acquire_wakelock, W!Sends, W!Becomes
<1> QED
  BY <1>2, <1>3, <1>4 DEF LocksInv

LEMMA PlatformAcquiresKeeps ==
  ASSUME LocksInv, NEW l \in Locks, W!PlatformAcquires(l)
  PROVE  LocksInv'
<1>1. W!TypeOK /\ GuardOf(l)
  BY DEF LocksInv
<1>2. W!TypeOK'
  BY <1>1 DEF GuardOf, W!TypeOK, W!PlatformAcquires, W!Sends, W!Becomes
<1>3. ASSUME NEW m \in Locks, m # l PROVE GuardOf(m)'
  BY <1>1, <1>3 DEF LocksInv, GuardOf, W!TypeOK, W!PlatformAcquires, W!Sends, W!Becomes
<1>4. GuardOf(l)'
  BY <1>1 DEF GuardOf, W!TypeOK, W!PlatformAcquires, W!Sends, W!Becomes
<1> QED
  BY <1>2, <1>3, <1>4 DEF LocksInv

LEMMA AcquireAnsweredKeeps ==
  ASSUME LocksInv, NEW l \in Locks, W!AcquireAnswered(l)
  PROVE  LocksInv'
<1>1. W!TypeOK /\ GuardOf(l)
  BY DEF LocksInv
<1>2. W!TypeOK'
  BY <1>1 DEF GuardOf, W!TypeOK, W!AcquireAnswered, W!Sends, W!Becomes
<1>3. ASSUME NEW m \in Locks, m # l PROVE GuardOf(m)'
  BY <1>1, <1>3 DEF LocksInv, GuardOf, W!TypeOK, W!AcquireAnswered, W!Sends, W!Becomes
<1>4. GuardOf(l)'
  BY <1>1 DEF GuardOf, W!TypeOK, W!AcquireAnswered, W!Sends, W!Becomes
<1> QED
  BY <1>2, <1>3, <1>4 DEF LocksInv

LEMMA AbandonKeeps ==
  ASSUME LocksInv, NEW l \in Locks, W!Abandon(l)
  PROVE  LocksInv'
<1>1. W!TypeOK /\ GuardOf(l)
  BY DEF LocksInv
<1>2. W!TypeOK'
  BY <1>1 DEF GuardOf, W!TypeOK, W!Abandon, W!Sends, W!Becomes
<1>3. ASSUME NEW m \in Locks, m # l PROVE GuardOf(m)'
  BY <1>1, <1>3 DEF LocksInv, GuardOf, W!TypeOK, W!Abandon, W!Sends, W!Becomes
<1>4. GuardOf(l)'
  BY <1>1 DEF GuardOf, W!TypeOK, W!Abandon, W!Sends, W!Becomes
<1> QED
  BY <1>2, <1>3, <1>4 DEF LocksInv

LEMMA releaseKeeps ==
  ASSUME LocksInv, NEW l \in Locks, W!release(l)
  PROVE  LocksInv'
<1>1. W!TypeOK /\ GuardOf(l)
  BY DEF LocksInv
<1>2. W!TypeOK'
  BY <1>1 DEF GuardOf, W!TypeOK, W!release, W!Sends, W!Becomes
<1>3. ASSUME NEW m \in Locks, m # l PROVE GuardOf(m)'
  BY <1>1, <1>3 DEF LocksInv, GuardOf, W!TypeOK, W!release, W!Sends, W!Becomes
<1>4. GuardOf(l)'
  BY <1>1 DEF GuardOf, W!TypeOK, W!release, W!Sends, W!Becomes
<1> QED
  BY <1>2, <1>3, <1>4 DEF LocksInv

LEMMA dropKeeps ==
  ASSUME LocksInv, NEW l \in Locks, W!drop(l)
  PROVE  LocksInv'
<1>1. W!TypeOK /\ GuardOf(l)
  BY DEF LocksInv
<1>2. W!TypeOK'
  BY <1>1 DEF GuardOf, W!TypeOK, W!drop, W!Sends, W!Becomes
<1>3. ASSUME NEW m \in Locks, m # l PROVE GuardOf(m)'
  BY <1>1, <1>3 DEF LocksInv, GuardOf, W!TypeOK, W!drop, W!Sends, W!Becomes
<1>4. GuardOf(l)'
  BY <1>1 DEF GuardOf, W!TypeOK, W!drop, W!Sends, W!Becomes
<1> QED
  BY <1>2, <1>3, <1>4 DEF LocksInv

LEMMA PlatformReleasesKeeps ==
  ASSUME LocksInv, NEW l \in Locks, W!PlatformReleases(l)
  PROVE  LocksInv'
<1>1. W!TypeOK /\ GuardOf(l)
  BY DEF LocksInv
<1>2. W!TypeOK'
  BY <1>1 DEF GuardOf, W!TypeOK, W!PlatformReleases, W!Sends, W!Becomes
<1>3. ASSUME NEW m \in Locks, m # l PROVE GuardOf(m)'
  BY <1>1, <1>3 DEF LocksInv, GuardOf, W!TypeOK, W!PlatformReleases, W!Sends, W!Becomes
<1>4. GuardOf(l)'
  BY <1>1 DEF GuardOf, W!TypeOK, W!PlatformReleases, W!Sends, W!Becomes
<1> QED
  BY <1>2, <1>3, <1>4 DEF LocksInv

LEMMA LocksKept ==
  ASSUME LocksInv, Lock(W!Next) \/ UNCHANGED lockVars
  PROVE  LocksInv'
<1>1. CASE W!RuntimeDropped
  BY <1>1 DEF W!RuntimeDropped, LocksInv, W!TypeOK, GuardOf
<1>2. CASE W!Next /\ ~W!RuntimeDropped
  BY <1>2, acquire_wakelockKeeps, PlatformAcquiresKeeps, AcquireAnsweredKeeps, AbandonKeeps,
     releaseKeeps, dropKeeps, PlatformReleasesKeeps DEF W!Next
<1>3. CASE UNCHANGED lockVars
  BY <1>3 DEF lockVars, LocksInv, W!TypeOK, GuardOf
<1> QED
  BY <1>1, <1>2, <1>3 DEF Lock

LEMMA LocksTrackedInv == LocksInv => W!LocksTracked
  BY DEF LocksInv, W!LocksTracked, GuardOf, W!TypeOK
-----------------------------------------------------------------------------
(* Banner slots.                                                           *)

Is(i, kind) == tasks[i] # None /\ tasks[i].kind = kind
Visible == {b \in Banners : banners[b] # None}

\* One task of a kind, and only while the slot says so.
TasksInv ==
  /\ status = "Loading" <=> \E i \in Tasks : Is(i, "show")
  /\ status = "Hiding" <=> \E i \in Tasks : Is(i, "hide")
  /\ updater_running <=> \E i \in Tasks : Is(i, "updater")
  /\ \A i, j \in Tasks : \A kind \in {"show", "hide", "updater"} :
       Is(i, kind) /\ Is(j, kind) => i = j
  /\ status = "Live" /\ pending_rect # None => updater_running

\* What can be on the screen: the slot's banner, or that of the task that is to
\* hand it over or to remove it.
ScreenInv ==
  /\ status = "Idle" => Visible = {}
  /\ status = "Live" => Visible \subseteq {handle}
  /\ \A i \in Tasks :
       /\ At(i, "show", "ok") => tasks[i].banner \in Banners /\ Visible \subseteq {tasks[i].banner}
       /\ At(i, "show", "call") \/ At(i, "show", "err") => Visible = {}
       /\ At(i, "hide", "call") => Visible \subseteq {tasks[i].banner}
       /\ At(i, "hide", "ok") \/ At(i, "hide", "err") => Visible = {}
       /\ At(i, "updater", "call") => tasks[i].rect \in Rects

SlotInv == TypeOK /\ TasksInv /\ ScreenInv

LEMMA SlotFacts ==
  /\ None \notin Rects /\ None \notin Banners /\ Hide \notin Rects /\ None \notin Task
  /\ MaxBanners \in Nat /\ MaxRetargets \in Nat
  BY BannerSlotAssumption

LEMMA NewTasks ==
  /\ \A r \in Rects : /\ ShowTask(r) \in Task /\ ShowTask(r).kind = "show"
                      /\ ShowTask(r).at = "call" /\ ShowTask(r).rect = r
  /\ \A b \in Banners : /\ HideTask(b) \in Task /\ HideTask(b).kind = "hide"
                        /\ HideTask(b).at = "call" /\ HideTask(b).banner = b
                        /\ UpdaterTask(b) \in Task /\ UpdaterTask(b).kind = "updater"
                        /\ UpdaterTask(b).at = "take" /\ UpdaterTask(b).banner = b
  BY DEF ShowTask, HideTask, UpdaterTask, Task

LEMMA ShowForm ==
  ASSUME NEW t \in Task, t.kind = "show"
  PROVE  /\ t.rect \in Rects
         /\ LET u == [t EXCEPT !.at = "err"]
            IN  u \in Task /\ u.kind = "show" /\ u.at = "err"
  BY DEF Task

LEMMA ShowOk ==
  ASSUME NEW t \in Task, t.kind = "show", NEW b \in Banners
  PROVE  LET u == [t EXCEPT !.at = "ok", !.banner = b]
         IN  u \in Task /\ u.kind = "show" /\ u.at = "ok" /\ u.banner = b /\ u # None
  BY SlotFacts DEF Task

LEMMA HideForm ==
  ASSUME NEW t \in Task, t.kind = "hide"
  PROVE  t.banner \in Banners
  BY DEF Task

LEMMA HideDone ==
  ASSUME NEW t \in Task, t.kind = "hide", NEW a \in {"ok", "err"}
  PROVE  LET u == [t EXCEPT !.at = a]
         IN  u \in Task /\ u.kind = "hide" /\ u.at = a /\ u # None
  BY SlotFacts DEF Task

LEMMA UpdaterForm ==
  ASSUME NEW t \in Task, t.kind = "updater"
  PROVE  /\ t.banner \in Banners
         /\ LET u == [t EXCEPT !.at = "take", !.rect = None]
            IN  u \in Task /\ u.kind = "updater" /\ u.at = "take"
  BY DEF Task

LEMMA UpdaterDone ==
  ASSUME NEW t \in Task, t.kind = "updater", NEW a \in {"ok", "err"}
  PROVE  LET u == [t EXCEPT !.at = a]
         IN  u \in Task /\ u.kind = "updater" /\ u.at = a /\ u # None
  BY SlotFacts DEF Task

LEMMA UpdaterCall ==
  ASSUME NEW t \in Task, t.kind = "updater", NEW r \in Rects
  PROVE  LET u == [t EXCEPT !.at = "call", !.rect = r]
         IN  u \in Task /\ u.kind = "updater" /\ u.at = "call" /\ u.rect \in Rects /\ u # None
  BY SlotFacts DEF Task

\* A task of the list becomes another one, of a kind it may be, or ends.
LEMMA Becomes ==
  ASSUME TypeOK, NEW i \in Tasks, NEW u \in Task \cup {None}, tasks' = [tasks EXCEPT ![i] = u]
  PROVE  /\ tasks' \in [Tasks -> Task \cup {None}] /\ tasks'[i] = u
         /\ \A j \in Tasks : j # i => tasks'[j] = tasks[j]
  BY DEF TypeOK

\* The steps of a slot.

LEMMA SyncShowSlot ==
  ASSUME SlotInv, NEW r \in Rects, UNCHANGED <<uiVars, last_error, platformVars>>, SyncShow(r)
  PROVE  SlotInv'
<1> USE SlotFacts
<1>1. TypeOK /\ TasksInv /\ ScreenInv
  BY DEF SlotInv
<1>2. ShowTask(r) \in Task /\ ShowTask(r).kind = "show" /\ ShowTask(r).at = "call"
      /\ ShowTask(r) # None 
  BY <1>1, NewTasks DEF SyncShow, TypeOK
<1>3. PICK i \in Tasks : tasks[i] = None /\ tasks' = [tasks EXCEPT ![i] = ShowTask(r)]
  BY DEF SyncShow, spawn
<1>4. /\ tasks' \in [Tasks -> Task \cup {None}] /\ tasks'[i] = ShowTask(r)
      /\ \A j \in Tasks : j # i => tasks'[j] = tasks[j]
  BY <1>1, <1>2, <1>3, Becomes
<1>5. Visible' = Visible
  BY DEF SyncShow, Visible, platformVars
<1>7. TypeOK'
  BY <1>1, <1>4 DEF TypeOK, SyncShow, uiVars, slotVars, platformVars
<1>8. TasksInv'
  BY <1>1, <1>2, <1>3, <1>4 DEF TasksInv, Is, SyncShow, uiVars, slotVars, platformVars
<1>9. ScreenInv'
  BY <1>1, <1>2, <1>3, <1>4, <1>5 DEF ScreenInv, TasksInv, Is, At, SyncShow, uiVars, slotVars,
     platformVars
<1> QED
  BY <1>7, <1>8, <1>9 DEF SlotInv

LEMMA SyncHideSlot ==
  ASSUME SlotInv, UNCHANGED <<uiVars, last_error, platformVars>>, SyncHide
  PROVE  SlotInv'
<1> USE SlotFacts
<1>1. TypeOK /\ TasksInv /\ ScreenInv
  BY DEF SlotInv
<1>2. HideTask(handle) \in Task /\ HideTask(handle).kind = "hide"
      /\ HideTask(handle).at = "call" /\ HideTask(handle) # None /\ HideTask(handle).banner = handle
  BY <1>1, NewTasks DEF SyncHide, TypeOK
<1>3. PICK i \in Tasks : tasks[i] = None /\ tasks' = [tasks EXCEPT ![i] = HideTask(handle)]
  BY DEF SyncHide, spawn
<1>4. /\ tasks' \in [Tasks -> Task \cup {None}] /\ tasks'[i] = HideTask(handle)
      /\ \A j \in Tasks : j # i => tasks'[j] = tasks[j]
  BY <1>1, <1>2, <1>3, Becomes
<1>5. Visible' = Visible
  BY DEF SyncHide, Visible, platformVars
<1>7. TypeOK'
  BY <1>1, <1>4 DEF TypeOK, SyncHide, uiVars, slotVars, platformVars
<1>8. TasksInv'
  BY <1>1, <1>2, <1>3, <1>4 DEF TasksInv, Is, SyncHide, uiVars, slotVars, platformVars
<1>9. ScreenInv'
  BY <1>1, <1>2, <1>3, <1>4, <1>5 DEF ScreenInv, TasksInv, Is, At, SyncHide, uiVars, slotVars,
     platformVars
<1> QED
  BY <1>7, <1>8, <1>9 DEF SlotInv

LEMMA SyncLoadingSlot ==
  ASSUME SlotInv, NEW r \in Rects, UNCHANGED <<uiVars, last_error, platformVars>>, SyncLoading(r)
  PROVE  SlotInv'
<1> USE SlotFacts
<1>1. TypeOK /\ TasksInv /\ ScreenInv
  BY DEF SlotInv
<1>5. Visible' = Visible
  BY DEF SyncLoading, Visible, platformVars
<1>7. TypeOK'
  BY <1>1 DEF TypeOK, SyncLoading, uiVars, slotVars, platformVars
<1>8. TasksInv'
  BY <1>1 DEF TasksInv, Is, SyncLoading, uiVars, slotVars, platformVars
<1>9. ScreenInv'
  BY <1>1, <1>5 DEF ScreenInv, At, SyncLoading, uiVars, slotVars, platformVars
<1> QED
  BY <1>7, <1>8, <1>9 DEF SlotInv

LEMMA RetargetSlot ==
  ASSUME SlotInv, NEW t \in Rects \cup {Hide}, Retarget(t)
  PROVE  SlotInv'
<1> USE SlotFacts
<1>1. TypeOK /\ TasksInv /\ ScreenInv
  BY DEF SlotInv
<1>5. Visible' = Visible
  BY DEF Retarget, Visible, platformVars
<1>7. TypeOK'
  BY <1>1 DEF TypeOK, Retarget, uiVars, slotVars, platformVars
<1>8. TasksInv'
  BY <1>1 DEF TasksInv, Is, Retarget, uiVars, slotVars, platformVars
<1>9. ScreenInv'
  BY <1>1, <1>5 DEF ScreenInv, At, Retarget, uiVars, slotVars, platformVars
<1> QED
  BY <1>7, <1>8, <1>9 DEF SlotInv

LEMMA SyncMoveSlot ==
  ASSUME SlotInv, NEW r \in Rects, UNCHANGED <<uiVars, last_error, platformVars>>, SyncMove(r)
  PROVE  SlotInv'
<1> USE SlotFacts
<1>1. TypeOK /\ TasksInv /\ ScreenInv
  BY DEF SlotInv
<1>2. UpdaterTask(handle) \in Task /\ UpdaterTask(handle).kind = "updater"
      /\ UpdaterTask(handle).at = "take"
      /\ UpdaterTask(handle) # None
  BY <1>1, NewTasks DEF SyncMove, TypeOK
<1>5. Visible' = Visible
  BY DEF Visible, platformVars
<1>3. CASE UNCHANGED tasks /\ updater_running
  <2>7. TypeOK'
    BY <1>1, <1>3 DEF TypeOK, SyncMove, uiVars, slotVars, platformVars
  <2>8. TasksInv'
    BY <1>1, <1>3 DEF TasksInv, Is, SyncMove, uiVars, slotVars, platformVars
  <2>9. ScreenInv'
    BY <1>1, <1>3, <1>5 DEF ScreenInv, At, SyncMove, uiVars, slotVars, platformVars
  <2> QED
    BY <2>7, <2>8, <2>9 DEF SlotInv
<1>4. CASE ~updater_running /\ spawn(UpdaterTask(handle))
  <2>3. PICK i \in Tasks : tasks[i] = None /\ tasks' = [tasks EXCEPT ![i] = UpdaterTask(handle)]
    BY <1>4 DEF spawn
  <2>4. /\ tasks' \in [Tasks -> Task \cup {None}] /\ tasks'[i] = UpdaterTask(handle)
        /\ \A j \in Tasks : j # i => tasks'[j] = tasks[j]
    BY <1>1, <1>2, <2>3, Becomes
  <2>7. TypeOK'
    BY <1>1, <2>4 DEF TypeOK, SyncMove, uiVars, slotVars, platformVars
  <2>8. TasksInv'
    BY <1>1, <1>2, <1>4, <2>3, <2>4 DEF TasksInv, Is, SyncMove, uiVars, slotVars, platformVars
  <2>9. ScreenInv'
    BY <1>1, <1>2, <2>3, <2>4, <1>5 DEF ScreenInv, At, SyncMove, uiVars, slotVars, platformVars
  <2> QED
    BY <2>7, <2>8, <2>9 DEF SlotInv
<1> QED
  BY <1>3, <1>4 DEF SyncMove

LEMMA FinishShowSlot ==
  ASSUME SlotInv, NEW i \in Tasks, FinishShow(i)
  PROVE  SlotInv'
<1> USE SlotFacts
<1>1. TypeOK /\ TasksInv /\ ScreenInv
  BY DEF SlotInv
<1>2. tasks[i] \in Task /\ tasks[i].kind = "show" /\ tasks[i] # None
  BY <1>1 DEF FinishShow, At, TypeOK
<1>3. CASE pending_rect # None /\ ~updater_running /\ updater_running' = TRUE
           /\ Become(i, UpdaterTask(tasks[i].banner))
  <2>1. tasks[i].banner \in Banners
    BY <1>1, <1>2, <1>3 DEF ScreenInv, At, FinishShow, TypeOK, Banners
  <2>2. UpdaterTask(tasks[i].banner) \in Task /\ UpdaterTask(tasks[i].banner).kind = "updater"
        /\ UpdaterTask(tasks[i].banner).at = "take" /\ UpdaterTask(tasks[i].banner) # None
    BY <2>1, <1>2, NewTasks
  <2> DEFINE u == UpdaterTask(tasks[i].banner)
  <2>3. u \in Task /\ u.kind = "updater" /\ u.at = "take" /\ u # None
    BY <2>2
  <2>4. /\ tasks' \in [Tasks -> Task \cup {None}] /\ tasks'[i] = u
        /\ \A j \in Tasks : j # i => tasks'[j] = tasks[j]
    <3>1. tasks' = [tasks EXCEPT ![i] = u]
      BY <1>3 DEF Become
    <3> HIDE DEF u
    <3> QED
      BY <3>1, <2>3, <1>1, Becomes
  <2> HIDE DEF u
  <2>5. tasks[i].banner \in Banners /\ tasks[i].rect \in Rects /\ Visible' = Visible
        /\ banners' = banners
    BY <1>1, <1>2, ShowForm DEF ScreenInv, At, Visible, FinishShow, platformVars
  <2>7. TypeOK'
    BY <1>1, <1>2, <1>3, <2>4, <2>5 DEF TypeOK, ScreenInv, TasksInv, Is, At, FinishShow, uiVars,
       slotVars, platformVars
  <2>8. TasksInv'
    BY <1>1, <1>2, <1>3, <2>3, <2>4 DEF TasksInv, Is, At, FinishShow, uiVars, slotVars, platformVars
  <2>9. ScreenInv'
    BY <1>1, <1>2, <1>3, <2>3, <2>4, <2>5 DEF ScreenInv, TasksInv, Is, At, FinishShow, uiVars,
       slotVars, platformVars
  <2> QED
    BY <2>7, <2>8, <2>9 DEF SlotInv
<1>4. CASE (pending_rect = None \/ updater_running) /\ UNCHANGED updater_running /\ Become(i, None)
  <2>4. /\ tasks' \in [Tasks -> Task \cup {None}] /\ tasks'[i] = None
        /\ \A j \in Tasks : j # i => tasks'[j] = tasks[j]
    <3>1. tasks' = [tasks EXCEPT ![i] = None] /\ None \in Task \cup {None}
      BY <1>4 DEF Become
    <3> QED
      BY <3>1, <1>1, Becomes
  <2>5. tasks[i].banner \in Banners /\ tasks[i].rect \in Rects /\ Visible' = Visible
        /\ banners' = banners
    BY <1>1, <1>2, ShowForm DEF ScreenInv, At, Visible, FinishShow, platformVars
  <2>7. TypeOK'
    BY <1>1, <1>2, <1>4, <2>4, <2>5 DEF TypeOK, ScreenInv, TasksInv, Is, At, FinishShow, uiVars,
       slotVars, platformVars
  <2>8. TasksInv'
    BY <1>1, <1>2, <1>4, <2>4 DEF TasksInv, Is, At, FinishShow, uiVars, slotVars, platformVars
  <2>9. ScreenInv'
    BY <1>1, <1>2, <1>4, <2>4, <2>5 DEF ScreenInv, TasksInv, Is, At, FinishShow, uiVars, slotVars,
       platformVars
  <2> QED
    BY <2>7, <2>8, <2>9 DEF SlotInv
<1> QED
  BY <1>3, <1>4 DEF FinishShow

LEMMA FailShowSlot ==
  ASSUME SlotInv, NEW i \in Tasks, FailShow(i)
  PROVE  SlotInv'
<1> USE SlotFacts
<1>1. TypeOK /\ TasksInv /\ ScreenInv
  BY DEF SlotInv
<1>2. tasks[i] \in Task /\ tasks[i].kind = "show" /\ tasks[i] # None
  BY <1>1 DEF FailShow, At, TypeOK
<1>3. CASE Become(i, None)
  <2>4. /\ tasks' \in [Tasks -> Task \cup {None}] /\ tasks'[i] = None
        /\ \A j \in Tasks : j # i => tasks'[j] = tasks[j]
    <3>1. tasks' = [tasks EXCEPT ![i] = None] /\ None \in Task \cup {None}
      BY <1>3 DEF Become
    <3> QED
      BY <3>1, <1>1, Becomes
  <2>5. Visible' = Visible /\ banners' = banners
    BY DEF Visible, FailShow, platformVars
  <2>7. TypeOK'
    BY <1>1, <1>2, <1>3, <2>4, <2>5 DEF TypeOK, ScreenInv, TasksInv, Is, At, FailShow, uiVars,
       slotVars, platformVars
  <2>8. TasksInv'
    BY <1>1, <1>2, <1>3, <2>4 DEF TasksInv, Is, At, FailShow, uiVars, slotVars, platformVars
  <2>9. ScreenInv'
    BY <1>1, <1>2, <1>3, <2>4, <2>5 DEF ScreenInv, TasksInv, Is, At, FailShow, uiVars, slotVars,
       platformVars
  <2> QED
    BY <2>7, <2>8, <2>9 DEF SlotInv
<1> QED
  BY <1>3 DEF FailShow

LEMMA FinishHideSlot ==
  ASSUME SlotInv, NEW i \in Tasks, FinishHide(i)
  PROVE  SlotInv'
<1> USE SlotFacts
<1>1. TypeOK /\ TasksInv /\ ScreenInv
  BY DEF SlotInv
<1>2. tasks[i] \in Task /\ tasks[i].kind = "hide" /\ tasks[i] # None
  BY <1>1 DEF FinishHide, At, TypeOK
<1>3. CASE Become(i, None)
  <2>4. /\ tasks' \in [Tasks -> Task \cup {None}] /\ tasks'[i] = None
        /\ \A j \in Tasks : j # i => tasks'[j] = tasks[j]
    <3>1. tasks' = [tasks EXCEPT ![i] = None] /\ None \in Task \cup {None}
      BY <1>3 DEF Become
    <3> QED
      BY <3>1, <1>1, Becomes
  <2>5. Visible' = Visible /\ banners' = banners
    BY DEF Visible, FinishHide, platformVars
  <2>7. TypeOK'
    BY <1>1, <1>2, <1>3, <2>4, <2>5 DEF TypeOK, ScreenInv, TasksInv, Is, At, FinishHide, uiVars,
       slotVars, platformVars
  <2>8. TasksInv'
    BY <1>1, <1>2, <1>3, <2>4 DEF TasksInv, Is, At, FinishHide, uiVars, slotVars, platformVars
  <2>9. ScreenInv'
    BY <1>1, <1>2, <1>3, <2>4, <2>5 DEF ScreenInv, TasksInv, Is, At, FinishHide, uiVars, slotVars,
       platformVars
  <2> QED
    BY <2>7, <2>8, <2>9 DEF SlotInv
<1> QED
  BY <1>3 DEF FinishHide

LEMMA TakePendingSlot ==
  ASSUME SlotInv, NEW i \in Tasks, TakePending(i)
  PROVE  SlotInv'
<1> USE SlotFacts
<1>1. TypeOK /\ TasksInv /\ ScreenInv
  BY DEF SlotInv
<1>2. tasks[i] \in Task /\ tasks[i].kind = "updater" /\ tasks[i] # None
  BY <1>1 DEF TakePending, At, TypeOK
<1>3. CASE pending_rect = None /\ updater_running' = FALSE /\ UNCHANGED pending_rect
           /\ Become(i, None)
  <2>4. /\ tasks' \in [Tasks -> Task \cup {None}] /\ tasks'[i] = None
        /\ \A j \in Tasks : j # i => tasks'[j] = tasks[j]
    <3>1. tasks' = [tasks EXCEPT ![i] = None] /\ None \in Task \cup {None}
      BY <1>3 DEF Become
    <3> QED
      BY <3>1, <1>1, Becomes
  <2>5. Visible' = Visible /\ banners' = banners
    BY DEF Visible, TakePending, platformVars
  <2>7. TypeOK'
    BY <1>1, <1>2, <1>3, <2>4, <2>5 DEF TypeOK, ScreenInv, TasksInv, Is, At, TakePending, uiVars,
       slotVars, platformVars
  <2>8. TasksInv'
    BY <1>1, <1>2, <1>3, <2>4 DEF TasksInv, Is, At, TakePending, uiVars, slotVars, platformVars
  <2>9. ScreenInv'
    BY <1>1, <1>2, <1>3, <2>4, <2>5 DEF ScreenInv, TasksInv, Is, At, TakePending, uiVars,
       slotVars, platformVars
  <2> QED
    BY <2>7, <2>8, <2>9 DEF SlotInv
<1>4. CASE pending_rect # None /\ pending_rect' = None /\ UNCHANGED updater_running
           /\ Become(i, [tasks[i] EXCEPT !.at = "call", !.rect = pending_rect])
  <2>1. pending_rect \in Rects
    BY <1>1, <1>2, <1>4 DEF ScreenInv, At, TakePending, TypeOK, Banners
  <2>2. [tasks[i] EXCEPT !.at = "call", !.rect = pending_rect] \in Task
        /\ [tasks[i] EXCEPT !.at = "call", !.rect = pending_rect].kind = "updater"
        /\ [tasks[i] EXCEPT !.at = "call", !.rect = pending_rect].at = "call"
        /\ [tasks[i] EXCEPT !.at = "call", !.rect = pending_rect].rect \in Rects
        /\ [tasks[i] EXCEPT !.at = "call", !.rect = pending_rect] # None
    BY <2>1, <1>2, UpdaterCall
  <2> DEFINE u == [tasks[i] EXCEPT !.at = "call", !.rect = pending_rect]
  <2>3. u \in Task /\ u.kind = "updater" /\ u.at = "call" /\ u.rect \in Rects /\ u # None
    BY <2>2
  <2>4. /\ tasks' \in [Tasks -> Task \cup {None}] /\ tasks'[i] = u
        /\ \A j \in Tasks : j # i => tasks'[j] = tasks[j]
    <3>1. tasks' = [tasks EXCEPT ![i] = u]
      BY <1>4 DEF Become
    <3> HIDE DEF u
    <3> QED
      BY <3>1, <2>3, <1>1, Becomes
  <2> HIDE DEF u
  <2>5. Visible' = Visible /\ banners' = banners
    BY DEF Visible, TakePending, platformVars
  <2>7. TypeOK'
    BY <1>1, <1>2, <1>4, <2>4, <2>5 DEF TypeOK, ScreenInv, TasksInv, Is, At, TakePending, uiVars,
       slotVars, platformVars
  <2>8. TasksInv'
    BY <1>1, <1>2, <1>4, <2>3, <2>4 DEF TasksInv, Is, At, TakePending, uiVars, slotVars,
       platformVars
  <2>9. ScreenInv'
    BY <1>1, <1>2, <1>4, <2>3, <2>4, <2>5 DEF ScreenInv, TasksInv, Is, At, TakePending, uiVars,
       slotVars, platformVars
  <2> QED
    BY <2>7, <2>8, <2>9 DEF SlotInv
<1> QED
  BY <1>3, <1>4 DEF TakePending

LEMMA FinishUpdateSlot ==
  ASSUME SlotInv, NEW i \in Tasks, FinishUpdate(i)
  PROVE  SlotInv'
<1> USE SlotFacts
<1>1. TypeOK /\ TasksInv /\ ScreenInv
  BY DEF SlotInv
<1>2. tasks[i] \in Task /\ tasks[i].kind = "updater" /\ tasks[i] # None
  BY <1>1 DEF FinishUpdate, At, TypeOK
<1>3. CASE UNCHANGED <<pending_rect, updater_running>>
           /\ Become(i, [tasks[i] EXCEPT !.at = "take", !.rect = None])
  <2>2. [tasks[i] EXCEPT !.at = "take", !.rect = None] \in Task
        /\ [tasks[i] EXCEPT !.at = "take", !.rect = None].kind = "updater"
        /\ [tasks[i] EXCEPT !.at = "take", !.rect = None].at = "take"
        /\ [tasks[i] EXCEPT !.at = "take", !.rect = None] # None
    BY <1>2, UpdaterForm
  <2> DEFINE u == [tasks[i] EXCEPT !.at = "take", !.rect = None]
  <2>3. u \in Task /\ u.kind = "updater" /\ u.at = "take" /\ u # None
    BY <2>2
  <2>4. /\ tasks' \in [Tasks -> Task \cup {None}] /\ tasks'[i] = u
        /\ \A j \in Tasks : j # i => tasks'[j] = tasks[j]
    <3>1. tasks' = [tasks EXCEPT ![i] = u]
      BY <1>3 DEF Become
    <3> HIDE DEF u
    <3> QED
      BY <3>1, <2>3, <1>1, Becomes
  <2> HIDE DEF u
  <2>5. Visible' = Visible /\ banners' = banners
    BY DEF Visible, FinishUpdate, platformVars
  <2>7. TypeOK'
    BY <1>1, <1>2, <1>3, <2>4, <2>5 DEF TypeOK, ScreenInv, TasksInv, Is, At, FinishUpdate, uiVars,
       slotVars, platformVars
  <2>8. TasksInv'
    BY <1>1, <1>2, <1>3, <2>3, <2>4 DEF TasksInv, Is, At, FinishUpdate, uiVars, slotVars,
       platformVars
  <2>9. ScreenInv'
    BY <1>1, <1>2, <1>3, <2>3, <2>4, <2>5 DEF ScreenInv, TasksInv, Is, At, FinishUpdate, uiVars,
       slotVars, platformVars
  <2> QED
    BY <2>7, <2>8, <2>9 DEF SlotInv
<1>4. CASE pending_rect' = None /\ updater_running' = FALSE /\ Become(i, None)
  <2>4. /\ tasks' \in [Tasks -> Task \cup {None}] /\ tasks'[i] = None
        /\ \A j \in Tasks : j # i => tasks'[j] = tasks[j]
    <3>1. tasks' = [tasks EXCEPT ![i] = None] /\ None \in Task \cup {None}
      BY <1>4 DEF Become
    <3> QED
      BY <3>1, <1>1, Becomes
  <2>5. Visible' = Visible /\ banners' = banners
    BY DEF Visible, FinishUpdate, platformVars
  <2>7. TypeOK'
    BY <1>1, <1>2, <1>4, <2>4, <2>5 DEF TypeOK, ScreenInv, TasksInv, Is, At, FinishUpdate, uiVars,
       slotVars, platformVars
  <2>8. TasksInv'
    BY <1>1, <1>2, <1>4, <2>4 DEF TasksInv, Is, At, FinishUpdate, uiVars, slotVars, platformVars
  <2>9. ScreenInv'
    BY <1>1, <1>2, <1>4, <2>4, <2>5 DEF ScreenInv, TasksInv, Is, At, FinishUpdate, uiVars,
       slotVars, platformVars
  <2> QED
    BY <2>7, <2>8, <2>9 DEF SlotInv
<1> QED
  BY <1>3, <1>4 DEF FinishUpdate

LEMMA PlatformShowsSlot ==
  ASSUME SlotInv, NEW i \in Tasks, PlatformShows(i)
  PROVE  SlotInv'
<1> USE SlotFacts
<1>1. TypeOK /\ TasksInv /\ ScreenInv
  BY DEF SlotInv
<1>2. tasks[i] \in Task /\ tasks[i].kind = "show" /\ tasks[i] # None
  BY <1>1 DEF PlatformShows, At, TypeOK
<1>3. CASE shown < MaxBanners /\ shown' = shown + 1
           /\ banners' = [banners EXCEPT ![shown'] = tasks[i].rect]
           /\ Become(i, [tasks[i] EXCEPT !.at = "ok", !.banner = shown'])
  <2>1. shown' \in Banners /\ shown' \in 0..MaxBanners
    BY <1>1, <1>2, <1>3 DEF ScreenInv, At, PlatformShows, TypeOK, Banners
  <2>2. [tasks[i] EXCEPT !.at = "ok", !.banner = shown'] \in Task
        /\ [tasks[i] EXCEPT !.at = "ok", !.banner = shown'].kind = "show"
        /\ [tasks[i] EXCEPT !.at = "ok", !.banner = shown'].at = "ok"
        /\ [tasks[i] EXCEPT !.at = "ok", !.banner = shown'].banner = shown'
        /\ [tasks[i] EXCEPT !.at = "ok", !.banner = shown'] # None
    BY <2>1, <1>2, ShowOk
  <2> DEFINE u == [tasks[i] EXCEPT !.at = "ok", !.banner = shown']
  <2>3. u \in Task /\ u.kind = "show" /\ u.at = "ok" /\ u.banner = shown' /\ u # None
    BY <2>2
  <2>4. /\ tasks' \in [Tasks -> Task \cup {None}] /\ tasks'[i] = u
        /\ \A j \in Tasks : j # i => tasks'[j] = tasks[j]
    <3>1. tasks' = [tasks EXCEPT ![i] = u]
      BY <1>3 DEF Become
    <3> HIDE DEF u
    <3> QED
      BY <3>1, <2>3, <1>1, Becomes
  <2> HIDE DEF u
  <2>5. /\ banners' \in [Banners -> Rects \cup {None}] /\ Visible' \subseteq {shown'}
        /\ shown' \in 0..MaxBanners
    BY <1>1, <1>2, <1>3, <2>1, ShowForm DEF Visible, ScreenInv, At, PlatformShows, TypeOK, Banners
  <2>7. TypeOK'
    BY <1>1, <1>2, <1>3, <2>4, <2>5 DEF TypeOK, ScreenInv, TasksInv, Is, At, PlatformShows,
       uiVars, slotVars, platformVars
  <2>8. TasksInv'
    BY <1>1, <1>2, <1>3, <2>3, <2>4 DEF TasksInv, Is, At, PlatformShows, uiVars, slotVars,
       platformVars
  <2>9. ScreenInv'
    BY <1>1, <1>2, <1>3, <2>3, <2>4, <2>5 DEF ScreenInv, TasksInv, Is, At, PlatformShows, uiVars,
       slotVars, platformVars
  <2> QED
    BY <2>7, <2>8, <2>9 DEF SlotInv
<1>4. CASE UNCHANGED platformVars /\ Become(i, [tasks[i] EXCEPT !.at = "err"])
  <2>2. [tasks[i] EXCEPT !.at = "err"] \in Task /\ [tasks[i] EXCEPT !.at = "err"].kind = "show"
        /\ [tasks[i] EXCEPT !.at = "err"].at = "err" /\ [tasks[i] EXCEPT !.at = "err"] # None
    BY <1>2, ShowForm
  <2> DEFINE u == [tasks[i] EXCEPT !.at = "err"]
  <2>3. u \in Task /\ u.kind = "show" /\ u.at = "err" /\ u # None
    BY <2>2
  <2>4. /\ tasks' \in [Tasks -> Task \cup {None}] /\ tasks'[i] = u
        /\ \A j \in Tasks : j # i => tasks'[j] = tasks[j]
    <3>1. tasks' = [tasks EXCEPT ![i] = u]
      BY <1>4 DEF Become
    <3> HIDE DEF u
    <3> QED
      BY <3>1, <2>3, <1>1, Becomes
  <2> HIDE DEF u
  <2>5. Visible' = Visible /\ banners' = banners
    BY <1>4 DEF Visible, platformVars
  <2>7. TypeOK'
    BY <1>1, <1>2, <1>4, <2>4, <2>5 DEF TypeOK, ScreenInv, TasksInv, Is, At, PlatformShows,
       uiVars, slotVars, platformVars
  <2>8. TasksInv'
    BY <1>1, <1>2, <1>4, <2>3, <2>4 DEF TasksInv, Is, At, PlatformShows, uiVars, slotVars,
       platformVars
  <2>9. ScreenInv'
    BY <1>1, <1>2, <1>4, <2>3, <2>4, <2>5 DEF ScreenInv, TasksInv, Is, At, PlatformShows, uiVars,
       slotVars, platformVars
  <2> QED
    BY <2>7, <2>8, <2>9 DEF SlotInv
<1> QED
  BY <1>3, <1>4 DEF PlatformShows

LEMMA PlatformMovesSlot ==
  ASSUME SlotInv, NEW i \in Tasks, PlatformMoves(i)
  PROVE  SlotInv'
<1> USE SlotFacts
<1>1. TypeOK /\ TasksInv /\ ScreenInv
  BY DEF SlotInv
<1>2. tasks[i] \in Task /\ tasks[i].kind = "updater" /\ tasks[i] # None /\ tasks[i].at = "call"
  BY <1>1 DEF PlatformMoves, At, TypeOK
<1>3. PICK at \in {"ok", "err"} : Become(i, [tasks[i] EXCEPT !.at = at])
  BY DEF PlatformMoves
<1> DEFINE u == [tasks[i] EXCEPT !.at = at]
<1>4. u \in Task /\ u.kind = "updater" /\ u.at = at /\ u # None
  BY <1>2, UpdaterDone
<1>5. /\ tasks' \in [Tasks -> Task \cup {None}] /\ tasks'[i] = u
      /\ \A j \in Tasks : j # i => tasks'[j] = tasks[j]
  <2>1. tasks' = [tasks EXCEPT ![i] = u]
    BY <1>3 DEF Become
  <2> HIDE DEF u
  <2> QED
    BY <2>1, <1>4, <1>1, Becomes
<1> HIDE DEF u
<1>6. banners' \in [Banners -> Rects \cup {None}] /\ Visible' = Visible
  <2>1. tasks[i].banner \in Banners /\ tasks[i].rect \in Rects
    BY <1>1, <1>2, UpdaterForm DEF ScreenInv, At
  <2> QED
    BY <1>1, <2>1 DEF Visible, TypeOK, PlatformMoves
<1>7. TypeOK'
  BY <1>1, <1>5, <1>6 DEF TypeOK, PlatformMoves, uiVars, slotVars, platformVars
<1>8. TasksInv'
  BY <1>1, <1>2, <1>4, <1>5 DEF TasksInv, Is, PlatformMoves, uiVars, slotVars, platformVars
<1>9. ScreenInv'
  BY <1>1, <1>2, <1>4, <1>5, <1>6 DEF ScreenInv, TasksInv, Is, At, PlatformMoves, uiVars,
     slotVars, platformVars
<1> QED
  BY <1>7, <1>8, <1>9 DEF SlotInv

LEMMA PlatformHidesSlot ==
  ASSUME SlotInv, NEW i \in Tasks, PlatformHides(i)
  PROVE  SlotInv'
<1> USE SlotFacts
<1>1. TypeOK /\ TasksInv /\ ScreenInv
  BY DEF SlotInv
<1>2. tasks[i] \in Task /\ tasks[i].kind = "hide" /\ tasks[i] # None /\ tasks[i].at = "call"
  BY <1>1 DEF PlatformHides, At, TypeOK
<1>3. PICK at \in {"ok", "err"} : Become(i, [tasks[i] EXCEPT !.at = at])
  BY DEF PlatformHides
<1> DEFINE u == [tasks[i] EXCEPT !.at = at]
<1>4. u \in Task /\ u.kind = "hide" /\ u.at = at /\ u # None
  BY <1>2, HideDone
<1>5. /\ tasks' \in [Tasks -> Task \cup {None}] /\ tasks'[i] = u
      /\ \A j \in Tasks : j # i => tasks'[j] = tasks[j]
  <2>1. tasks' = [tasks EXCEPT ![i] = u]
    BY <1>3 DEF Become
  <2> HIDE DEF u
  <2> QED
    BY <2>1, <1>4, <1>1, Becomes
<1> HIDE DEF u
<1>6. banners' \in [Banners -> Rects \cup {None}] /\ Visible' = {}
  <2>1. tasks[i].banner \in Banners /\ Visible \subseteq {tasks[i].banner}
    BY <1>1, <1>2, HideForm DEF ScreenInv, At
  <2>2. banners' = [banners EXCEPT ![tasks[i].banner] = None]
    BY DEF PlatformHides
  <2> QED
    BY <1>1, <2>1, <2>2 DEF Visible, TypeOK
<1>7. TypeOK'
  BY <1>1, <1>5, <1>6 DEF TypeOK, PlatformHides, uiVars, slotVars, platformVars
<1>8. TasksInv'
  BY <1>1, <1>2, <1>4, <1>5 DEF TasksInv, Is, PlatformHides, uiVars, slotVars, platformVars
<1>9. ScreenInv'
  BY <1>1, <1>2, <1>4, <1>5, <1>6 DEF ScreenInv, TasksInv, Is, At, PlatformHides, uiVars,
     slotVars, platformVars
<1> QED
  BY <1>7, <1>8, <1>9 DEF SlotInv

LEMMA SlotInit == Init => SlotInv
<1>1. 0 \in 0..MaxRetargets /\ 0 \in 0..MaxBanners
  BY SlotFacts
<1> QED
  BY <1>1, SlotFacts DEF Init, SlotInv, TypeOK, TasksInv, ScreenInv, Is, At, Visible

LEMMA SlotKept ==
  ASSUME SlotInv, Banner(Next) \/ UNCHANGED vars
  PROVE  SlotInv'
<1>1. CASE Frame
  <2>1. target = Hide \/ target \in Rects
    BY DEF SlotInv, TypeOK
  <2> QED
    BY <1>1, <2>1, SyncShowSlot, SyncLoadingSlot, SyncMoveSlot, SyncHideSlot DEF Frame
<1>2. CASE Next /\ ~Frame
  BY <1>2, RetargetSlot, FinishShowSlot, FailShowSlot, FinishHideSlot, TakePendingSlot,
     FinishUpdateSlot, PlatformShowsSlot, PlatformMovesSlot, PlatformHidesSlot DEF Next, TaskStep
<1>3. CASE UNCHANGED vars
  BY <1>3 DEF vars, uiVars, slotVars, platformVars, SlotInv, TypeOK, TasksInv, ScreenInv, Is, At,
     Visible
<1> QED
  BY <1>1, <1>2, <1>3 DEF Banner

\* A set whose members are all the same has one at most.
LEMMA AtMostOne ==
  ASSUME NEW X, \A x, y \in X : x = y
  PROVE  Cardinality(X) <= 1
<1>1. CASE X = {}
  BY <1>1, FS_EmptySet
<1>2. CASE X # {}
  <2>1. PICK x \in X : X = {x}
    BY <1>2
  <2>2. \A y : Cardinality({y}) = 1
    BY FS_Singleton
  <2> QED
    BY <2>1, <2>2
<1> QED
  BY <1>1, <1>2

LEMMA SlotServed == SlotInv => BannerServed
<1> SUFFICES ASSUME SlotInv PROVE BannerServed
  OBVIOUS
<1>1. TypeOK /\ TasksInv /\ ScreenInv
  BY DEF SlotInv
<1>2. OneUpdater
  <2>1. \A i, j \in Alive("updater") : i = j
    BY <1>1 DEF Alive, TasksInv, Is
  <2> QED
    BY <2>1, AtMostOne DEF OneUpdater
<1>3. PendingIsServed
  BY <1>1 DEF TasksInv, PendingIsServed, Alive, Is
<1>4. OneBanner
  <2>1. \A x, y \in Visible : x = y
    <3>1. status \in {"Idle", "Loading", "Live", "Hiding"}
      BY <1>1 DEF TypeOK
    <3>2. CASE status \in {"Idle", "Live"}
      BY <1>1, <3>2 DEF ScreenInv
    <3>3. CASE status = "Loading"
      <4>1. PICK i \in Tasks : Is(i, "show")
        BY <1>1, <3>3 DEF TasksInv
      <4>2. tasks[i].at \in {"call", "ok", "err"}
        BY <1>1, <4>1 DEF TypeOK, Is, Task
      <4> QED
        BY <1>1, <4>1, <4>2 DEF ScreenInv, Is, At
    <3>4. CASE status = "Hiding"
      <4>1. PICK i \in Tasks : Is(i, "hide")
        BY <1>1, <3>4 DEF TasksInv
      <4>2. tasks[i].at \in {"call", "ok", "err"}
        BY <1>1, <4>1 DEF TypeOK, Is, Task
      <4> QED
        BY <1>1, <4>1, <4>2 DEF ScreenInv, Is, At
    <3> QED
      BY <3>1, <3>2, <3>3, <3>4
  <2> QED
    BY <2>1, AtMostOne DEF OneBanner, Visible
<1> QED
  BY <1>1, <1>2, <1>3, <1>4 DEF BannerServed, UpdatesServed
-----------------------------------------------------------------------------
(* Publishers of the device's state: the parts of a tag.                   *)

\* What passes first is one of those that pass.
LEMMA EarliestHit ==
  ASSUME NEW s, NEW hits \in SUBSET Nat, hits # {}
  PROVE  \E i \in hits : P!Earliest(s, hits) = s[i]
<1>1. PICK i \in hits : \A j \in hits : ~(<<j, i>> \in OpToRel(<, Nat))
  BY NatLessThanWellFounded, WFMin
<1>2. \A j \in hits : ~(j < i)
  BY <1>1 DEF OpToRel
<1>3. \A j \in hits : i <= j
  BY <1>2
<1> QED BY <1>3 DEF P!Earliest

Parts == P!Subtags \cup {None}

\* What is found in two subtags, or one.
LEMMA EarliestMember ==
  ASSUME NEW s \in Seq(P!Subtags), NEW hits \in SUBSET DOMAIN s
  PROVE  /\ hits = {} => P!Earliest(s, hits) = None
         /\ hits # {} => \E i \in hits : P!Earliest(s, hits) = s[i] /\ s[i] \in P!Subtags
<1>1. hits \in SUBSET Nat
  OBVIOUS
<1>2. CASE hits = {}
  BY <1>2 DEF P!Earliest
<1>3. CASE hits # {}
  BY <1>1, <1>3, EarliestHit
<1> QED BY <1>2, <1>3

LEMMA CasesKept ==
  ASSUME NEW x \in P!Subtags
  PROVE  /\ P!Lower(x) \in P!Subtags /\ P!Lower(P!Lower(x)) = P!Lower(x)
         /\ P!Title(x) \in P!Subtags /\ P!Title(P!Title(x)) = P!Title(x)
         /\ P!Upper(x) \in P!Subtags /\ P!Upper(P!Upper(x)) = P!Upper(x)
         /\ P!Title(x).kind = x.kind /\ P!Upper(x).kind = x.kind
<1>1. x = [text |-> x.text, kind |-> x.kind, case |-> x.case] /\ x \in P!Subtags
  BY DEF P!Subtags
<1>2. /\ P!Lower(x) = [text |-> x.text, kind |-> x.kind, case |-> "lower"]
      /\ P!Title(x) = [text |-> x.text, kind |-> x.kind, case |-> "title"]
      /\ P!Upper(x) = [text |-> x.text, kind |-> x.kind, case |-> "upper"]
  BY <1>1 DEF P!Lower, P!Title, P!Upper
<1>3. /\ P!Lower(P!Lower(x)) = P!Lower(x) /\ P!Title(P!Title(x)) = P!Title(x)
      /\ P!Upper(P!Upper(x)) = P!Upper(x)
  BY <1>2 DEF P!Lower, P!Title, P!Upper
<1>4. \A k \in {"lower", "title", "upper"} : [text |-> x.text, kind |-> x.kind, case |-> k] \in P!Subtags
  BY DEF P!Subtags
<1>5. P!Lower(x) \in P!Subtags /\ P!Title(x) \in P!Subtags /\ P!Upper(x) \in P!Subtags
  <2> QED BY <1>2, <1>4
<1> QED BY <1>2, <1>3, <1>5

LEMMA Joined ==
  ASSUME NEW x, NEW y, NEW z
  PROVE  /\ <<x>> \o <<>> = <<x>> /\ <<x>> \o <<y>> = <<x, y>> /\ <<x, y>> \o <<>> = <<x, y>>
         /\ <<x, y>> \o <<z>> = <<x, y, z>>
<1>1. <<x>> \o <<>> = <<x>> /\ <<x, y>> \o <<>> = <<x, y>>
  OBVIOUS
<1>2. <<x>> \o <<y>> = <<x, y>>
  <2>1. <<x>> \in Seq({x, y}) /\ <<y>> \in Seq({x, y}) /\ Len(<<x>>) = 1 /\ Len(<<y>>) = 1
    OBVIOUS
  <2>2. <<x>> \o <<y>> \in Seq({x, y}) /\ Len(<<x>> \o <<y>>) = 2
    BY <2>1
  <2>3. (<<x>> \o <<y>>)[1] = x /\ (<<x>> \o <<y>>)[2] = y
    BY <2>1
  <2>4. <<x, y>> \in Seq({x, y}) /\ Len(<<x, y>>) = 2
    OBVIOUS
  <2>5. \A i \in 1..2 : (<<x>> \o <<y>>)[i] = <<x, y>>[i]
    BY <2>3
  <2> QED BY <2>2, <2>4, <2>5, SeqEqual
<1>3. <<x, y>> \o <<z>> = <<x, y, z>>
  <2>1. /\ <<x, y>> \in Seq({x, y, z}) /\ Len(<<x, y>>) = 2
        /\ <<z>> \in Seq({x, y, z}) /\ Len(<<z>>) = 1
    OBVIOUS
  <2>2. <<x, y>> \o <<z>> \in Seq({x, y, z}) /\ Len(<<x, y>> \o <<z>>) = 3
    BY <2>1
  <2>3. /\ (<<x, y>> \o <<z>>)[1] = x /\ (<<x, y>> \o <<z>>)[2] = y /\ (<<x, y>> \o <<z>>)[3] = z
    BY <2>1
  <2>4. <<x, y, z>> \in Seq({x, y, z}) /\ Len(<<x, y, z>>) = 3
    OBVIOUS
  <2>5. \A i \in 1..3 : (<<x, y>> \o <<z>>)[i] = <<x, y, z>>[i]
    BY <2>3
  <2> QED BY <2>2, <2>4, <2>5, SeqEqual
<1> QED BY <1>1, <1>2, <1>3

\* The parts of a tag: a script of four letters, a region of two letters or of
\* three digits, in their cases.
LEMMA PartsOfTag ==
  ASSUME NEW tag \in Seq(P!Subtags), None \notin P!Subtags
  PROVE  LET l == P!parse_bcp47(tag) IN
         /\ l = [language |-> l.language, script |-> l.script, region |-> l.region]
         /\ l.language \in Parts /\ l.script \in Parts /\ l.region \in Parts
         /\ l.language = None <=> tag = <<>>
         /\ tag = <<>> => l.script = None /\ l.region = None
         /\ l.language # None => P!Lower(l.language) = l.language
         /\ l.script # None => l.script.kind = "alpha4" /\ P!Title(l.script) = l.script
         /\ l.region # None => /\ l.region.kind \in {"alpha2", "digit3"}
                               /\ l.region.kind = "alpha2" => P!Upper(l.region) = l.region
<1> DEFINE rest == IF tag = <<>> THEN <<>> ELSE Tail(tag)
           script == P!Earliest(rest, {i \in DOMAIN rest : rest[i].kind = "alpha4"})
           region == P!Earliest(rest, {i \in DOMAIN rest : rest[i].kind \in {"alpha2", "digit3"}})
<1>1. rest \in Seq(P!Subtags) /\ (tag = <<>> => rest = <<>>)
  OBVIOUS
<1>2. script = None \/ (script \in P!Subtags /\ script.kind = "alpha4")
  <2> HIDE DEF rest
  <2> QED BY <1>1, EarliestMember
<1>3. region = None \/ (region \in P!Subtags /\ region.kind \in {"alpha2", "digit3"})
  <2> HIDE DEF rest
  <2> QED BY <1>1, EarliestMember
<1>4. P!parse_bcp47(tag) =
        [language |-> IF tag = <<>> THEN None ELSE P!Lower(Head(tag)),
         script |-> IF script = None THEN None ELSE P!Title(script),
         region |-> IF region = None THEN None
                    ELSE IF region.kind = "alpha2" THEN P!Upper(region) ELSE region]
  BY DEF P!parse_bcp47, P!First
<1>5. tag # <<>> => Head(tag) \in P!Subtags
  OBVIOUS
<1> HIDE DEF script, region
<1>6. /\ tag = <<>> => script = None /\ region = None
  BY <1>1, EarliestMember DEF script, region
<1> HIDE DEF rest
<1>7. None \notin P!Subtags /\ \A x \in P!Subtags : x # None
  OBVIOUS
<1>8. \A x \in P!Subtags : x.kind = "alpha2" => P!Upper(x).kind = "alpha2"
  BY CasesKept
<1> DEFINE l == P!parse_bcp47(tag)
<1>9. /\ l = [language |-> l.language, script |-> l.script, region |-> l.region]
      /\ l.language = IF tag = <<>> THEN None ELSE P!Lower(Head(tag))
      /\ l.script = IF script = None THEN None ELSE P!Title(script)
      /\ l.region = IF region = None THEN None
                    ELSE IF region.kind = "alpha2" THEN P!Upper(region) ELSE region
  BY <1>4
<1> HIDE DEF l
<1>10. /\ l.language \in Parts /\ (l.language = None <=> tag = <<>>)
       /\ l.language # None => P!Lower(l.language) = l.language
  BY <1>5, <1>7, <1>9, CasesKept DEF Parts
<1>11. /\ l.script \in Parts /\ (tag = <<>> => l.script = None)
       /\ l.script # None => l.script.kind = "alpha4" /\ P!Title(l.script) = l.script
  BY <1>2, <1>6, <1>7, <1>9, CasesKept DEF Parts
<1>12. /\ l.region \in Parts /\ (tag = <<>> => l.region = None)
       /\ l.region # None => l.region.kind \in {"alpha2", "digit3"}
  BY <1>3, <1>6, <1>7, <1>8, <1>9, CasesKept DEF Parts
<1>13. l.region # None /\ l.region.kind = "alpha2" => P!Upper(l.region) = l.region
  BY <1>3, <1>7, <1>9, CasesKept
<1> QED BY <1>9, <1>10, <1>11, <1>12, <1>13 DEF l

\* What a tag with no, one or two more parts is read as.
LEMMA FoundNone ==
  /\ P!First(<<>>, LAMBDA y : y.kind = "alpha4") = None
  /\ P!First(<<>>, LAMBDA y : y.kind \in {"alpha2", "digit3"}) = None
<1>1. P!Earliest(<<>>, {}) = None
  BY DEF P!Earliest
<1>2. {i \in DOMAIN <<>> : <<>>[i].kind = "alpha4"} = {}
  OBVIOUS
<1>3. {i \in DOMAIN <<>> : <<>>[i].kind \in {"alpha2", "digit3"}} = {}
  OBVIOUS
<1> QED BY <1>1, <1>2, <1>3 DEF P!First

LEMMA FoundOne ==
  ASSUME NEW x, NEW rest, rest = <<x>>
  PROVE  /\ P!First(rest, LAMBDA y : y.kind = "alpha4") = IF x.kind = "alpha4" THEN x ELSE None
         /\ P!First(rest, LAMBDA y : y.kind \in {"alpha2", "digit3"}) =
              IF x.kind \in {"alpha2", "digit3"} THEN x ELSE None
<1>1. \A hits : hits = {1} => P!Earliest(rest, hits) = x
  <2>1. \E i \in {1} : P!Earliest(rest, {1}) = rest[i]
    BY EarliestHit
  <2> QED BY <2>1
<1>2. P!Earliest(rest, {}) = None
  BY DEF P!Earliest
<1>3. {i \in DOMAIN rest : rest[i].kind = "alpha4"} = IF x.kind = "alpha4" THEN {1} ELSE {}
  OBVIOUS
<1>4. {i \in DOMAIN rest : rest[i].kind \in {"alpha2", "digit3"}} =
        IF x.kind \in {"alpha2", "digit3"} THEN {1} ELSE {}
  OBVIOUS
<1> QED BY <1>1, <1>2, <1>3, <1>4 DEF P!First

LEMMA FoundTwo ==
  ASSUME NEW x, NEW z, NEW rest, rest = <<x, z>>, x.kind = "alpha4", z.kind \in {"alpha2", "digit3"}
  PROVE  /\ P!First(rest, LAMBDA y : y.kind = "alpha4") = x
         /\ P!First(rest, LAMBDA y : y.kind \in {"alpha2", "digit3"}) = z
<1>1. P!Earliest(rest, {1}) = x
  <2>1. \E i \in {1} : P!Earliest(rest, {1}) = rest[i]
    BY EarliestHit
  <2> QED BY <2>1
<1>2. P!Earliest(rest, {2}) = z
  <2>1. \E i \in {2} : P!Earliest(rest, {2}) = rest[i]
    BY EarliestHit
  <2> QED BY <2>1
<1>3. {i \in DOMAIN rest : rest[i].kind = "alpha4"} = {1}
  OBVIOUS
<1>4. {i \in DOMAIN rest : rest[i].kind \in {"alpha2", "digit3"}} = {2}
  OBVIOUS
<1> QED BY <1>1, <1>2, <1>3, <1>4 DEF P!First

\* A tag put together from the parts has these parts.
LEMMA CanonicalTag ==
  ASSUME NEW tag \in Seq(P!Subtags), None \notin P!Subtags
  PROVE  P!parse_bcp47(P!canonicalize_tag(P!parse_bcp47(tag))) = P!parse_bcp47(tag)
<1> DEFINE l == P!parse_bcp47(tag)
           c == P!canonicalize_tag(l)
<1>1. /\ l = [language |-> l.language, script |-> l.script, region |-> l.region]
      /\ l.language \in Parts /\ l.script \in Parts /\ l.region \in Parts
      /\ l.language = None => l.script = None /\ l.region = None
      /\ l.language # None => P!Lower(l.language) = l.language
      /\ l.script # None => l.script.kind = "alpha4" /\ P!Title(l.script) = l.script
      /\ l.region # None => /\ l.region.kind \in {"alpha2", "digit3"}
                            /\ l.region.kind = "alpha2" => P!Upper(l.region) = l.region
  BY PartsOfTag
<1> HIDE DEF l
<1>2. P!parse_bcp47(c) = l
  <2>1. CASE l.language = None
    <3>1. c = <<>>
      BY <1>1, <2>1 DEF P!canonicalize_tag
    <3>2. <<>> \in Seq(P!Subtags)
      OBVIOUS
    <3> HIDE DEF c
    <3> QED BY <1>1, <2>1, <3>1, <3>2, PartsOfTag
  <2>2. CASE l.language # None /\ l.script = None /\ l.region = None
    <3>1. c = <<l.language>>
      BY <1>1, <2>2 DEF P!canonicalize_tag
    <3> HIDE DEF c
    <3>2. Tail(c) = <<>> /\ Head(c) = l.language /\ c # <<>>
      BY <3>1
    <3> QED BY <1>1, <2>2, <3>2, FoundNone DEF P!parse_bcp47
  <2>3. CASE l.language # None /\ l.script # None /\ l.region = None
    <3>1. c = <<l.language, l.script>>
      BY <1>1, <2>3, Joined DEF P!canonicalize_tag
    <3> HIDE DEF c
    <3>2. Tail(c) = <<l.script>> /\ Head(c) = l.language /\ c # <<>>
      BY <3>1
    <3> QED BY <1>1, <2>3, <3>2, FoundOne DEF P!parse_bcp47
  <2>4. CASE l.language # None /\ l.script = None /\ l.region # None
    <3>1. c = <<l.language, l.region>>
      BY <1>1, <2>4, Joined DEF P!canonicalize_tag
    <3> HIDE DEF c
    <3>2. Tail(c) = <<l.region>> /\ Head(c) = l.language /\ c # <<>>
      BY <3>1
    <3> QED BY <1>1, <2>4, <3>2, FoundOne DEF P!parse_bcp47
  <2>5. CASE l.language # None /\ l.script # None /\ l.region # None
    <3>1. c = <<l.language, l.script, l.region>>
      BY <1>1, <2>5, Joined DEF P!canonicalize_tag
    <3> HIDE DEF c
    <3>2. Tail(c) = <<l.script, l.region>> /\ Head(c) = l.language /\ c # <<>>
      BY <3>1
    <3> QED BY <1>1, <2>5, <3>2, FoundTwo DEF P!parse_bcp47
  <2> QED BY <2>1, <2>2, <2>3, <2>4, <2>5
<1> QED BY <1>2 DEF l
-----------------------------------------------------------------------------
(* What is sampled of a locale.                                            *)

Canonical(l) ==
  P!parse_bcp47(l.bcp47) = [language |-> l.language, script |-> l.script, region |-> l.region]

LEMMA LocaleIsCanonical ==
  ASSUME NEW tag \in Seq(P!Subtags), None \notin P!Subtags
  PROVE  Canonical(P!locale(tag))
<1> DEFINE l == P!parse_bcp47(tag)
<1>1. l = [language |-> l.language, script |-> l.script, region |-> l.region]
  BY PartsOfTag
<1>2. P!parse_bcp47(P!canonicalize_tag(l)) = l
  BY CanonicalTag
<1> HIDE DEF l
<1>3. P!locale(tag) =
        [bcp47 |-> P!canonicalize_tag(l), language |-> l.language, script |-> l.script,
         region |-> l.region, direction |-> P!direction_from_language(P!Text(l.language))]
  BY DEF P!locale, l
<1> QED BY <1>1, <1>2, <1>3 DEF Canonical

LEMMA TagsWritten ==
  P!SpanishMexico \in Seq(P!Subtags) /\ P!EnglishWorld \in Seq(P!Subtags) /\ P!DefaultTag \in Seq(P!Subtags)
<1>1. \A t \in {"en", "es", "us", "mx", "latn", "x", "001"}, k \in {"alpha1", "alpha2", "alpha4", "digit3"},
        w \in {"lower", "upper", "title"} : [text |-> t, kind |-> k, case |-> w] \in P!Subtags
  BY DEF P!Subtags
<1>2. P!SpanishMexico \in Seq(P!Subtags)
  BY <1>1 DEF P!SpanishMexico, P!Sub
<1>3. P!EnglishWorld \in Seq(P!Subtags)
  BY <1>1 DEF P!EnglishWorld, P!Sub
<1>4. P!DefaultTag \in Seq(P!Subtags)
  BY <1>1 DEF P!DefaultTag
<1> QED BY <1>2, <1>3, <1>4

\* An environment names its tag, or none.
LEMMA TagOfEnv ==
  ASSUME NEW tag \in Seq(P!Subtags), NEW default \in Seq(P!Subtags)
  PROVE  P!read_env_locale(P!Env(tag), default) \in Seq(P!Subtags)
<1> DEFINE env == P!Env(tag)
           hits == {i \in DOMAIN env : env[i] # None /\ env[i].form \notin {"empty", "C", "POSIX"}}
           hit == P!Earliest(env, hits)
<1>1. env[3].tag = tag /\ hits \in SUBSET {3}
  BY DEF P!Env
<1>2. P!read_env_locale(env, default) = IF hit = None THEN default ELSE hit.tag
  BY DEF P!read_env_locale, P!First
<1> HIDE DEF env, hits
<1>3. CASE hits = {}
  <2>1. hit = None
    BY <1>3 DEF P!Earliest
  <2> QED BY <1>2, <2>1 DEF env
<1>4. CASE hits = {3}
  <2>1. hit = env[3]
    <3>1. {3} \in SUBSET Nat /\ {3} # {}
      OBVIOUS
    <3>2. \E i \in {3} : P!Earliest(env, {3}) = env[i]
      BY <3>1, EarliestHit
    <3> QED BY <1>4, <3>2
  <2> HIDE DEF hit
  <2>2. P!read_env_locale(env, default) \in Seq(P!Subtags)
    BY <1>1, <1>2, <2>1
  <2> QED BY <2>2 DEF env
<1> QED BY <1>1, <1>3, <1>4

LEMMA TagOfNone ==
  ASSUME NEW default
  PROVE  P!read_env_locale(<<[form |-> "C"]>>, default) = default
<1> DEFINE env == <<[form |-> "C"]>>
           hits == {i \in DOMAIN env : env[i] # None /\ env[i].form \notin {"empty", "C", "POSIX"}}
<1>1. hits = {}
  OBVIOUS
<1>2. P!read_env_locale(env, default) =
        IF P!Earliest(env, hits) = None THEN default ELSE P!Earliest(env, hits).tag
  BY DEF P!read_env_locale, P!First
<1> QED BY <1>1, <1>2 DEF P!Earliest

\* A reading of the system gives nothing, or a locale that is canonical.
LEMMA SystemIsCanonical ==
  ASSUME None \notin P!Subtags, plugin = "system", NEW r \in P!Readings
  PROVE  LET s == P!sample("locale", r) IN s = None \/ Canonical(s)
<1> DEFINE s == P!System(os, r, P!DefaultTag)
<1>1. P!sample("locale", r) = IF s = None THEN None ELSE s.locale
  BY DEF P!sample
<1>0. r \in P!SystemReadings
  BY DEF P!Readings
<1>2. s = None \/ \E tag \in Seq(P!Subtags) : s.locale = P!locale(tag)
  <2>1. CASE os = "linux"
    <3>1. \/ r.env = P!Env(P!SpanishMexico) \/ r.env = P!Env(P!EnglishWorld)
          \/ r.env = <<[form |-> "C"]>>
      <4>1. r \in {[env |-> P!Env(P!SpanishMexico), tz |-> None, localtime |-> "Europe/Paris"],
                   [env |-> P!Env(P!EnglishWorld), tz |-> "", localtime |-> "Europe/Paris"],
                   [env |-> <<[form |-> "C"]>>, tz |-> "Europe/Paris", localtime |-> None]}
        BY <1>0, <2>1 DEF P!SystemReadings
      <4>2. \E z, t : \E e \in {P!Env(P!SpanishMexico), P!Env(P!EnglishWorld), <<[form |-> "C"]>>} :
              r = [env |-> e, tz |-> z, localtime |-> t]
        BY <4>1
      <4> QED BY <4>2
    <3>2. P!read_env_locale(r.env, P!DefaultTag) \in Seq(P!Subtags)
      BY <3>1, TagsWritten, TagOfEnv, TagOfNone
    <3>3. s.locale = P!locale(P!read_env_locale(r.env, P!DefaultTag))
      BY <2>1 DEF P!System, P!SystemLinux
    <3> QED BY <3>2, <3>3
  <2>2. CASE os \in {"macos", "ios"}
    <3>1. r.tag = None \/ r.tag = P!SpanishMexico
      <4>1. PICK t \in {None, P!SpanishMexico} : r =
              [tag |-> t, metric |-> FALSE, currency |-> None, decimal |-> ".", group |-> None,
               tz |-> [name |-> "Europe/Paris", seconds |-> 3600, dst |-> FALSE],
               calendar |-> [first |-> 2, id |-> "islamic-civil"]]
        <5>1. CASE os = "macos"
          BY <1>0, <5>1 DEF P!SystemReadings
        <5>2. CASE os = "ios"
          BY <1>0, <5>2 DEF P!SystemReadings
        <5> QED BY <2>2, <5>1, <5>2
      <4> QED BY <4>1
    <3>2. s = None \/ (r.tag # None /\ s.locale = P!locale(r.tag))
      BY <2>2 DEF P!System, P!SystemApple
    <3> QED BY <3>1, <3>2, TagsWritten
  <2>3. CASE os = "windows"
    <3>1. r.name = None \/ r.name = P!EnglishWorld
      <4>1. PICK t \in {None, P!EnglishWorld} : r =
              [name |-> t, time |-> "h", first |-> 6, symbol |-> "", decimal |-> ".", thousand |-> None,
               zone |-> [key |-> "W. Europe", kind |-> 2, bias |-> -60, daylight |-> -60, standard |-> 0]]
        BY <1>0, <2>3 DEF P!SystemReadings
      <4> QED BY <4>1
    <3>2. s.locale = P!locale(P!Or(r.name, P!DefaultTag))
      BY <2>3 DEF P!System, P!SystemWindows
    <3> QED BY <3>1, <3>2, TagsWritten DEF P!Or
  <2>4. CASE os \notin {"linux", "macos", "ios", "windows"}
    BY <2>4 DEF P!System
  <2> QED BY <2>1, <2>2, <2>3, <2>4
<1> QED BY <1>1, <1>2, LocaleIsCanonical
-----------------------------------------------------------------------------
(* What was published, and what of it a stream has.                        *)

Items == [by : {"nobody", "rust", "native"}, at : Nat]

\* Of the items h of channel c the samples in a row differ, and the last one is
\* of reading n.
Differ(h, c, s) ==
  \A i, j \in DOMAIN h :
    /\ h[i].by = "rust" /\ h[j].by = "rust" /\ i < j
    /\ \A k \in DOMAIN h : i < k /\ k < j => h[k].by # "rust"
    => s[h[i].at][c] # s[h[j].at][c]
LastIs(h, n) ==
  \A i \in DOMAIN h :
    h[i].by = "rust" /\ (\A j \in DOMAIN h : i < j => h[j].by # "rust") => h[i].at = n
Sampled(h) == h \in Seq(Items) /\ \A i \in DOMAIN h : h[i].by = "rust" => h[i].at # 0

LEMMA ItemFollows ==
  ASSUME NEW h, Sampled(h), NEW c, NEW s, NEW n, Differ(h, c, s), LastIs(h, n),
         NEW x \in Items, x.by = "rust" => x.at # 0 /\ (n # 0 => s[n][c] # s[x.at][c])
  PROVE  LET g == Append(h, x) IN
         Sampled(g) /\ Differ(g, c, s) /\ LastIs(g, IF x.by = "rust" THEN x.at ELSE n)
<1> DEFINE g == Append(h, x)
           m == Len(h) + 1
<1>1. /\ g \in Seq(Items) /\ DOMAIN g = DOMAIN h \cup {m} /\ g[m] = x
      /\ \A i \in DOMAIN h : g[i] = h[i] /\ i < m /\ i \in Nat
      /\ m \in Nat /\ m \notin DOMAIN h /\ DOMAIN h \subseteq Nat
  BY DEF Sampled
<1> HIDE DEF g, m
<1>2. Sampled(g)
  BY <1>1 DEF Sampled
<1>3. LastIs(g, IF x.by = "rust" THEN x.at ELSE n)
  <2> SUFFICES ASSUME NEW i \in DOMAIN g, g[i].by = "rust", \A j \in DOMAIN g : i < j => g[j].by # "rust"
               PROVE  g[i].at = IF x.by = "rust" THEN x.at ELSE n
    BY DEF LastIs
  <2>1. CASE i = m
    BY <1>1, <2>1
  <2>2. CASE i \in DOMAIN h
    BY <1>1, <2>2 DEF LastIs
  <2> QED BY <1>1, <2>1, <2>2
<1>4. Differ(g, c, s)
  <2> SUFFICES ASSUME NEW i \in DOMAIN g, NEW j \in DOMAIN g, g[i].by = "rust", g[j].by = "rust", i < j,
                      \A k \in DOMAIN g : i < k /\ k < j => g[k].by # "rust"
               PROVE  s[g[i].at][c] # s[g[j].at][c]
    BY DEF Differ
  <2>1. i \in DOMAIN h
    BY <1>1
  <2>2. CASE j \in DOMAIN h
    BY <1>1, <2>1, <2>2 DEF Differ
  <2>3. CASE j = m
    <3>1. h[i].at = n
      BY <1>1, <2>1, <2>3 DEF LastIs
    <3>2. h[i].at # 0
      BY <1>1, <2>1 DEF Sampled
    <3> QED BY <1>1, <2>1, <2>3, <3>1, <3>2
  <2> QED BY <1>1, <2>2, <2>3
<1> QED BY <1>2, <1>3, <1>4 DEF g

Plugins ==
  {"battery", "network", "theme", "storage", "system", "lifecycle", "capabilities", "device", "safe_area"}

SamplesTyped ==
  /\ plugin \in Plugins
  /\ now \in 1..MaxReadings /\ of \in 0..now
  /\ last \in [P!Channels -> Nat] /\ \A c \in P!Channels : last[c] <= of
  /\ slot \in [P!Channels -> Items]
  /\ comparing \in Seq(P!Channels) /\ (comparing # <<>> => of # 0)

\* The publisher remembers what it published in a slot.
SlotsAreLast == \A c \in P!Channels : slot[c].by = "rust" => slot[c].at = last[c] /\ last[c] # 0

History(c) == stream[c].received \o stream[c].queue
StreamTold ==
  stream # None =>
    /\ DOMAIN stream \subseteq P!Channels
    /\ stream \in [DOMAIN stream -> [received : Seq(Items), queue : Seq(Items)]]
    /\ \A c \in DOMAIN stream :
         Sampled(History(c)) /\ Differ(History(c), c, samples) /\ LastIs(History(c), last[c])

\* A tick of the system compares the locale first: when it comes to the rest the
\* locale is that of the reading.
SystemInOrder ==
  plugin = "system" =>
    /\ comparing \in {<<"locale", "timezone", "formats">>, <<"timezone", "formats">>, <<"formats">>, <<>>}
    /\ comparing # <<>> => samples[of]["locale"] # None
    /\ comparing \in {<<"timezone", "formats">>, <<"formats">>} =>
         last["locale"] # 0 /\ samples[last["locale"]]["locale"] = samples[of]["locale"]
    /\ last["formats"] # 0 =>
         /\ last["locale"] # 0
         /\ \E i \in last["formats"]..now : samples[last["locale"]]["locale"] = samples[i]["locale"]
    /\ last["locale"] # 0 => samples[last["locale"]]["locale"] # None

\* Who publishes once is at it, or has done so, and is not told to again.
PublishedOnce ==
  P!PublishesOnce =>
    /\ comparing # <<>> => comparing = <<plugin>> /\ ~emitted
    /\ enriched => emitted /\ slot[plugin].by = "native"

ReadingsCanonical ==
  plugin = "system" =>
    \A i \in 1..MaxReadings : samples[i]["locale"] = None \/ Canonical(samples[i]["locale"])

SamplesInv ==
  SamplesTyped /\ SlotsAreLast /\ StreamTold /\ SystemInOrder /\ PublishedOnce /\ ReadingsCanonical

LEMMA ReadingFacts == MaxReadings \in Nat \ {0} /\ None \notin P!Subtags
  BY PublishersAssumption DEF P!StatePublishersAssumption

LEMMA ChannelFacts ==
  /\ plugin = "system" => /\ P!Clients[plugin].channels = <<"locale", "timezone", "formats">>
                          /\ P!Channels = {"locale", "timezone", "formats"}
  /\ P!PublishesOnce => P!Clients[plugin].channels = <<plugin>> /\ P!Channels = {plugin}
<1>1. CASE plugin = "system"
  <2>1. P!Clients[plugin].channels = <<"locale", "timezone", "formats">>
    BY <1>1 DEF P!Clients, P!SystemInfo, P!Client
  <2>2. P!Channels = {"locale", "timezone", "formats"}
    BY <2>1 DEF P!Channels
  <2>3. ~P!PublishesOnce
    BY <1>1 DEF P!PublishesOnce, P!Publishers, P!SystemInfoPublisher
  <2> QED BY <2>1, <2>2, <2>3
<1>2. CASE P!PublishesOnce
  <2>1. plugin \in {"device", "capabilities"}
    BY <1>2 DEF P!PublishesOnce, P!Publishers, P!BatteryStatePublisher, P!NetworkStatePublisher,
       P!ThemePreferencePublisher, P!StorageInfoPublisher, P!SystemInfoPublisher, P!SafeAreaPublisher
  <2>2. P!Clients[plugin].channels = <<plugin>>
    BY <2>1 DEF P!Clients, P!DeviceInfoClient, P!CapabilitiesClient, P!Client
  <2>3. P!Channels = {plugin}
    BY <2>2 DEF P!Channels
  <2> QED BY <2>1, <2>2, <2>3
<1> QED BY <1>1, <1>2

LEMMA ChannelsTyped ==
  ASSUME plugin \in Plugins
  PROVE  P!Clients[plugin].channels \in Seq(P!Channels)
<1> DEFINE all == Plugins \cup {"locale", "timezone", "formats"}
           s == P!Clients[plugin].channels
<1>1. s = IF plugin = "system" THEN <<"locale", "timezone", "formats">> ELSE <<plugin>>
  BY DEF P!Clients, P!SystemInfo, P!Client, P!BatteryStateClient, P!NetworkStateClient, Plugins,
     P!ThemePreferenceClient, P!StorageInfoClient, P!AppLifecycle, P!CapabilitiesClient,
     P!DeviceInfoClient, P!SafeAreaClient
<1>2. s \in Seq(all)
  <2>1. <<"locale", "timezone", "formats">> \in Seq(all)
    OBVIOUS
  <2>2. <<plugin>> \in Seq(all)
    OBVIOUS
  <2> HIDE DEF s, all
  <2> QED BY <1>1, <2>1, <2>2
<1>3. P!Channels = {s[i] : i \in DOMAIN s}
  BY DEF P!Channels
<1> HIDE DEF s, all
<1>4. s \in Seq({s[i] : i \in DOMAIN s})
  BY <1>2
<1> QED BY <1>3, <1>4 DEF s

LEMMA SameChannels ==
  ASSUME UNCHANGED P!device
  PROVE  P!Channels' = P!Channels /\ P!PublishesOnce' = P!PublishesOnce
<1>1. P!Clients' = P!Clients
  BY DEF P!device, P!Clients, P!DeviceInfoClient, P!rust_fallback, P!rust_form_factor
<1>2. P!Channels' = P!Channels
  BY <1>1 DEF P!Channels, P!device
<1>3. P!PublishesOnce' = P!PublishesOnce
  BY DEF P!PublishesOnce, P!device
<1> QED BY <1>2, <1>3

LEMMA SamplesInit == P!Init => SamplesInv
<1> SUFFICES ASSUME P!Init PROVE SamplesInv
  OBVIOUS
<1>1. SamplesTyped
  BY ReadingFacts DEF P!Init, P!Platforms, SamplesTyped, Items, Plugins
<1>2. SlotsAreLast /\ StreamTold
  BY DEF P!Init, SlotsAreLast, StreamTold
<1>3. SystemInOrder
  BY ChannelFacts DEF P!Init, SystemInOrder
<1>4. PublishedOnce
  BY DEF P!Init, PublishedOnce
<1>5. ReadingsCanonical
  <2> SUFFICES ASSUME plugin = "system", NEW i \in 1..MaxReadings
               PROVE  samples[i]["locale"] = None \/ Canonical(samples[i]["locale"])
    BY DEF ReadingsCanonical
  <2>1. \E r \in P!Readings : samples[i] = [c \in P!Channels |-> P!sample(c, r)]
    BY DEF P!Init
  <2>2. PICK r \in P!Readings : samples[i]["locale"] = P!sample("locale", r)
    BY <2>1, ChannelFacts
  <2> QED BY <2>2, ReadingFacts, SystemIsCanonical
<1> QED BY <1>1, <1>2, <1>3, <1>4, <1>5 DEF SamplesInv

LEMMA InstallSamples ==
  ASSUME SamplesInv, P!install
  PROVE  SamplesInv'
<1> USE DEF P!install, P!device, P!tickVars
<1>1. UNCHANGED <<P!Channels, P!PublishesOnce>>
  BY SameChannels
<1>2. SamplesTyped'
  BY <1>1 DEF SamplesInv, SamplesTyped
<1>3. SlotsAreLast' /\ StreamTold' /\ ReadingsCanonical'
  BY <1>1 DEF SamplesInv, SlotsAreLast, StreamTold, History, ReadingsCanonical
<1>4. SystemInOrder' /\ PublishedOnce'
  BY <1>1 DEF SamplesInv, SystemInOrder, PublishedOnce
<1> QED BY <1>2, <1>3, <1>4 DEF SamplesInv

LEMMA DropRuntimeSamples ==
  ASSUME SamplesInv, P!DropRuntime
  PROVE  SamplesInv'
<1> USE DEF P!DropRuntime, P!device, P!tickVars
<1>1. UNCHANGED <<P!Channels, P!PublishesOnce>>
  BY SameChannels
<1>2. SamplesTyped'
  BY <1>1 DEF SamplesInv, SamplesTyped
<1>3. SlotsAreLast' /\ StreamTold' /\ ReadingsCanonical'
  BY <1>1 DEF SamplesInv, SlotsAreLast, StreamTold, History, ReadingsCanonical
<1>4. SystemInOrder' /\ PublishedOnce'
  BY <1>1 DEF SamplesInv, SystemInOrder, PublishedOnce
<1> QED BY <1>2, <1>3, <1>4 DEF SamplesInv

LEMMA DeviceChangesSamples ==
  ASSUME SamplesInv, P!DeviceChanges
  PROVE  SamplesInv'
<1> USE DEF P!DeviceChanges, P!device, P!tickVars
<1>0. UNCHANGED <<P!Channels, P!PublishesOnce>>
  BY SameChannels
<1>1. SamplesTyped'
  BY <1>0, ReadingFacts DEF SamplesInv, SamplesTyped
<1>2. SlotsAreLast' /\ StreamTold' /\ PublishedOnce' /\ ReadingsCanonical'
  BY <1>0 DEF SamplesInv, SlotsAreLast, StreamTold, History, PublishedOnce,
     ReadingsCanonical
<1>3. SystemInOrder'
  <2>1. now \in Nat /\ now' = now + 1 /\ (plugin = "system" => last["formats"] \in Nat)
    BY ReadingFacts, ChannelFacts DEF SamplesInv, SamplesTyped
  <2>2. plugin = "system" => \A i \in last["formats"]..now : i \in last["formats"]..now'
    BY <2>1
  <2> QED BY <2>1, <2>2 DEF SamplesInv, SystemInOrder
<1> QED BY <1>1, <1>2, <1>3 DEF SamplesInv

LEMMA TickSamples ==
  ASSUME SamplesInv, P!tick
  PROVE  SamplesInv'
<1> USE DEF P!tick, P!device
<1>0. UNCHANGED <<P!Channels, P!PublishesOnce>>
  BY SameChannels
<1>1. SamplesTyped'
  BY <1>0, ReadingFacts, ChannelsTyped DEF SamplesInv, SamplesTyped
<1>2. SlotsAreLast' /\ StreamTold' /\ ReadingsCanonical'
  BY <1>0 DEF SamplesInv, SlotsAreLast, StreamTold, History, ReadingsCanonical
<1>3. PublishedOnce'
  BY <1>0, ChannelFacts DEF SamplesInv, PublishedOnce
<1>4. SystemInOrder'
  <2>1. plugin = "system" => /\ comparing' = <<"locale", "timezone", "formats">>
                             /\ samples'[of']["locale"] # None
    BY ChannelFacts
  <2>2. <<"locale", "timezone", "formats">> \notin {<<"timezone", "formats">>, <<"formats">>}
    OBVIOUS
  <2>3. UNCHANGED <<plugin, last, now, samples>>
    OBVIOUS
  <2> QED BY <2>1, <2>2, <2>3 DEF SamplesInv, SystemInOrder
<1> QED BY <1>1, <1>2, <1>3, <1>4 DEF SamplesInv

LEMMA QueueMoves ==
  ASSUME NEW r \in Seq(Items), NEW q \in Seq(Items)
  PROVE  /\ \A x \in Items : r \o Append(q, x) = Append(r \o q, x)
         /\ q # <<>> => Append(r, Head(q)) \o Tail(q) = r \o q
<1>1. ASSUME NEW x \in Items PROVE r \o Append(q, x) = Append(r \o q, x)
  <2>1. /\ r \o Append(q, x) \in Seq(Items) /\ Append(r \o q, x) \in Seq(Items)
        /\ Len(r \o Append(q, x)) = Len(r) + Len(q) + 1
        /\ Len(Append(r \o q, x)) = Len(r) + Len(q) + 1
    OBVIOUS
  <2>2. \A i \in 1..Len(r) + Len(q) + 1 : (r \o Append(q, x))[i] = Append(r \o q, x)[i]
    OBVIOUS
  <2> QED BY <2>1, <2>2, SeqEqual
<1>2. ASSUME q # <<>> PROVE Append(r, Head(q)) \o Tail(q) = r \o q
  <2>1. /\ Append(r, Head(q)) \o Tail(q) \in Seq(Items) /\ r \o q \in Seq(Items)
        /\ Len(Append(r, Head(q)) \o Tail(q)) = Len(r) + Len(q) /\ Len(r \o q) = Len(r) + Len(q)
    BY <1>2
  <2>2. \A i \in 1..Len(r) + Len(q) : (Append(r, Head(q)) \o Tail(q))[i] = (r \o q)[i]
    BY <1>2
  <2> QED BY <2>1, <2>2, SeqEqual
<1> QED BY <1>1, <1>2

LEMMA PublishTold ==
  ASSUME SamplesInv, NEW c \in P!Channels, NEW x \in Items, P!publish_early_latest(c, x),
         UNCHANGED P!device,
         last' = IF x.by = "rust" THEN [last EXCEPT ![c] = x.at] ELSE last,
         x.by = "rust" => x.at # 0 /\ (last[c] # 0 => samples[last[c]][c] # samples[x.at][c])
  PROVE  StreamTold'
<1>0. P!Channels' = P!Channels /\ samples' = samples
  BY SameChannels DEF P!device
<1> SUFFICES ASSUME stream' # None
             PROVE  /\ DOMAIN stream' \subseteq P!Channels
                    /\ stream' \in [DOMAIN stream' -> [received : Seq(Items), queue : Seq(Items)]]
                    /\ \A d \in DOMAIN stream' :
                         /\ Sampled(History(d)') /\ Differ(History(d)', d, samples)
                         /\ LastIs(History(d)', last'[d])
  BY <1>0 DEF StreamTold
<1>1. stream # None
  BY DEF P!publish_early_latest
<1>2. /\ DOMAIN stream \subseteq P!Channels
      /\ stream \in [DOMAIN stream -> [received : Seq(Items), queue : Seq(Items)]]
      /\ \A d \in DOMAIN stream :
           Sampled(History(d)) /\ Differ(History(d), d, samples) /\ LastIs(History(d), last[d])
  BY <1>1 DEF SamplesInv, StreamTold
<1>3. DOMAIN stream' = DOMAIN stream
  BY <1>1 DEF P!publish_early_latest
<1>4. stream' \in [DOMAIN stream -> [received : Seq(Items), queue : Seq(Items)]]
  <2>1. CASE c \notin DOMAIN stream
    BY <1>2, <2>1 DEF P!publish_early_latest
  <2>2. CASE c \in DOMAIN stream
    <3>1. stream[c].received \in Seq(Items) /\ Append(stream[c].queue, x) \in Seq(Items)
      BY <1>2, <2>2
    <3>2. stream' = [stream EXCEPT ![c].queue = Append(@, x)]
      BY <1>1, <2>2 DEF P!publish_early_latest
    <3>3. stream'[c] = [stream[c] EXCEPT !.queue = Append(@, x)]
      BY <1>2, <2>2, <3>2
    <3>4. stream'[c] \in [received : Seq(Items), queue : Seq(Items)]
      BY <1>2, <2>2, <3>1, <3>3
    <3>5. \A d \in DOMAIN stream : d # c => stream'[d] = stream[d]
      BY <1>2, <3>2
    <3>6. stream' = [d \in DOMAIN stream |-> stream'[d]]
      BY <1>2, <3>2
    <3>7. \A d \in DOMAIN stream : stream'[d] \in [received : Seq(Items), queue : Seq(Items)]
      BY <1>2, <3>4, <3>5
    <3> QED BY <3>6, <3>7
  <2> QED BY <2>1, <2>2
<1>5. ASSUME NEW d \in DOMAIN stream, d # c
      PROVE  Sampled(History(d)') /\ Differ(History(d)', d, samples) /\ LastIs(History(d)', last'[d])
  <2>1. stream'[d] = stream[d] /\ last'[d] = last[d]
    BY <1>1, <1>2, <1>5 DEF P!publish_early_latest, SamplesInv, SamplesTyped
  <2>2. History(d)' = History(d)
    BY <2>1 DEF History
  <2> QED BY <1>2, <2>1, <2>2
<1>6. ASSUME c \in DOMAIN stream
      PROVE  Sampled(History(c)') /\ Differ(History(c)', c, samples) /\ LastIs(History(c)', last'[c])
  <2>1. /\ stream'[c].received = stream[c].received
        /\ stream'[c].queue = Append(stream[c].queue, x)
    BY <1>1, <1>2, <1>6 DEF P!publish_early_latest
  <2>2. stream[c].received \in Seq(Items) /\ stream[c].queue \in Seq(Items)
    BY <1>2, <1>6
  <2>3. History(c)' = Append(History(c), x)
    BY <2>1, <2>2, QueueMoves DEF History
  <2>4. last'[c] = IF x.by = "rust" THEN x.at ELSE last[c]
    BY DEF SamplesInv, SamplesTyped
  <2>5. Sampled(History(c)) /\ Differ(History(c), c, samples) /\ LastIs(History(c), last[c])
    BY <1>2, <1>6
  <2>6. /\ Sampled(Append(History(c), x)) /\ Differ(Append(History(c), x), c, samples)
        /\ LastIs(Append(History(c), x), IF x.by = "rust" THEN x.at ELSE last[c])
    BY <2>5, ItemFollows
  <2> QED BY <2>3, <2>4, <2>6
<1> QED BY <1>2, <1>3, <1>4, <1>5, <1>6

LEMMA NativePublishesSamples ==
  ASSUME SamplesInv, NEW c \in P!Channels, P!NativePublishes(c)
  PROVE  SamplesInv'
<1> USE DEF P!NativePublishes, P!device, P!tickVars
<1> DEFINE x == [by |-> "native", at |-> now]
<1>0. UNCHANGED <<P!Channels, P!PublishesOnce>>
  BY SameChannels
<1>1. x \in Items /\ x.by = "native" /\ P!publish_early_latest(c, x) /\ slot' = [slot EXCEPT ![c] = x]
  BY ReadingFacts DEF SamplesInv, SamplesTyped, Items, P!publish_early_latest
<1> HIDE DEF x
<1>2. SamplesTyped'
  BY <1>0, <1>1 DEF SamplesInv, SamplesTyped
<1>3. SlotsAreLast'
  BY <1>0, <1>1 DEF SamplesInv, SamplesTyped, SlotsAreLast
<1>4. StreamTold'
  <2>1. last' = last /\ UNCHANGED P!device
    OBVIOUS
  <2> QED BY <1>1, <2>1, PublishTold
<1>5. SystemInOrder' /\ ReadingsCanonical'
  BY DEF SamplesInv, SystemInOrder, ReadingsCanonical
<1>6. PublishedOnce'
  BY <1>0, <1>1, ChannelFacts DEF SamplesInv, SamplesTyped, PublishedOnce
<1> QED BY <1>2, <1>3, <1>4, <1>5, <1>6 DEF SamplesInv

LEMMA UpdatesSamples ==
  ASSUME SamplesInv, NEW c \in P!Channels, P!updates(c)
  PROVE  SamplesInv'
<1> USE DEF P!updates, P!device, P!tickVars
<1>0. UNCHANGED <<P!Channels, P!PublishesOnce>>
  BY SameChannels
<1>1. SamplesTyped' /\ SlotsAreLast' /\ ReadingsCanonical'
  BY <1>0 DEF SamplesInv, SamplesTyped, SlotsAreLast, ReadingsCanonical
<1>2. StreamTold'
  <2> DEFINE q == IF slot[c].by = "nobody" THEN <<>> ELSE <<slot[c]>>
  <2>1. DOMAIN stream' = {c} /\ stream'[c] = [received |-> <<>>, queue |-> q]
    OBVIOUS
  <2>2. slot[c] \in Items
    BY DEF SamplesInv, SamplesTyped
  <2>3. q \in Seq(Items) /\ <<>> \o q = q
    BY <2>2
  <2>4. History(c)' = q
    BY <2>1, <2>3 DEF History
  <2>5. stream' \in [{c} -> [received : Seq(Items), queue : Seq(Items)]]
    BY <2>3
  <2>6. Sampled(q) /\ Differ(q, c, samples) /\ LastIs(q, last[c])
    BY <2>3 DEF SamplesInv, SlotsAreLast, Sampled, Differ, LastIs
  <2> HIDE DEF q
  <2> QED BY <1>0, <2>1, <2>4, <2>5, <2>6 DEF StreamTold
<1>3. SystemInOrder' /\ PublishedOnce'
  BY <1>0 DEF SamplesInv, SystemInOrder, PublishedOnce
<1> QED BY <1>1, <1>2, <1>3 DEF SamplesInv

LEMMA RecvSamples ==
  ASSUME SamplesInv, NEW c \in P!Channels, P!recv(c)
  PROVE  SamplesInv'
<1> USE DEF P!recv, P!device, P!tickVars
<1>0. UNCHANGED <<P!Channels, P!PublishesOnce>>
  BY SameChannels
<1>1. SamplesTyped' /\ SlotsAreLast' /\ ReadingsCanonical'
  BY <1>0 DEF SamplesInv, SamplesTyped, SlotsAreLast, ReadingsCanonical
<1>2. StreamTold'
  <2>1. /\ DOMAIN stream \subseteq P!Channels
        /\ stream \in [DOMAIN stream -> [received : Seq(Items), queue : Seq(Items)]]
        /\ \A d \in DOMAIN stream :
             Sampled(History(d)) /\ Differ(History(d), d, samples) /\ LastIs(History(d), last[d])
    BY DEF SamplesInv, StreamTold
  <2>2. stream[c].received \in Seq(Items) /\ stream[c].queue \in Seq(Items)
    BY <2>1
  <2>3. /\ DOMAIN stream' = DOMAIN stream /\ \A d \in DOMAIN stream : d # c => stream'[d] = stream[d]
        /\ stream'[c] = [received |-> Append(stream[c].received, Head(stream[c].queue)),
                         queue |-> Tail(stream[c].queue)]
    BY <2>1
  <2>4. stream'[c] \in [received : Seq(Items), queue : Seq(Items)]
    BY <2>2, <2>3
  <2>5. stream' \in [DOMAIN stream -> [received : Seq(Items), queue : Seq(Items)]]
    BY <2>1, <2>3, <2>4
  <2>6. ASSUME NEW d \in DOMAIN stream PROVE History(d)' = History(d)
    <3>1. CASE d # c
      BY <2>3, <2>6, <3>1 DEF History
    <3>2. CASE d = c
      <4>1. /\ History(c) = stream[c].received \o stream[c].queue
            /\ History(c)' = Append(stream[c].received, Head(stream[c].queue)) \o Tail(stream[c].queue)
        BY <2>3 DEF History
      <4> QED BY <2>2, <3>2, <4>1, QueueMoves
    <3> QED BY <3>1, <3>2
  <2> QED BY <1>0, <2>1, <2>3, <2>5, <2>6 DEF StreamTold
<1>3. SystemInOrder' /\ PublishedOnce'
  BY <1>0 DEF SamplesInv, SystemInOrder, PublishedOnce
<1> QED BY <1>1, <1>2, <1>3 DEF SamplesInv

LEMMA TickChannelSamples ==
  ASSUME SamplesInv, P!tick_channel
  PROVE  SamplesInv'
<1> USE DEF P!device
<1> DEFINE c == Head(comparing)
           x == [by |-> "rust", at |-> of]
           same == last[c] # 0 /\ samples[last[c]][c] = samples[of][c]
<1>0. UNCHANGED <<P!Channels, P!PublishesOnce>>
  BY SameChannels DEF P!tick_channel
<1>1. /\ comparing \in Seq(P!Channels) /\ comparing # <<>> /\ c \in P!Channels /\ comparing' = Tail(comparing)
      /\ of \in Nat \ {0} /\ last \in [P!Channels -> Nat] /\ slot \in [P!Channels -> Items]
      /\ of \in 1..now /\ now \in 1..MaxReadings
  BY ReadingFacts DEF P!tick_channel, SamplesInv, SamplesTyped
<1>2. /\ UNCHANGED <<os, plugin, samples, now, of, enriched>> /\ emitted' = TRUE
      /\ IF same THEN UNCHANGED <<slot, stream, last>>
         ELSE P!publish_early_latest(c, x) /\ last' = [last EXCEPT ![c] = of]
  BY DEF P!tick_channel
<1>3. x \in Items /\ x.by = "rust" /\ x.at = of
  BY <1>1 DEF Items
<1> HIDE DEF c, x
<1>4. same \/ (slot' = [slot EXCEPT ![c] = x] /\ last' = [last EXCEPT ![c] = of] /\ ~same)
  BY <1>2 DEF P!publish_early_latest
<1>5. SamplesTyped'
  <2>1. comparing' \in Seq(P!Channels)
    BY <1>1
  <2>2. last' \in [P!Channels -> Nat] /\ slot' \in [P!Channels -> Items]
    <3>1. CASE same
      BY <1>1, <1>2, <3>1
    <3>2. CASE ~same
      <4>1. slot' = [slot EXCEPT ![c] = x] /\ last' = [last EXCEPT ![c] = of]
        BY <1>4, <3>2
      <4> HIDE DEF same
      <4> QED BY <1>1, <1>3, <4>1
    <3> QED BY <3>1, <3>2
  <2>3. \A d \in P!Channels : last'[d] <= of
    <3>1. \A d \in P!Channels : last[d] <= of
      BY DEF SamplesInv, SamplesTyped
    <3>2. \A d \in P!Channels : last'[d] = last[d] \/ last'[d] = of
      BY <1>1, <1>2
    <3>3. of <= of
      BY <1>1
    <3> HIDE DEF same
    <3> QED BY <3>1, <3>2, <3>3
  <2>4. plugin \in Plugins /\ of \in 0..now
    BY DEF SamplesInv, SamplesTyped
  <2> QED BY <1>0, <1>1, <1>2, <2>1, <2>2, <2>3, <2>4 DEF SamplesTyped
<1>6. SlotsAreLast'
  BY <1>0, <1>1, <1>2, <1>3, <1>4 DEF SamplesInv, SlotsAreLast
<1>7. StreamTold'
  <2>1. CASE same
    BY <1>0, <1>2, <2>1 DEF SamplesInv, StreamTold, History
  <2>2. CASE ~same
    <3>1. UNCHANGED P!device
      BY <1>2
    <3>2. last[c] # 0 => samples[last[c]][c] # samples[x.at][c]
      BY <1>3, <2>2
    <3>3. last' = IF x.by = "rust" THEN [last EXCEPT ![c] = x.at] ELSE last
      BY <1>2, <1>3, <2>2
    <3>4. P!publish_early_latest(c, x)
      BY <1>2, <2>2
    <3> HIDE DEF same
    <3> QED BY <1>1, <1>3, <3>1, <3>2, <3>3, <3>4, PublishTold
  <2> QED BY <2>1, <2>2
<1>8. PublishedOnce'
  <2> SUFFICES ASSUME P!PublishesOnce
               PROVE  comparing' = <<>> /\ ~enriched
    BY <1>0, <1>2 DEF PublishedOnce
  <2>1. comparing = <<plugin>> /\ ~emitted /\ ~enriched
    BY <1>1 DEF SamplesInv, PublishedOnce
  <2> QED BY <1>1, <2>1
<1>9. ReadingsCanonical'
  BY <1>2 DEF SamplesInv, ReadingsCanonical
<1>10. SystemInOrder'
  <2> SUFFICES ASSUME plugin = "system" PROVE SystemInOrder'
    BY <1>2 DEF SystemInOrder
  <2>1. /\ comparing \in {<<"locale", "timezone", "formats">>, <<"timezone", "formats">>, <<"formats">>}
        /\ samples[of]["locale"] # None
        /\ comparing \in {<<"timezone", "formats">>, <<"formats">>} =>
             last["locale"] # 0 /\ samples[last["locale"]]["locale"] = samples[of]["locale"]
        /\ last["formats"] # 0 =>
             /\ last["locale"] # 0
             /\ \E i \in last["formats"]..now : samples[last["locale"]]["locale"] = samples[i]["locale"]
        /\ last["locale"] # 0 => samples[last["locale"]]["locale"] # None
    BY <1>1 DEF SamplesInv, SystemInOrder
  <2>2. "locale" \in P!Channels /\ "formats" \in P!Channels /\ \A d \in P!Channels : last[d] <= of
    BY ChannelFacts DEF SamplesInv, SamplesTyped
  <2>3. CASE comparing = <<"locale", "timezone", "formats">>
    <3>1. c = "locale" /\ comparing' = <<"timezone", "formats">>
      BY <1>1, <2>3 DEF c
    <3>2. /\ last'["locale"] # 0 /\ samples[last'["locale"]]["locale"] = samples[of]["locale"]
          /\ last'["formats"] = last["formats"]
      BY <1>1, <1>2, <2>2, <3>1
    <3>3. of \in last["formats"]..now
      BY <1>1, <2>2
    <3> QED BY <1>2, <2>1, <3>1, <3>2, <3>3 DEF SystemInOrder
  <2>4. CASE comparing = <<"timezone", "formats">>
    <3>1. c = "timezone" /\ comparing' = <<"formats">>
      BY <1>1, <2>4 DEF c
    <3>2. last'["locale"] = last["locale"] /\ last'["formats"] = last["formats"]
      BY <1>1, <1>2, <2>2, <3>1
    <3> QED BY <1>2, <2>1, <2>4, <3>1, <3>2 DEF SystemInOrder
  <2>5. CASE comparing = <<"formats">>
    <3>1. c = "formats" /\ comparing' = <<>>
      BY <1>1, <2>5 DEF c
    <3>2. /\ last'["locale"] = last["locale"] /\ last["locale"] # 0
          /\ samples[last["locale"]]["locale"] = samples[of]["locale"]
          /\ last'["formats"] \in {of, last["formats"]}
      BY <1>1, <1>2, <2>1, <2>2, <2>5, <3>1
    <3>3. of \in last["formats"]..now /\ of \in of..now
      BY <1>1, <2>2
    <3>4. \E i \in last'["formats"]..now : samples[last["locale"]]["locale"] = samples[i]["locale"]
      BY <3>2, <3>3
    <3>5. <<>> \notin {<<"timezone", "formats">>, <<"formats">>}
      OBVIOUS
    <3> QED BY <1>2, <2>1, <3>1, <3>2, <3>4, <3>5 DEF SystemInOrder
  <2> QED BY <2>1, <2>3, <2>4, <2>5
<1> QED BY <1>5, <1>6, <1>7, <1>8, <1>9, <1>10 DEF SamplesInv

LEMMA SamplesKept == SamplesInv /\ [P!Next]_stateVars => SamplesInv'
<1> SUFFICES ASSUME SamplesInv, [P!Next]_stateVars PROVE SamplesInv'
  OBVIOUS
<1>1. CASE UNCHANGED stateVars
  <2>1. UNCHANGED <<P!Channels, P!PublishesOnce>>
    BY <1>1, SameChannels DEF stateVars, P!device
  <2> QED BY <1>1, <2>1 DEF SamplesInv, stateVars, SamplesTyped, SlotsAreLast, StreamTold, History,
      SystemInOrder, PublishedOnce, ReadingsCanonical
<1>2. CASE P!Next
  BY <1>2, InstallSamples, TickSamples, TickChannelSamples, DeviceChangesSamples, DropRuntimeSamples,
     NativePublishesSamples, UpdatesSamples, RecvSamples DEF P!Next
<1> QED BY <1>1, <1>2

LEMMA SamplesTold == SamplesInv => SamplesAreTold
<1> SUFFICES ASSUME SamplesInv PROVE P!SamplesAreTold
  BY DEF SamplesAreTold
<1>1. P!FormatsFollowLocale
  <2> SUFFICES ASSUME plugin = "system", slot["formats"].by = "rust", slot["locale"].by = "rust"
               PROVE  \E i \in slot["formats"].at..now : P!current("locale") = samples[i]["locale"]
    BY DEF P!FormatsFollowLocale
  <2>1. /\ slot["formats"].at = last["formats"] /\ last["formats"] # 0
        /\ slot["locale"].at = last["locale"]
    BY ChannelFacts DEF SamplesInv, SlotsAreLast
  <2>2. P!current("locale") = samples[last["locale"]]["locale"]
    BY <2>1 DEF P!current, P!value
  <2> QED BY <2>1, <2>2 DEF SamplesInv, SystemInOrder
<1>2. P!NoRepeats
  <2> SUFFICES ASSUME stream # None, NEW c \in DOMAIN stream,
                      NEW i \in DOMAIN History(c), NEW j \in DOMAIN History(c),
                      History(c)[i].by = "rust", History(c)[j].by = "rust", i < j,
                      \A k \in DOMAIN History(c) : History(c)[k].by = "rust" => k <= i \/ j <= k
               PROVE  P!value(c, History(c)[i]) # P!value(c, History(c)[j])
    BY DEF P!NoRepeats, History
  <2>1. Differ(History(c), c, samples) /\ Sampled(History(c))
    BY DEF SamplesInv, StreamTold
  <2>2. \A k \in DOMAIN History(c) : k \in Nat
    BY <2>1 DEF Sampled
  <2>3. \A k \in DOMAIN History(c) : i < k /\ k < j => History(c)[k].by # "rust"
    BY <2>2
  <2>4. samples[History(c)[i].at][c] # samples[History(c)[j].at][c]
    BY <2>1, <2>3 DEF Differ
  <2> QED BY <2>4 DEF P!value
<1>3. P!RichStays
  BY DEF SamplesInv, PublishedOnce, P!RichStays
<1>4. P!TagsAreCanonical
  <2> SUFFICES ASSUME plugin = "system", slot["locale"].by = "rust"
               PROVE  Canonical(P!current("locale"))
    BY DEF P!TagsAreCanonical, Canonical
  <2>1. /\ slot["locale"].at = last["locale"] /\ last["locale"] # 0 /\ last["locale"] \in 1..MaxReadings
        /\ samples[last["locale"]]["locale"] # None
    BY ReadingFacts, ChannelFacts DEF SamplesInv, SlotsAreLast, SamplesTyped, SystemInOrder
  <2>2. P!current("locale") = samples[last["locale"]]["locale"]
    BY <2>1 DEF P!current, P!value
  <2> QED BY <2>1, <2>2 DEF SamplesInv, ReadingsCanonical
<1> QED BY <1>1, <1>2, <1>3, <1>4 DEF P!SamplesAreTold
-----------------------------------------------------------------------------
(* The theorems.                                                           *)

PluginInv == ServiceInv /\ LocksInv /\ SlotInv /\ SamplesInv

LEMMA PluginInit == AllInit => PluginInv
  BY ServiceInit, LocksInit, SlotInit, SamplesInit DEF AllInit, PluginInv

LEMMA PluginKept == PluginInv /\ [AllNext]_allVars => PluginInv'
<1> SUFFICES ASSUME PluginInv, [AllNext]_allVars PROVE PluginInv'
  OBVIOUS
<1>1. Service(S!Next) \/ UNCHANGED serviceVars
  BY DEF AllNext, Banner, State, Service, Lock, allVars
<1>2. Lock(W!Next) \/ UNCHANGED lockVars
  BY DEF AllNext, Banner, State, Service, Lock, allVars
<1>3. Banner(Next) \/ UNCHANGED vars
  BY DEF AllNext, Banner, State, Service, Lock, allVars
<1>4. State(P!Next) \/ UNCHANGED stateVars
  BY DEF AllNext, Banner, State, Service, Lock, allVars
<1>5. [P!Next]_stateVars
  BY <1>4 DEF State
<1> QED
  BY <1>1, <1>2, <1>3, <1>5, ServiceKept, LocksKept, SlotKept, SamplesKept DEF PluginInv

\* However calls of on_start and on_stop, cancellations and the threads of
\* services interleave, a body that runs can be stopped, is stopped only if asked,
\* and has ended when its stop is answered; and no wake lock is held for nobody or
\* given back twice.
THEOREM BodiesAndLocksOwned == AllSpec => []AllOwned
<1>1. PluginInv => AllOwned
  BY LocksTrackedInv DEF PluginInv, ServiceInv, LocksInv, AllOwned, S!StopsAreExact
<1> QED
  BY <1>1, PluginInit, PluginKept, PTL DEF AllSpec

\* However a slot's tasks and the platform interleave, it has one banner on the
\* screen at most, one updater at most, and no rectangle pending without one.
THEOREM BannersAreServed == AllSpec => []BannerServed
<1>1. PluginInv => BannerServed
  BY SlotServed DEF PluginInv
<1> QED
  BY <1>1, PluginInit, PluginKept, PTL DEF AllSpec

\* However the device's readings, ticks, observers and streams interleave, a locale
\* read after the formats is of their reading or of a later one, no stream has a
\* sample twice in a row, what is richer is not covered up, and a tag parses to the
\* parts beside it.
THEOREM SamplesAreAlwaysTold == AllSpec => []SamplesAreTold
<1>1. PluginInv => SamplesAreTold
  BY SamplesTold DEF PluginInv
<1> QED
  BY <1>1, PluginInit, PluginKept, PTL DEF AllSpec
-----------------------------------------------------------------------------
(* Windows and pens: the lists of what a thread still has to do.           *)

Listening == {PW!Pen, PW!Other}
Answering == {"offer", "bind", "put"}

PenStep ==
  [do : {"remove", "offerAll", "offer", "insert", "forget", "replay", "bind", "put", "detach"},
   id : Ids \cup {None}, native : PW!Natives \cup {None}, listener : Listening \cup {None},
   back : Seq(Listening) \cup {None}, state : PW!States \cup {None}]

\* A step says what it is about, and a replay about nothing yet.
SaysWhat(e) ==
  /\ e.do = "replay" <=> e.id = None
  /\ e.do \in {"offerAll", "offer", "insert", "bind"} => e.native \in NativesOf[e.id]
  /\ e.do \in {"bind", "put", "detach"} => e.state \in PW!States /\ e.listener = PW!Pen
  /\ e.do \in {"offer", "forget", "replay"} => e.listener \in Listening

\* What comes first alone, what comes last alone, and that offers and insertions
\* stand behind nothing but answers to offers.
InPlace(q) ==
  \A k \in DOMAIN q :
    /\ k > 1 => q[k].do \notin {"bind", "put", "detach", "replay", "remove"}
    /\ q[k].do \in {"offerAll", "insert"} => k = Len(q)
    /\ q[k].do \in {"offer", "insert"} => \A j \in DOMAIN q : j < k => q[j].do \in Answering

\* A list is about one window, or it is a replay.
OneWindow(q) ==
  \/ \A k, l \in DOMAIN q : q[k].id = q[l].id
  \/ \A k \in DOMAIN q : q[k].do \in Answering /\ q[k].back = None

\* What is inserted at the end is what was offered.
Offered(q) ==
  \A k, j \in DOMAIN q : q[k].do = "insert" /\ j < k =>
    /\ q[j].id = q[k].id
    /\ q[j].do \in {"offer", "bind"} => q[j].native = q[k].native

Orderly(q) == (\A k \in DOMAIN q : SaysWhat(q[k])) /\ InPlace(q) /\ OneWindow(q) /\ Offered(q)

\* Where the steps of a list are once its first was taken and new ones were put there.
Moved(q, new, r) ==
  /\ r \in Seq(PenStep) /\ Len(r) = Len(new) + Len(q) - 1
  /\ \A k \in DOMAIN new : k \in DOMAIN r /\ r[k] = new[k]
  /\ \A k \in DOMAIN q : k > 1 =>
       k - 1 + Len(new) \in DOMAIN r /\ r[k - 1 + Len(new)] = q[k]
  /\ \A k \in DOMAIN r : k \in DOMAIN new \/
       \E j \in DOMAIN q : j > 1 /\ k = j - 1 + Len(new)

LEMMA StepsMove ==
  ASSUME NEW q \in Seq(PenStep), NEW new \in Seq(PenStep), q # <<>>
  PROVE  Moved(q, new, new \o Tail(q))
<1> SUFFICES ASSUME NEW r, r = new \o Tail(q) PROVE Moved(q, new, r)
  OBVIOUS
<1>1. Tail(q) \in Seq(PenStep) /\ Len(Tail(q)) = Len(q) - 1
      /\ \A k \in 1..(Len(q) - 1) : Tail(q)[k] = q[k + 1]
  OBVIOUS
<1>2. /\ r \in Seq(PenStep) /\ Len(r) = Len(new) + Len(q) - 1
      /\ \A k \in 1..Len(new) : r[k] = new[k]
      /\ \A k \in 1..(Len(q) - 1) : r[k + Len(new)] = Tail(q)[k]
  BY <1>1
<1>3. Len(q) \in Nat /\ Len(q) > 0 /\ Len(new) \in Nat /\ DOMAIN q = 1..Len(q) /\ DOMAIN new = 1..Len(new)
      /\ DOMAIN r = 1..Len(r)
  BY <1>2
<1>4. ASSUME NEW k \in DOMAIN q, k > 1
      PROVE  k - 1 + Len(new) \in DOMAIN r /\ r[k - 1 + Len(new)] = q[k]
  <2>1. k - 1 \in 1..(Len(q) - 1)
    BY <1>3, <1>4
  <2> QED BY <1>1, <1>2, <1>3, <2>1
<1>5. ASSUME NEW k \in DOMAIN r, k \notin DOMAIN new
      PROVE  \E j \in DOMAIN q : j > 1 /\ k = j - 1 + Len(new)
  <2>1. k - Len(new) + 1 \in DOMAIN q /\ k - Len(new) + 1 > 1
        /\ k = (k - Len(new) + 1) - 1 + Len(new)
    BY <1>2, <1>3, <1>5
  <2> QED BY <2>1
<1>6. \A k \in DOMAIN new : k \in DOMAIN r /\ r[k] = new[k]
  BY <1>2, <1>3
<1> QED BY <1>2, <1>4, <1>5, <1>6 DEF Moved

\* The first step of a list is replaced by steps of its kind, or by the last there are.
Replaces(new, q) ==
  /\ \A k \in DOMAIN new : SaysWhat(new[k])
  /\ InPlace(new) /\ Offered(new)
  /\ \A k \in DOMAIN new : new[k].do \in {"offerAll", "insert"} => Len(q) = 1
  /\ (\E k \in DOMAIN q : k > 1 /\ q[k].do \in {"offer", "insert"}) =>
       \A k \in DOMAIN new :
         /\ new[k].do \in Answering
         /\ new[k].do \in {"offer", "bind"} =>
              q[1].do \in {"offer", "bind"} /\ new[k].native = q[1].native
  /\ \A k \in DOMAIN new :
       /\ new[k].id = q[1].id
       /\ q[1].do \in Answering /\ q[1].back = None =>
            new[k].do \in Answering /\ new[k].back = None

LEMMA OrderlyStays ==
  ASSUME NEW q \in Seq(PenStep), NEW new \in Seq(PenStep), q # <<>>, Orderly(q), Replaces(new, q)
  PROVE  Orderly(new \o Tail(q))
<1> SUFFICES ASSUME NEW r, r = new \o Tail(q) PROVE Orderly(r)
  OBVIOUS
<1>0. Moved(q, new, r)
  BY StepsMove
<1>1. /\ r \in Seq(PenStep) /\ Len(r) = Len(new) + Len(q) - 1
      /\ \A k \in DOMAIN new : k \in DOMAIN r /\ r[k] = new[k]
      /\ \A k \in DOMAIN q : k > 1 =>
           k - 1 + Len(new) \in DOMAIN r /\ r[k - 1 + Len(new)] = q[k]
      /\ \A k \in DOMAIN r : k \in DOMAIN new \/
           \E j \in DOMAIN q : j > 1 /\ k = j - 1 + Len(new)
  BY <1>0 DEF Moved
<1>2. /\ Len(q) \in Nat /\ Len(q) > 0 /\ Len(new) \in Nat
      /\ DOMAIN q = 1..Len(q) /\ DOMAIN new = 1..Len(new)
      /\ DOMAIN r = 1..Len(r) /\ 1 \in DOMAIN q
  BY <1>1
<1>3. ASSUME NEW k \in DOMAIN r
      PROVE  \/ k \in DOMAIN new /\ r[k] = new[k]
             \/ \E j \in DOMAIN q : j > 1 /\ k = j - 1 + Len(new) /\ r[k] = q[j]
  BY <1>1
<1>4. \A k \in DOMAIN r : SaysWhat(r[k])
  BY <1>3 DEF Orderly, Replaces
<1>5. InPlace(r)
  <2> USE DEF Replaces
  <2> SUFFICES ASSUME NEW k \in DOMAIN r
               PROVE  /\ k > 1 => r[k].do \notin {"bind", "put", "detach", "replay", "remove"}
                      /\ r[k].do \in {"offerAll", "insert"} => k = Len(r)
                      /\ r[k].do \in {"offer", "insert"} =>
                           \A l \in DOMAIN r : l < k => r[l].do \in Answering
    BY DEF InPlace
  <2>1. CASE k \in DOMAIN new /\ r[k] = new[k]
    <3>1. k > 1 => r[k].do \notin {"bind", "put", "detach", "replay", "remove"}
      BY <2>1 DEF InPlace
    <3>2. r[k].do \in {"offerAll", "insert"} => k = Len(r)
      BY <1>1, <1>2, <2>1 DEF InPlace
    <3>3. ASSUME r[k].do \in {"offer", "insert"}, NEW l \in DOMAIN r, l < k
          PROVE  r[l].do \in Answering
      <4>1. l \in DOMAIN new
        BY <1>2, <2>1, <3>3
      <4> QED BY <1>1, <2>1, <3>3, <4>1 DEF InPlace
    <3> QED BY <3>1, <3>2, <3>3
  <2>2. ASSUME NEW j \in DOMAIN q, j > 1, k = j - 1 + Len(new), r[k] = q[j]
        PROVE  /\ k > 1 => r[k].do \notin {"bind", "put", "detach", "replay", "remove"}
               /\ r[k].do \in {"offerAll", "insert"} => k = Len(r)
               /\ r[k].do \in {"offer", "insert"} =>
                    \A l \in DOMAIN r : l < k => r[l].do \in Answering
    <3>1. q[j].do \notin {"bind", "put", "detach", "replay", "remove"}
      BY <2>2 DEF Orderly, InPlace
    <3>2. r[k].do \in {"offerAll", "insert"} => k = Len(r)
      BY <1>1, <1>2, <2>2 DEF Orderly, InPlace
    <3>3. ASSUME q[j].do \in {"offer", "insert"}, NEW l \in DOMAIN r, l < k
          PROVE  r[l].do \in Answering
      <4>1. \A h \in DOMAIN q : h < j => q[h].do \in Answering
        BY <2>2, <3>3 DEF Orderly, InPlace
      <4>2. CASE l \in DOMAIN new /\ r[l] = new[l]
        BY <2>2, <3>3, <4>2
      <4>3. ASSUME NEW h \in DOMAIN q, l = h - 1 + Len(new), r[l] = q[h]
            PROVE  r[l].do \in Answering
        <5>1. h < j
          BY <1>2, <2>2, <3>3, <4>3
        <5> QED BY <4>1, <4>3, <5>1
      <4> QED BY <1>3, <4>2, <4>3
    <3> QED BY <2>2, <3>1, <3>2, <3>3
  <2> QED BY <1>3, <2>1, <2>2
<1>6. OneWindow(r)
  <2>0. \A k \in DOMAIN new :
          /\ new[k].id = q[1].id
          /\ q[1].do \in Answering /\ q[1].back = None =>
               new[k].do \in Answering /\ new[k].back = None
    BY DEF Replaces
  <2>1. CASE \A k, l \in DOMAIN q : q[k].id = q[l].id
    <3>1. \A k \in DOMAIN r : r[k].id = q[1].id
      <4>1. \A k \in DOMAIN q : q[k].id = q[1].id
        BY <1>2, <2>1
      <4> QED BY <1>3, <2>0, <4>1
    <3> QED BY <3>1 DEF OneWindow
  <2>2. CASE \A k \in DOMAIN q : q[k].do \in Answering /\ q[k].back = None
    <3>1. \A k \in DOMAIN r : r[k].do \in Answering /\ r[k].back = None
      <4>1. q[1].do \in Answering /\ q[1].back = None
        BY <1>2, <2>2
      <4>2. \A k \in DOMAIN new : new[k].do \in Answering /\ new[k].back = None
        BY <2>0, <4>1
      <4> QED BY <1>3, <2>2, <4>2
    <3> QED BY <3>1 DEF OneWindow
  <2> QED BY <2>1, <2>2 DEF Orderly, OneWindow
<1>7. Offered(r)
  <2>1. ASSUME NEW k \in DOMAIN r, NEW l \in DOMAIN r, r[k].do = "insert", l < k
        PROVE  /\ r[l].id = r[k].id
               /\ r[l].do \in {"offer", "bind"} => r[l].native = r[k].native
    <3> USE <2>1 DEF Replaces
    <3>1. CASE k \in DOMAIN new /\ r[k] = new[k]
      <4>1. l \in DOMAIN new /\ r[l] = new[l]
        BY <1>1, <1>2, <3>1
      <4> QED BY <3>1, <4>1 DEF Offered
    <3>2. ASSUME NEW j \in DOMAIN q, j > 1, k = j - 1 + Len(new), r[k] = q[j]
          PROVE  /\ r[l].id = r[k].id
                 /\ r[l].do \in {"offer", "bind"} => r[l].native = r[k].native
      <4>1. \A h \in DOMAIN q : h < j => /\ q[h].id = q[j].id
                                         /\ q[h].do \in {"offer", "bind"} => q[h].native = q[j].native
        BY <3>2 DEF Orderly, Offered
      <4>2. CASE l \in DOMAIN new /\ r[l] = new[l]
        BY <1>2, <3>2, <4>1, <4>2
      <4>3. ASSUME NEW h \in DOMAIN q, l = h - 1 + Len(new), r[l] = q[h]
            PROVE  /\ r[l].id = r[k].id
                   /\ r[l].do \in {"offer", "bind"} => r[l].native = r[k].native
        <5>1. h < j
          BY <1>2, <3>2, <4>3
        <5> QED BY <3>2, <4>1, <4>3, <5>1
      <4> QED BY <1>3, <4>2, <4>3
    <3> QED BY <1>3, <3>1, <3>2
  <2> QED BY ONLY <2>1 DEF Offered
<1> QED BY <1>4, <1>5, <1>6, <1>7 DEF Orderly

\* Two threads are at work on different windows.
Apart(t, u) ==
  \A k \in DOMAIN todo[t], l \in DOMAIN todo[u] :
    todo[t][k].id # todo[u][l].id /\ todo[t][k].id # None

TodoInv ==
  /\ todo \in [Threads -> Seq(PenStep)]
  /\ \A t \in Threads : Orderly(todo[t])
  /\ \A t, u \in Threads : t # u => Apart(t, u)

\* A thread's list changes and stays apart from the others'.
LEMMA TodoChanges ==
  ASSUME TodoInv, NEW t \in Threads, NEW r \in Seq(PenStep), Orderly(r),
         todo' = [todo EXCEPT ![t] = r],
         \A u \in Threads \ {t} : \A k \in DOMAIN r, l \in DOMAIN todo[u] :
           r[k].id # todo[u][l].id /\ r[k].id # None /\ todo[u][l].id # None
  PROVE  TodoInv'
<1>1. todo' \in [Threads -> Seq(PenStep)] /\ todo'[t] = r
      /\ \A u \in Threads \ {t} : todo'[u] = todo[u]
  BY DEF TodoInv
<1>2. \A u \in Threads : Orderly(todo'[u])
  BY <1>1 DEF TodoInv
<1>3. ASSUME NEW u \in Threads, NEW v \in Threads, u # v PROVE Apart(u, v)'
  <2>1. CASE u = t
    BY <1>1, <1>3, <2>1 DEF Apart
  <2>2. CASE v = t
    BY <1>1, <1>3, <2>2 DEF Apart
  <2>3. CASE u # t /\ v # t
    BY <1>1, <1>3, <2>3 DEF Apart, TodoInv
  <2> QED BY <2>1, <2>2, <2>3
<1> QED BY <1>1, <1>2, <1>3 DEF TodoInv

\* What becomes of a thread's list, where its first step is replaced.
LEMMA TodoBecomes ==
  ASSUME TodoInv, NEW t \in Threads, todo[t] # <<>>,
         NEW new \in Seq(PenStep), Replaces(new, todo[t]), PW!Becomes(t, new)
  PROVE  /\ TodoInv'
         /\ Moved(todo[t], new, todo'[t])
         /\ \A u \in Threads \ {t} : todo'[u] = todo[u]
<1>1. todo[t] \in Seq(PenStep) /\ Orderly(todo[t]) /\ todo \in [Threads -> Seq(PenStep)]
  BY DEF TodoInv
<1>2. PICK r : r = new \o Tail(todo[t])
  OBVIOUS
<1>3. Moved(todo[t], new, r) /\ Orderly(r)
  BY <1>1, <1>2, StepsMove, OrderlyStays
<1>4. r \in Seq(PenStep)
  BY <1>3 DEF Moved
<1>5. todo' = [todo EXCEPT ![t] = r]
  BY <1>1, <1>2 DEF PW!Becomes
<1>6. \A k \in DOMAIN r : \E j \in DOMAIN todo[t] : r[k].id = todo[t][j].id
  <2>1. 1 \in DOMAIN todo[t]
    BY <1>1
  <2> QED BY <1>3, <2>1 DEF Moved, Replaces
<1>7. ASSUME NEW u \in Threads \ {t}, NEW k \in DOMAIN r, NEW l \in DOMAIN todo[u]
      PROVE  r[k].id # todo[u][l].id /\ r[k].id # None /\ todo[u][l].id # None
  <2>1. PICK j \in DOMAIN todo[t] : r[k].id = todo[t][j].id
    BY <1>6
  <2>2. Apart(t, u) /\ Apart(u, t)
    BY DEF TodoInv
  <2> QED BY <2>1, <2>2 DEF Apart
<1>8. TodoInv'
  BY <1>4, <1>5, <1>7, <1>3, TodoChanges
<1> QED BY <1>1, <1>3, <1>5, <1>8

\* The last step of a list, which needs nothing to follow.
LEMMA TakenOff ==
  ASSUME NEW q \in Seq(PenStep)
  PROVE  <<>> \in Seq(PenStep) /\ Replaces(<<>>, q)
<1>1. <<>> \in Seq(PenStep) /\ DOMAIN <<>> = {}
  OBVIOUS
<1> QED BY <1>1 DEF Replaces, InPlace, Offered

\* One step in the place of another.
LEMMA OneForOne ==
  ASSUME NEW q \in Seq(PenStep), q # <<>>, Orderly(q), NEW e \in PenStep, SaysWhat(e),
         e.id = q[1].id,
         \/ /\ e.do \in {"bind", "put"} /\ q[1].do \in {"offer", "bind"}
            /\ e.do = "bind" => e.native = q[1].native
            /\ q[1].back = None => e.back = None
         \/ e.do = "detach" /\ q[1].do = "forget"
  PROVE  <<e>> \in Seq(PenStep) /\ Replaces(<<e>>, q)
<1>1. <<e>> \in Seq(PenStep) /\ DOMAIN <<e>> = {1} /\ <<e>>[1] = e /\ 1 \in DOMAIN q
  OBVIOUS
<1>2. e.do \in {"bind", "put", "detach"}
  OBVIOUS
<1>3. InPlace(<<e>>) /\ Offered(<<e>>)
  BY <1>1, <1>2 DEF InPlace, Offered
<1>4. q[1].do = "forget" => ~\E k \in DOMAIN q : k > 1 /\ q[k].do \in {"offer", "insert"}
  BY <1>1 DEF Orderly, InPlace, Answering
<1> QED BY <1>1, <1>2, <1>3, <1>4 DEF Replaces, Answering

\* All listeners are told to forget the window that is removed.
LEMMA ForgetsListed ==
  ASSUME NEW ls \in Seq(Listening), NEW i \in Ids
  PROVE  \A new : new = PW!ForgetAll(ls, i) =>
         /\ new \in Seq(PenStep) /\ DOMAIN new = DOMAIN ls
         /\ \A k \in DOMAIN ls : new[k].do = "forget" /\ new[k].id = i /\ new[k].listener = ls[k]
                                   /\ new[k].back = None
         /\ Orderly(new)
<1> TAKE new
<1> HAVE new = PW!ForgetAll(ls, i)
<1>1. \A k \in DOMAIN ls : ls[k] \in Listening
  OBVIOUS
<1>2. \A k \in DOMAIN ls : PW!Forget(ls[k], i) \in PenStep
  BY <1>1 DEF PW!Forget, PW!Step, PenStep
<1>3. new \in Seq(PenStep) /\ DOMAIN new = DOMAIN ls
      /\ \A k \in DOMAIN ls : new[k] = PW!Forget(ls[k], i)
  BY <1>2 DEF PW!ForgetAll
<1>4. \A k \in DOMAIN ls : /\ new[k].do = "forget" /\ new[k].id = i /\ new[k].listener = ls[k]
                           /\ new[k].back = None
  BY <1>3 DEF PW!Forget, PW!Step
<1>5. \A k \in DOMAIN new : SaysWhat(new[k])
  BY <1>1, <1>3, <1>4, PensAssumption DEF SaysWhat, PW!PenWindowsAssumption
<1>6. InPlace(new) /\ OneWindow(new) /\ Offered(new)
  BY <1>3, <1>4 DEF InPlace, OneWindow, Offered
<1> QED BY <1>3, <1>4, <1>5, <1>6 DEF Orderly

LEMMA ForgetsReplace ==
  ASSUME NEW q \in Seq(PenStep), q # <<>>, Orderly(q), q[1].do = "remove",
         NEW ls \in Seq(Listening)
  PROVE  PW!ForgetAll(ls, q[1].id) \in Seq(PenStep) /\ Replaces(PW!ForgetAll(ls, q[1].id), q)
<1>1. q[1] \in PenStep /\ 1 \in DOMAIN q /\ SaysWhat(q[1])
  BY DEF Orderly
<1>2. q[1].id \in Ids
  BY <1>1 DEF PenStep, SaysWhat
<1>3. PICK new : new = PW!ForgetAll(ls, q[1].id)
  OBVIOUS
<1>4. /\ new \in Seq(PenStep) /\ Orderly(new)
      /\ \A k \in DOMAIN new : new[k].do = "forget" /\ new[k].id = q[1].id
  BY <1>2, <1>3, ForgetsListed
<1>5. ~\E k \in DOMAIN q : k > 1 /\ q[k].do \in {"offer", "insert"}
  BY <1>1 DEF Orderly, InPlace, Answering
<1>6. Replaces(new, q)
  BY <1>4, <1>5 DEF Replaces, Orderly, Answering
<1> QED BY <1>3, <1>4, <1>6

\* All listeners are offered the window, which is inserted in the end.
AreOffers(new, ls, i, n) ==
  /\ new \in Seq(PenStep) /\ Len(new) = Len(ls) + 1
  /\ \A k \in DOMAIN ls : new[k] = PW!Offer(ls[k], i, n, SubSeq(ls, 1, k - 1))
  /\ new[Len(ls) + 1] = PW!Insert(i, n)

LEMMA OffersListed ==
  ASSUME NEW ls \in Seq(Listening), NEW i \in Ids, NEW n \in NativesOf[i]
  PROVE  AreOffers(PW!OffersTo(ls, i, n) \o <<PW!Insert(i, n)>>, ls, i, n)
<1> SUFFICES ASSUME NEW new, new = PW!OffersTo(ls, i, n) \o <<PW!Insert(i, n)>>
             PROVE  AreOffers(new, ls, i, n)
  OBVIOUS
<1>1. \A k \in DOMAIN ls : ls[k] \in Listening /\ SubSeq(ls, 1, k - 1) \in Seq(Listening)
  OBVIOUS
<1>2. n \in PW!Natives
  BY DEF PW!Natives
<1>3. \A k \in DOMAIN ls : PW!Offer(ls[k], i, n, SubSeq(ls, 1, k - 1)) \in PenStep
  BY <1>1, <1>2 DEF PW!Offer, PW!Step, PenStep
<1>4. PW!Insert(i, n) \in PenStep
  BY <1>2 DEF PW!Insert, PW!Step, PenStep
<1>5. PICK offers : offers = PW!OffersTo(ls, i, n)
  OBVIOUS
<1>6. /\ offers \in Seq(PenStep) /\ Len(offers) = Len(ls)
      /\ \A k \in DOMAIN ls : offers[k] = PW!Offer(ls[k], i, n, SubSeq(ls, 1, k - 1))
  BY <1>3, <1>5 DEF PW!OffersTo
<1>7. PICK e : e = PW!Insert(i, n)
  OBVIOUS
<1>8. e \in PenStep /\ new = offers \o <<e>>
  BY <1>4, <1>5, <1>7
<1>9. new \in Seq(PenStep) /\ Len(new) = Len(ls) + 1 /\ new[Len(ls) + 1] = e
      /\ \A k \in DOMAIN ls : new[k] = offers[k]
  <2>0. offers \in Seq(PenStep) /\ <<e>> \in Seq(PenStep) /\ new = offers \o <<e>>
        /\ Len(<<e>>) = 1 /\ <<e>>[1] = e /\ Len(offers) \in Nat
    BY <1>6, <1>8
  <2>1. new \in Seq(PenStep) /\ Len(new) = Len(offers) + 1
    BY ONLY <2>0, ConcatProperties
  <2>2. \A k \in 1..Len(offers) : new[k] = offers[k]
    BY ONLY <2>0, ConcatProperties
  <2>3. new[Len(offers) + 1] = e
    BY ONLY <2>0, ConcatProperties
  <2> QED BY <1>6, <2>1, <2>2, <2>3
<1> QED BY <1>6, <1>7, <1>9 DEF AreOffers

LEMMA OffersReplace ==
  ASSUME NEW q \in Seq(PenStep), q # <<>>, Orderly(q), q[1].do = "offerAll",
         NEW ls \in Seq(Listening)
  PROVE  LET new == PW!OffersTo(ls, q[1].id, q[1].native) \o <<PW!Insert(q[1].id, q[1].native)>> IN
         Len(q) = 1 /\ new \in Seq(PenStep) /\ Replaces(new, q)
<1>1. q[1] \in PenStep /\ 1 \in DOMAIN q /\ SaysWhat(q[1])
  BY DEF Orderly
<1>2. q[1].id \in Ids /\ q[1].native \in NativesOf[q[1].id]
  BY <1>1 DEF PenStep, SaysWhat
<1>3. PICK i, n : i = q[1].id /\ n = q[1].native
  OBVIOUS
<1>4. i \in Ids /\ n \in NativesOf[i]
  BY <1>2, <1>3
<1>5. PICK new : new = PW!OffersTo(ls, i, n) \o <<PW!Insert(i, n)>>
  OBVIOUS
<1>6. /\ new \in Seq(PenStep) /\ Len(new) = Len(ls) + 1
      /\ \A k \in DOMAIN ls : new[k] = PW!Offer(ls[k], i, n, SubSeq(ls, 1, k - 1))
      /\ new[Len(ls) + 1] = PW!Insert(i, n)
  <2>1. AreOffers(new, ls, i, n)
    BY <1>4, <1>5, OffersListed
  <2> QED BY <2>1 DEF AreOffers
<1>7. Len(q) = 1
  BY <1>1 DEF Orderly, InPlace
<1>8. ASSUME NEW k \in DOMAIN new
      PROVE  /\ new[k].id = i /\ new[k].native = n /\ new[k].do \in {"offer", "insert"}
             /\ k \in DOMAIN ls => new[k].do = "offer" /\ new[k].listener = ls[k]
             /\ new[k].do = "insert" => k = Len(new)
             /\ k \notin DOMAIN ls => k = Len(new)
             /\ SaysWhat(new[k])
  <2>1. CASE k \in DOMAIN ls
    <3>1. ls[k] \in Listening
      BY <2>1
    <3>2. /\ new[k].do = "offer" /\ new[k].id = i /\ new[k].native = n
          /\ new[k].listener = ls[k]
      <4>1. PICK back : new[k] = PW!Offer(ls[k], i, n, back)
        BY <1>6, <2>1
      <4> QED BY <4>1 DEF PW!Offer, PW!Step
    <3>3. SaysWhat(new[k])
      BY <1>4, <3>1, <3>2, PensAssumption DEF SaysWhat, PW!PenWindowsAssumption
    <3> QED BY <1>6, <2>1, <3>2, <3>3
  <2>2. CASE k = Len(ls) + 1
    BY <1>4, <1>6, <2>2, PensAssumption DEF PW!Insert, PW!Step, SaysWhat, PW!PenWindowsAssumption
  <2>3. k \in DOMAIN ls \/ k = Len(ls) + 1
    BY <1>6
  <2> QED BY <1>6, <2>1, <2>2, <2>3
<1>9. InPlace(new)
  <2> SUFFICES ASSUME NEW k \in DOMAIN new
               PROVE  /\ k > 1 => new[k].do \notin {"bind", "put", "detach", "replay", "remove"}
                      /\ new[k].do \in {"offerAll", "insert"} => k = Len(new)
                      /\ new[k].do \in {"offer", "insert"} =>
                           \A j \in DOMAIN new : j < k => new[j].do \in Answering
    BY DEF InPlace
  <2>1. \A j \in DOMAIN new : j < k => j \in DOMAIN ls
    BY <1>6
  <2> QED BY <1>8, <2>1 DEF Answering
<1>10. Offered(new)
  BY <1>8 DEF Offered
<1>11. Replaces(new, q)
  BY <1>1, <1>3, <1>7, <1>8, <1>9, <1>10 DEF Replaces, Answering
<1> QED BY <1>3, <1>5, <1>6, <1>7, <1>11

\* A thread that has nothing to do begins.
LEMMA TodoBegins ==
  ASSUME TodoInv, ~Overlap, NEW t \in Threads, NEW new \in Seq(PenStep), Orderly(new),
         NEW on, PW!Begin(t, new, on), \A k \in DOMAIN new : new[k].id \in on \cap Ids
  PROVE  /\ TodoInv' /\ todo[t] = <<>> /\ todo'[t] = new
         /\ \A u \in Threads \ {t} : todo'[u] = todo[u]
<1>1. todo' = [todo EXCEPT ![t] = new] /\ todo[t] = <<>> /\ todo \in [Threads -> Seq(PenStep)]
  BY DEF PW!Begin, TodoInv
<1>2. ASSUME NEW u \in Threads \ {t}, NEW k \in DOMAIN new, NEW l \in DOMAIN todo[u]
      PROVE  new[k].id # todo[u][l].id /\ new[k].id # None /\ todo[u][l].id # None
  <2>1. new[k].id \in on /\ new[k].id \in Ids
    OBVIOUS
  <2>2. ~PW!Touches(u, new[k].id)
    BY <2>1 DEF PW!Begin
  <2>3. todo[u][l].id \notin {new[k].id, None}
    BY <2>2 DEF PW!Touches
  <2> QED BY <2>1, <2>3, PensAssumption DEF PW!PenWindowsAssumption
<1>3. TodoInv'
  BY <1>1, <1>2, TodoChanges
<1> QED BY <1>1, <1>3
-----------------------------------------------------------------------------
(* The states of the pen publisher and what they are bound to.             *)

PenHeads == {"bind", "put", "detach"}

\* A thread is about to bind a state, to put it under an id, or to detach it.
AtState(t, do, i, s) ==
  todo[t] # <<>> /\ todo[t][1].do = do /\ todo[t][1].id = i /\ todo[t][1].state = s

\* A state is an id's if it is under it or a thread has it in hand for it.
StateOf(i, s) == states[i] = s \/ \E t \in Threads, do \in PenHeads : AtState(t, do, i, s)

\* A state that is in hand stands for what is under the id.
HandsInv ==
  \A t \in Threads, i \in Ids, s \in PW!States :
    /\ AtState(t, "bind", i, s) \/ AtState(t, "put", i, s) => states[i] \in {None, s}
    /\ AtState(t, "detach", i, s) => states[i] = None

\* A state is of one id and bound to a window of it.
OwnersInv ==
  \A i \in Ids, s \in PW!States : StateOf(i, s) =>
    /\ s \in 1..made /\ bound[s] \in NativesOf[i] \cup {None}
    /\ \A j \in Ids : StateOf(j, s) => i = j

\* A state that is bound and was not lost is under its id, or is put there or
\* detached next, and has an entry.
BindingsInv ==
  \A s \in PW!States : s \notin lost /\ bound[s] # None =>
    /\ s \in 1..made
    /\ desktop \in {"windows", "macos"} =>
         \E i \in Ids : /\ bound[s] \in NativesOf[i]
                        /\ \/ states[i] = s
                           \/ \E t \in Threads, do \in {"put", "detach"} : AtState(t, do, i, s)
    /\ \E k \in DOMAIN entries : entries[k] = <<bound[s], s>>
    /\ desktop = "windows" => bound[s] \in hooked

\* What was not made is not bound, and an entry is where its state is bound.
EntriesInv ==
  /\ \A s \in PW!States : s \notin 1..made => bound[s] = None
  /\ \A k \in DOMAIN entries :
       /\ entries[k][2] \in 1..made
       /\ entries[k][2] \notin lost => bound[entries[k][2]] = entries[k][1]
  /\ lost \subseteq 1..made

PenInv == HandsInv /\ OwnersInv /\ BindingsInv /\ EntriesInv

\* Steps of the registry leave it alone.
LEMMA PenQuiet ==
  ASSUME PenInv, UNCHANGED <<desktop, states, made, bound, entries, hooked, lost>>,
         \A u \in Threads, do \in PenHeads, i \in Ids, s \in PW!States :
           AtState(u, do, i, s)' = AtState(u, do, i, s)
  PROVE  PenInv'
<1>1. \A i \in Ids, s \in PW!States : StateOf(i, s)' = StateOf(i, s)
  BY DEF StateOf
<1>2. HandsInv'
  BY DEF PenInv, HandsInv, PenHeads
<1>3. OwnersInv'
  BY <1>1 DEF PenInv, OwnersInv
<1>4. ASSUME NEW s \in PW!States, s \notin lost, bound[s] # None,
             desktop \in {"windows", "macos"}
      PROVE  \E i \in Ids : /\ bound[s] \in NativesOf[i]
                            /\ \/ states[i] = s
                               \/ \E t \in Threads, do \in {"put", "detach"} : AtState(t, do, i, s)'
  BY <1>4 DEF PenInv, BindingsInv, PenHeads
<1>5. BindingsInv'
  BY <1>4 DEF PenInv, BindingsInv
<1>6. EntriesInv'
  BY DEF PenInv, EntriesInv
<1> QED BY <1>2, <1>3, <1>5, <1>6 DEF PenInv

\* Whose head is what, once a thread's list is another.
LEMMA HeadsGo ==
  ASSUME TodoInv, NEW t \in Threads, todo[t] # <<>>, NEW new \in Seq(PenStep),
         Moved(todo[t], new, todo'[t]), \A u \in Threads \ {t} : todo'[u] = todo[u]
  PROVE  /\ \A u \in Threads \ {t}, do \in PenHeads, i \in Ids, s \in PW!States :
              AtState(u, do, i, s)' = AtState(u, do, i, s)
         /\ \A do \in PenHeads, i \in Ids, s \in PW!States : AtState(t, do, i, s)' <=>
              new # <<>> /\ new[1].do = do /\ new[1].id = i /\ new[1].state = s
<1>1. todo[t] \in Seq(PenStep) /\ Orderly(todo[t])
  BY DEF TodoInv
<1>2. \A u \in Threads \ {t}, do \in PenHeads, i \in Ids, s \in PW!States :
        AtState(u, do, i, s)' = AtState(u, do, i, s)
  BY DEF AtState
<1>3. CASE new # <<>>
  <2>1. 1 \in DOMAIN new
    BY <1>3
  <2>2. 1 \in DOMAIN todo'[t] /\ todo'[t][1] = new[1]
    BY <2>1 DEF Moved
  <2>3. todo'[t] # <<>>
    BY <2>2
  <2> QED BY <1>2, <1>3, <2>2, <2>3 DEF AtState
<1>4. CASE new = <<>>
  <2>1. CASE todo'[t] = <<>>
    BY <1>2, <1>4, <2>1 DEF AtState
  <2>2. CASE todo'[t] # <<>>
    <3>1. todo'[t] \in Seq(PenStep) /\ Len(new) = 0 /\ DOMAIN new = {}
      BY <1>4 DEF Moved
    <3>2. 1 \in DOMAIN todo'[t]
      BY <2>2, <3>1
    <3>3. PICK j \in DOMAIN todo[t] : j > 1 /\ 1 = j - 1
      BY <3>1, <3>2 DEF Moved
    <3>4. todo'[t][1] = todo[t][j]
      BY <1>1, <3>1, <3>3 DEF Moved
    <3>5. todo'[t][1].do \notin PenHeads
      BY <1>1, <3>3, <3>4 DEF Orderly, InPlace, PenHeads
    <3> QED BY <1>2, <1>4, <3>5 DEF AtState
  <2> QED BY <2>1, <2>2
<1> QED BY <1>3, <1>4

LEMMA PensCount == \A K : PW!Cardinality(K) = Cardinality(K)
BY DEF PW!Cardinality, Cardinality

\* What is left of the entries when those of one native window go.
LEMMA Retains ==
  ASSUME entries \in Seq(PW!Natives \X PW!States), NEW n, PW!Unbind(n)
  PROVE  /\ entries' \in Seq(PW!Natives \X PW!States)
         /\ \A k \in DOMAIN entries' : \E j \in DOMAIN entries :
              entries'[k] = entries[j] /\ entries[j][1] # n
         /\ \A j \in DOMAIN entries : entries[j][1] # n =>
              \E k \in DOMAIN entries' : entries'[k] = entries[j]
<1> DEFINE K == {k \in DOMAIN entries : entries[k][1] # n}
<1>1. PICK kept \in PW!Ascending(K) : entries' = [j \in DOMAIN kept |-> entries[kept[j]]]
  BY DEF PW!Unbind
<1> HIDE DEF K
<1>2. K \subseteq 1..Len(entries)
  BY DEF K
<1>3. PW!Cardinality(K) \in Nat
  <2>1. IsFiniteSet(1..Len(entries))
    BY FS_Interval
  <2>2. IsFiniteSet(K)
    BY <1>2, <2>1, FS_Subset
  <2> QED BY <2>2, FS_CardinalityType, PensCount
<1>4. kept \in [1..PW!Cardinality(K) -> K] /\ PW!Range(kept) = K
  BY <1>1 DEF PW!Ascending
<1>5. \A j \in DOMAIN kept : kept[j] \in K
  BY <1>4
<1>6. entries' \in Seq(PW!Natives \X PW!States)
  <2>1. \A j \in 1..PW!Cardinality(K) : entries[kept[j]] \in PW!Natives \X PW!States
    BY <1>4, <1>5 DEF K
  <2>2. DOMAIN kept = 1..PW!Cardinality(K)
    BY <1>4
  <2> QED BY <1>1, <1>3, <2>1, <2>2
<1>7. \A j \in K : \E k \in DOMAIN kept : kept[k] = j
  BY <1>4 DEF PW!Range
<1> QED BY <1>1, <1>5, <1>6, <1>7 DEF K

\* The first step of t's list is replaced.
Turned(t, new) ==
  /\ todo[t] # <<>> /\ new \in Seq(PenStep)
  /\ TodoInv' /\ Moved(todo[t], new, todo'[t])
  /\ \A u \in Threads \ {t} : todo'[u] = todo[u]

LEMMA FirstStep ==
  ASSUME TodoInv, NEW t \in Threads, todo[t] # <<>>
  PROVE  /\ Head(todo[t]) = todo[t][1] /\ 1 \in DOMAIN todo[t] /\ todo[t] \in Seq(PenStep)
         /\ todo[t][1] \in PenStep /\ SaysWhat(todo[t][1]) /\ Orderly(todo[t])
<1>1. todo[t] \in Seq(PenStep) /\ Orderly(todo[t])
  BY DEF TodoInv
<1>2. Head(todo[t]) = todo[t][1] /\ 1 \in DOMAIN todo[t] /\ todo[t][1] \in PenStep
  BY <1>1
<1> QED BY <1>1, <1>2 DEF Orderly

\* It is just taken off.
LEMMA OffTurns ==
  ASSUME TodoInv, NEW t \in Threads, todo[t] # <<>>, PW!Becomes(t, <<>>)
  PROVE  Turned(t, <<>>)
<1>1. todo[t] \in Seq(PenStep)
  BY DEF TodoInv
<1>2. <<>> \in Seq(PenStep) /\ Replaces(<<>>, todo[t])
  BY <1>1, TakenOff
<1> QED BY <1>2, TodoBecomes DEF Turned

\* attach has the state, and binds it next.
LEMMA FindTurns ==
  ASSUME PW!TypeOK, TodoInv, PenInv, NEW t \in Threads, PW!FindState(t)
  PROVE  LET e == todo[t][1] IN
         /\ e.do = "offer" /\ e.listener = PW!Pen
         /\ \E s \in PW!States :
              /\ \/ states[e.id] = s /\ made' = made
                 \/ states[e.id] = None /\ s = made + 1 /\ made' = made + 1
              /\ Turned(t, <<PW!Bind(e.id, e.native, e.back, s)>>)
<1> DEFINE e == todo[t][1]
<1>1. todo[t] # <<>> /\ Head(todo[t]) = e /\ e.do = "offer" /\ e.listener = PW!Pen
      /\ e \in PenStep /\ SaysWhat(e) /\ Orderly(todo[t]) /\ todo[t] \in Seq(PenStep)
  BY FirstStep DEF PW!FindState, PW!Now
<1>2. e.id \in Ids /\ e.native \in NativesOf[e.id] /\ e.native \in PW!Natives
      /\ e.back \in Seq(Listening) \cup {None}
  BY <1>1 DEF PenStep, SaysWhat, PW!Natives
<1>3. \E s \in PW!States :
        /\ \/ states[e.id] = s /\ made' = made
           \/ states[e.id] = None /\ s = made + 1 /\ made' = made + 1
        /\ PW!Becomes(t, <<PW!Bind(e.id, e.native, e.back, s)>>)
  <2>1. CASE states[e.id] # None
    <3>1. states[e.id] \in PW!States
      BY <1>2, <2>1 DEF PW!TypeOK
    <3> QED BY <1>1, <2>1, <3>1 DEF PW!FindState
  <2>2. CASE states[e.id] = None
    <3>1. made + 1 \in PW!States /\ made' = made + 1
      BY <1>1, <2>2, PensAssumption DEF PW!FindState, PW!TypeOK, PW!States, PW!PenWindowsAssumption
    <3> QED BY <1>1, <2>2, <3>1 DEF PW!FindState
  <2> QED BY <2>1, <2>2
<1>4. PICK s \in PW!States :
        /\ \/ states[e.id] = s /\ made' = made
           \/ states[e.id] = None /\ s = made + 1 /\ made' = made + 1
        /\ PW!Becomes(t, <<PW!Bind(e.id, e.native, e.back, s)>>)
  BY <1>3
<1>5. PICK b : b = PW!Bind(e.id, e.native, e.back, s)
  OBVIOUS
<1>6. /\ b \in PenStep /\ b.do = "bind" /\ b.id = e.id /\ b.native = e.native
      /\ b.back = e.back /\ b.state = s /\ b.listener = PW!Pen
  BY <1>2, <1>5 DEF PW!Bind, PW!Step, PenStep, Listening
<1>7. SaysWhat(b)
  BY <1>2, <1>6, PensAssumption DEF SaysWhat, PW!PenWindowsAssumption
<1>8. <<b>> \in Seq(PenStep) /\ Replaces(<<b>>, todo[t])
  BY <1>1, <1>6, <1>7, OneForOne
<1>9. Turned(t, <<b>>)
  BY <1>1, <1>4, <1>5, <1>8, TodoBecomes DEF Turned
<1> QED BY <1>1, <1>4, <1>5, <1>9

LEMMA FindKeeps ==
  ASSUME PW!TypeOK, TodoInv, PenInv, NEW t \in Threads, PW!FindState(t)
  PROVE  PenInv'
<1> DEFINE e == todo[t][1]
<1>1. e.do = "offer"
  BY FindTurns
<1>2. PICK s \in PW!States :
        /\ \/ states[e.id] = s /\ made' = made
           \/ states[e.id] = None /\ s = made + 1 /\ made' = made + 1
        /\ Turned(t, <<PW!Bind(e.id, e.native, e.back, s)>>)
  BY FindTurns
<1>3. UNCHANGED <<desktop, states, bound, entries, hooked, lost>> /\ made \in 0..MaxStates
      /\ MaxStates \in Nat
  BY PensAssumption DEF PW!FindState, PW!TypeOK, PW!PenWindowsAssumption
<1>4. \A u \in Threads \ {t}, do \in PenHeads, i \in Ids, x \in PW!States :
        AtState(u, do, i, x)' = AtState(u, do, i, x)
  BY <1>2, HeadsGo DEF Turned
<1>5. \A do \in PenHeads, i \in Ids, x \in PW!States :
        AtState(t, do, i, x)' <=> do = "bind" /\ i = e.id /\ x = s
  <2>1. PICK b : b = PW!Bind(e.id, e.native, e.back, s)
    OBVIOUS
  <2>2. b.do = "bind" /\ b.id = e.id /\ b.state = s
    BY <2>1 DEF PW!Bind, PW!Step
  <2>3. <<b>> # <<>> /\ <<b>>[1] = b
    OBVIOUS
  <2>4. Turned(t, <<b>>)
    BY <1>2, <2>1
  <2>5. \A do \in PenHeads, i \in Ids, x \in PW!States : AtState(t, do, i, x)' <=>
          <<b>> # <<>> /\ <<b>>[1].do = do /\ <<b>>[1].id = i /\ <<b>>[1].state = x
    BY <2>4, HeadsGo DEF Turned
  <2> QED BY <2>2, <2>3, <2>5
<1>6. \A do \in PenHeads, i \in Ids, x \in PW!States : ~AtState(t, do, i, x)
  BY <1>1 DEF AtState, PenHeads
<1>7. \A i \in Ids, x \in PW!States : StateOf(i, x)' => StateOf(i, x) \/ (i = e.id /\ x = s)
  BY <1>3, <1>4, <1>5 DEF StateOf
<1>8. HandsInv'
  <2>1. \A i \in Ids, x \in PW!States :
          /\ AtState(t, "bind", i, x)' \/ AtState(t, "put", i, x)' => states[i] \in {None, x}
          /\ ~AtState(t, "detach", i, x)'
    BY <1>2, <1>5 DEF PenHeads
  <2> QED BY <1>3, <1>4, <2>1 DEF PenInv, HandsInv, PenHeads
<1>9. OwnersInv'
  <2>1. CASE states[e.id] = s /\ made' = made /\ e.id \in Ids
    <3>1. StateOf(e.id, s)
      BY <2>1 DEF StateOf
    <3>2. \A i \in Ids, x \in PW!States : StateOf(i, x)' => StateOf(i, x)
      BY <1>7, <3>1
    <3> QED BY <1>3, <2>1, <3>2 DEF PenInv, OwnersInv
  <2>2. CASE s = made + 1 /\ made' = made + 1
    <3>1. \A i \in Ids : ~StateOf(i, s)
      BY <1>3, <2>2 DEF PenInv, OwnersInv
    <3>2. bound[s] = None
      BY <1>3, <2>2 DEF PenInv, EntriesInv
    <3>3. s \in 1..made' /\ \A x \in 1..made : x \in 1..made'
      BY <1>3, <2>2
    <3>4. ASSUME NEW i \in Ids, NEW x \in PW!States, StateOf(i, x)'
          PROVE  /\ x \in 1..made' /\ bound[x] \in NativesOf[i] \cup {None}
                 /\ \A j \in Ids : StateOf(j, x)' => i = j
      <4>1. CASE x = s
        BY <1>7, <3>1, <3>2, <3>3, <3>4, <4>1
      <4>2. CASE x # s
        BY <1>7, <3>3, <3>4, <4>2 DEF PenInv, OwnersInv
      <4> QED BY <4>1, <4>2
    <3> QED BY <1>3, <3>4 DEF OwnersInv
  <2>3. e.id \in Ids
    BY FirstStep, <1>1, <1>2 DEF Turned, SaysWhat, PenStep
  <2> QED BY <1>2, <2>1, <2>2, <2>3
<1>10. \A x \in 1..made : x \in 1..made'
  BY <1>2, <1>3
<1>11. BindingsInv'
  <2>1. \A u \in Threads, do \in {"put", "detach"}, i \in Ids, x \in PW!States :
          AtState(u, do, i, x) => AtState(u, do, i, x)'
    BY <1>4, <1>6 DEF PenHeads
  <2>2. ASSUME NEW x \in PW!States, x \notin lost, bound[x] # None, desktop \in {"windows", "macos"}
        PROVE  \E i \in Ids : /\ bound[x] \in NativesOf[i]
                              /\ \/ states[i] = x
                                 \/ \E u \in Threads, do \in {"put", "detach"} : AtState(u, do, i, x)'
    BY <2>1, <2>2 DEF PenInv, BindingsInv
  <2> QED BY <1>3, <1>10, <2>2 DEF PenInv, BindingsInv
<1>12. EntriesInv'
  BY <1>2, <1>3, <1>10 DEF PenInv, EntriesInv
<1> QED BY <1>8, <1>9, <1>11, <1>12 DEF PenInv

\* Who has what in hand when a thread has one step for another ...
LEMMA HandTurns ==
  ASSUME TodoInv, NEW t \in Threads, NEW b, Turned(t, <<b>>)
  PROVE  /\ \A u \in Threads \ {t}, do \in PenHeads, i \in Ids, x \in PW!States :
              AtState(u, do, i, x)' = AtState(u, do, i, x)
         /\ \A do \in PenHeads, i \in Ids, x \in PW!States :
              AtState(t, do, i, x)' <=> b.do = do /\ b.id = i /\ b.state = x
<1>1. <<b>> # <<>> /\ <<b>>[1] = b
  OBVIOUS
<1>2. \A do \in PenHeads, i \in Ids, x \in PW!States : AtState(t, do, i, x)' <=>
        <<b>> # <<>> /\ <<b>>[1].do = do /\ <<b>>[1].id = i /\ <<b>>[1].state = x
  BY HeadsGo DEF Turned
<1>3. \A u \in Threads \ {t}, do \in PenHeads, i \in Ids, x \in PW!States :
        AtState(u, do, i, x)' = AtState(u, do, i, x)
  BY HeadsGo DEF Turned
<1> QED BY <1>1, <1>2, <1>3

\* ... and when it has none with a state.
LEMMA HandEmpties ==
  ASSUME TodoInv, NEW t \in Threads, NEW new, Turned(t, new),
         \A k \in DOMAIN new : new[k].do \notin PenHeads
  PROVE  /\ \A u \in Threads \ {t}, do \in PenHeads, i \in Ids, x \in PW!States :
              AtState(u, do, i, x)' = AtState(u, do, i, x)
         /\ \A do \in PenHeads, i \in Ids, x \in PW!States : ~AtState(t, do, i, x)'
<1>1. new \in Seq(PenStep)
  BY DEF Turned
<1>2. new # <<>> => new[1].do \notin PenHeads
  BY <1>1
<1>3. \A do \in PenHeads, i \in Ids, x \in PW!States : AtState(t, do, i, x)' <=>
        new # <<>> /\ new[1].do = do /\ new[1].id = i /\ new[1].state = x
  BY HeadsGo DEF Turned
<1>4. \A u \in Threads \ {t}, do \in PenHeads, i \in Ids, x \in PW!States :
        AtState(u, do, i, x)' = AtState(u, do, i, x)
  BY HeadsGo DEF Turned
<1> QED BY <1>2, <1>3, <1>4

\* No other thread has a state of the window that a thread is at work on.
LEMMA HandAlone ==
  ASSUME TodoInv, NEW t \in Threads, todo[t] # <<>>, NEW u \in Threads \ {t},
         NEW do \in PenHeads, NEW x \in PW!States
  PROVE  ~AtState(u, do, todo[t][1].id, x)
<1>1. todo[u] # <<>> => 1 \in DOMAIN todo[u]
  BY FirstStep
<1>2. 1 \in DOMAIN todo[t] /\ Apart(t, u)
  BY FirstStep DEF TodoInv
<1> QED BY <1>1, <1>2 DEF Apart, AtState

\* A state is bound to the window, and put under its id next.
LEMMA BindTurns ==
  ASSUME PW!TypeOK, TodoInv, NEW t \in Threads, PW!BindNative(t)
  PROVE  LET e == todo[t][1] IN
         /\ e.do = "bind" /\ e.id \in Ids /\ e.native \in NativesOf[e.id] /\ e.state \in PW!States
         /\ \E b : b.do = "put" /\ b.id = e.id /\ b.state = e.state /\ b.listener = PW!Pen
                   /\ b.back = None /\ Turned(t, <<b>>)
         /\ AtState(t, "bind", e.id, e.state)
<1> DEFINE e == todo[t][1]
<1>1. todo[t] # <<>> /\ Head(todo[t]) = e /\ e.do = "bind" /\ e.listener = PW!Pen
      /\ e \in PenStep /\ SaysWhat(e) /\ Orderly(todo[t]) /\ todo[t] \in Seq(PenStep)
  BY FirstStep DEF PW!BindNative, PW!Now, SaysWhat
<1>2. e.id \in Ids /\ e.native \in NativesOf[e.id] /\ e.state \in PW!States
  BY <1>1 DEF PenStep, SaysWhat
<1>3. PICK b : b = PW!Put(e.id, e.state)
  OBVIOUS
<1>4. /\ b \in PenStep /\ b.do = "put" /\ b.id = e.id /\ b.state = e.state
      /\ b.listener = PW!Pen /\ b.back = None
  BY <1>2, <1>3 DEF PW!Put, PW!Step, PenStep, Listening
<1>5. SaysWhat(b)
  BY <1>2, <1>4, PensAssumption DEF SaysWhat, PW!PenWindowsAssumption
<1>6. <<b>> \in Seq(PenStep) /\ Replaces(<<b>>, todo[t])
  BY <1>1, <1>4, <1>5, OneForOne
<1>7. PW!Becomes(t, <<b>>)
  BY <1>1, <1>3 DEF PW!BindNative
<1>8. Turned(t, <<b>>)
  BY <1>1, <1>6, <1>7, TodoBecomes DEF Turned
<1> QED BY <1>1, <1>2, <1>4, <1>8 DEF AtState

LEMMA BindKeeps ==
  ASSUME PW!TypeOK, TodoInv, PenInv, NEW t \in Threads, PW!BindNative(t)
  PROVE  PenInv'
<1>1. PICK i, s, n : i = todo[t][1].id /\ s = todo[t][1].state /\ n = todo[t][1].native
  OBVIOUS
<1>2. /\ todo[t][1].do = "bind" /\ i \in Ids /\ n \in NativesOf[i] /\ s \in PW!States
      /\ AtState(t, "bind", i, s)
      /\ \E b : b.do = "put" /\ b.id = i /\ b.state = s /\ Turned(t, <<b>>)
  BY <1>1, BindTurns
<1>3. /\ \A u \in Threads \ {t}, do \in PenHeads, j \in Ids, x \in PW!States :
           AtState(u, do, j, x)' = AtState(u, do, j, x)
      /\ \A do \in PenHeads, j \in Ids, x \in PW!States :
           AtState(t, do, j, x)' <=> do = "put" /\ j = i /\ x = s
  BY <1>2, HandTurns
<1>4. \A do \in PenHeads, j \in Ids, x \in PW!States :
        AtState(t, do, j, x) <=> do = "bind" /\ j = i /\ x = s
  BY <1>1, <1>2 DEF AtState
<1>5. /\ entries' = Append(entries, <<n, s>>) /\ UNCHANGED <<desktop, states, made>>
      /\ bound' = [bound EXCEPT ![s] = n]
      /\ lost' = IF bound[s] = None THEN lost ELSE lost \cup {s}
      /\ hooked \subseteq hooked' /\ (desktop = "windows" => n \in hooked')
  BY <1>1, FirstStep, <1>2 DEF PW!BindNative, PW!Now, PW!attach_hwnd, PW!attach_view, PW!attach_wayland,
        PW!attach_window, PW!Push
<1>6. /\ bound \in [PW!States -> PW!Natives \cup {None}] /\ n \in PW!Natives /\ None \notin PW!Natives
      /\ entries \in Seq(PW!Natives \X PW!States)
  BY <1>2, PensAssumption DEF PW!TypeOK, PW!Natives, PW!PenWindowsAssumption
<1>7. \A j \in Ids, x \in PW!States : StateOf(j, x)' = StateOf(j, x)
  BY <1>3, <1>4, <1>5 DEF StateOf, PenHeads
<1>8. HandsInv'
  <2>1. \A j \in Ids, x \in PW!States :
          /\ AtState(t, "bind", j, x)' \/ AtState(t, "put", j, x)' => states[j] \in {None, x}
          /\ ~AtState(t, "detach", j, x)'
    BY <1>2, <1>3 DEF PenHeads, PenInv, HandsInv
  <2> QED BY <1>3, <1>5, <2>1 DEF PenInv, HandsInv, PenHeads
<1>9. StateOf(i, s)
  BY <1>2 DEF StateOf, PenHeads
<1>10. OwnersInv'
  <2>1. \A j \in Ids, x \in PW!States : StateOf(j, x) => bound'[x] \in NativesOf[j] \cup {None}
    BY <1>2, <1>5, <1>6, <1>9 DEF PenInv, OwnersInv
  <2> QED BY <1>5, <1>7, <2>1 DEF PenInv, OwnersInv
<1>11. /\ \A k \in DOMAIN entries : k \in DOMAIN entries' /\ entries'[k] = entries[k]
       /\ \E k \in DOMAIN entries' : entries'[k] = <<n, s>>
       /\ \A k \in DOMAIN entries' : k \in DOMAIN entries \/ entries'[k] = <<n, s>>
  <2>1. /\ DOMAIN entries' = 1..(Len(entries) + 1) /\ entries'[Len(entries) + 1] = <<n, s>>
        /\ DOMAIN entries = 1..Len(entries) /\ Len(entries) \in Nat
    BY <1>5, <1>6
  <2>2. \A k \in 1..Len(entries) : entries'[k] = entries[k]
    BY <1>5, <1>6
  <2> QED BY <2>1, <2>2
<1>12. BindingsInv'
  <2> SUFFICES ASSUME NEW x \in PW!States, x \notin lost', bound'[x] # None
               PROVE  /\ x \in 1..made
                      /\ desktop \in {"windows", "macos"} =>
                           \E j \in Ids : /\ bound'[x] \in NativesOf[j]
                                          /\ \/ states[j] = x
                                             \/ \E u \in Threads, do \in {"put", "detach"} :
                                                  AtState(u, do, j, x)'
                      /\ \E k \in DOMAIN entries' : entries'[k] = <<bound'[x], x>>
                      /\ desktop = "windows" => bound'[x] \in hooked'
    BY <1>5 DEF BindingsInv
  <2>1. CASE x = s
    <3>1. bound'[s] = n /\ s \in 1..made
      BY <1>2, <1>5, <1>6, <1>9 DEF PenInv, OwnersInv
    <3>2. AtState(t, "put", i, s)'
      BY <1>2, <1>3 DEF PenHeads
    <3> QED BY <1>2, <1>5, <1>11, <2>1, <3>1, <3>2
  <2>2. CASE x # s
    <3>1. bound'[x] = bound[x] /\ x \notin lost
      BY <1>5, <1>6, <2>2
    <3>2. \A u \in Threads, do \in {"put", "detach"}, j \in Ids :
            AtState(u, do, j, x) => AtState(u, do, j, x)'
      BY <1>3, <1>4, <2>2 DEF PenHeads
    <3>3. desktop \in {"windows", "macos"} =>
            \E j \in Ids : /\ bound'[x] \in NativesOf[j]
                           /\ \/ states[j] = x
                              \/ \E u \in Threads, do \in {"put", "detach"} : AtState(u, do, j, x)'
      BY <3>1, <3>2 DEF PenInv, BindingsInv
    <3> QED BY <1>5, <1>11, <3>1, <3>3 DEF PenInv, BindingsInv
  <2> QED BY <2>1, <2>2
<1>13. EntriesInv'
  <2>1. s \in 1..made
    BY <1>2, <1>9 DEF PenInv, OwnersInv
  <2>2. \A x \in PW!States : x \notin 1..made => bound'[x] = None
    BY <1>5, <1>6, <2>1 DEF PenInv, EntriesInv
  <2>3. ASSUME NEW k \in DOMAIN entries', entries'[k][2] \notin lost'
        PROVE  bound'[entries'[k][2]] = entries'[k][1]
    <3>1. CASE k \in DOMAIN entries /\ entries'[k] = entries[k]
      <4>1. entries[k][2] \notin lost /\ bound[entries[k][2]] = entries[k][1]
            /\ entries[k] \in PW!Natives \X PW!States
        BY <1>5, <1>6, <2>3, <3>1 DEF PenInv, EntriesInv
      <4>2. entries[k][2] # s
        BY <1>5, <1>6, <2>3, <3>1, <4>1
      <4> QED BY <1>5, <1>6, <3>1, <4>1, <4>2
    <3>2. CASE entries'[k] = <<n, s>>
      BY <1>2, <1>5, <1>6, <3>2
    <3> QED BY <1>11, <3>1, <3>2
  <2>4. \A k \in DOMAIN entries' : entries'[k][2] \in 1..made
    BY <1>11, <2>1 DEF PenInv, EntriesInv
  <2>5. lost' \subseteq 1..made
    BY <1>5, <2>1 DEF PenInv, EntriesInv
  <2> QED BY <1>5, <2>2, <2>3, <2>4, <2>5 DEF EntriesInv
<1> QED BY <1>8, <1>10, <1>12, <1>13 DEF PenInv

\* A refusal has the accepting listeners forget the window, or is passed over.
LEMMA RefusedTurns ==
  ASSUME TodoInv, NEW t \in Threads, todo[t] # <<>>, todo[t][1].id \in Ids, PW!Refused(t)
  PROVE  LET e == todo[t][1] IN
         /\ TodoInv' /\ \A u \in Threads \ {t} : todo'[u] = todo[u]
         /\ \A u \in Threads \ {t}, do \in PenHeads, i \in Ids, x \in PW!States :
              AtState(u, do, i, x)' = AtState(u, do, i, x)
         /\ \A do \in PenHeads, i \in Ids, x \in PW!States : ~AtState(t, do, i, x)'
         /\ \/ e.back = None /\ Turned(t, <<>>)
            \/ /\ e.back # None /\ e.back \in Seq(Listening)
               /\ DOMAIN todo'[t] = DOMAIN e.back
               /\ \A k \in DOMAIN e.back :
                    /\ todo'[t][k].do = "forget" /\ todo'[t][k].id = e.id
                    /\ todo'[t][k].listener = e.back[k] /\ todo'[t][k].back = None
<1> DEFINE e == todo[t][1]
<1>1. Head(todo[t]) = e /\ e \in PenStep /\ 1 \in DOMAIN todo[t]
      /\ todo \in [Threads -> Seq(PenStep)]
  BY FirstStep DEF TodoInv
<1>2. CASE e.back = None
  <2>1. Turned(t, <<>>)
    BY <1>1, <1>2, OffTurns DEF PW!Refused
  <2>2. \A k \in DOMAIN <<>> : <<>>[k].do \notin PenHeads
    OBVIOUS
  <2>3. /\ \A u \in Threads \ {t}, do \in PenHeads, i \in Ids, x \in PW!States :
             AtState(u, do, i, x)' = AtState(u, do, i, x)
        /\ \A do \in PenHeads, i \in Ids, x \in PW!States : ~AtState(t, do, i, x)'
    BY <2>1, <2>2, HandEmpties
  <2> QED BY <1>2, <2>1, <2>3 DEF Turned
<1>3. CASE e.back # None
  <2>1. e.back \in Seq(Listening)
    BY <1>1, <1>3 DEF PenStep
  <2>2. PICK r : r = PW!ForgetAll(e.back, e.id)
    OBVIOUS
  <2>3. /\ r \in Seq(PenStep) /\ DOMAIN r = DOMAIN e.back
        /\ \A k \in DOMAIN e.back : r[k].do = "forget" /\ r[k].id = e.id
                                    /\ r[k].listener = e.back[k] /\ r[k].back = None
        /\ Orderly(r)
    BY <2>1, <2>2, ForgetsListed
  <2>4. todo' = [todo EXCEPT ![t] = r]
    BY <1>1, <1>3, <2>2 DEF PW!Refused
  <2>5. ASSUME NEW u \in Threads \ {t}, NEW k \in DOMAIN r, NEW l \in DOMAIN todo[u]
        PROVE  r[k].id # todo[u][l].id /\ r[k].id # None /\ todo[u][l].id # None
    <3>1. Apart(t, u) /\ Apart(u, t)
      BY DEF TodoInv
    <3> QED BY <1>1, <2>3, <3>1 DEF Apart
  <2>6. TodoInv'
    BY <2>3, <2>4, <2>5, TodoChanges
  <2>7. todo'[t] = r /\ \A u \in Threads \ {t} : todo'[u] = todo[u]
    BY <1>1, <2>4
  <2>8. \A u \in Threads \ {t}, do \in PenHeads, i \in Ids, x \in PW!States :
          AtState(u, do, i, x)' = AtState(u, do, i, x)
    BY <2>7 DEF AtState
  <2>9. \A do \in PenHeads, i \in Ids, x \in PW!States : ~AtState(t, do, i, x)'
    <3>1. r # <<>> => r[1].do \notin PenHeads
      BY <2>3 DEF PenHeads
    <3> QED BY <2>7, <3>1 DEF AtState
  <2> QED BY <1>3, <2>1, <2>3, <2>6, <2>7, <2>8, <2>9
<1> QED BY <1>2, <1>3

\* Binding fails: what was bound is lost, and on Windows the native window's
\* entries are gone, which are those of that state.
LEMMA FailKeeps ==
  ASSUME PW!TypeOK, TodoInv, PenInv, NEW t \in Threads, PW!BindFails(t)
  PROVE  PenInv'
<1>1. PICK i, s, n : i = todo[t][1].id /\ s = todo[t][1].state /\ n = todo[t][1].native
  OBVIOUS
<1>2. /\ todo[t] # <<>> /\ todo[t][1].do = "bind" /\ Head(todo[t]) = todo[t][1]
      /\ i \in Ids /\ n \in NativesOf[i] /\ s \in PW!States /\ AtState(t, "bind", i, s)
  BY <1>1, FirstStep DEF PW!BindFails, PW!Now, SaysWhat, PenStep, AtState
<1>3. /\ \A u \in Threads \ {t}, do \in PenHeads, j \in Ids, x \in PW!States :
           AtState(u, do, j, x)' = AtState(u, do, j, x)
      /\ \A do \in PenHeads, j \in Ids, x \in PW!States : ~AtState(t, do, j, x)'
  <2>1. PW!Refused(t)
    BY DEF PW!BindFails
  <2> QED BY <1>1, <1>2, <2>1, RefusedTurns
<1>4. \A do \in PenHeads, j \in Ids, x \in PW!States :
        AtState(t, do, j, x) <=> do = "bind" /\ j = i /\ x = s
  BY <1>1, <1>2 DEF AtState
<1>5. /\ UNCHANGED <<desktop, states, made, bound, hooked>>
      /\ IF desktop = "windows" THEN PW!Unbind(n) ELSE UNCHANGED entries
      /\ lost' = IF bound[s] = None THEN lost ELSE lost \cup {s}
  BY <1>1, <1>2 DEF PW!BindFails
<1>6. StateOf(i, s) /\ s \in 1..made /\ states[i] \in {None, s}
  <2>1. StateOf(i, s)
    BY <1>2 DEF StateOf, PenHeads
  <2> QED BY <1>2, <2>1 DEF PenInv, OwnersInv, HandsInv
<1>7. entries \in Seq(PW!Natives \X PW!States)
  BY DEF PW!TypeOK
<1>8. /\ \A k \in DOMAIN entries' : \E j \in DOMAIN entries : entries'[k] = entries[j]
      /\ \A j \in DOMAIN entries : \/ desktop = "windows" /\ entries[j][1] = n
                                   \/ \E k \in DOMAIN entries' : entries'[k] = entries[j]
  BY <1>5, <1>7, Retains
<1>9. \A j \in Ids, x \in PW!States : StateOf(j, x)' => StateOf(j, x)
  BY <1>3, <1>5 DEF StateOf
<1>10. HandsInv'
  BY <1>3, <1>5 DEF PenInv, HandsInv, PenHeads
<1>11. OwnersInv'
  BY <1>5, <1>9 DEF PenInv, OwnersInv
<1>12. BindingsInv'
  <2> SUFFICES ASSUME NEW x \in PW!States, x \notin lost', bound[x] # None
               PROVE  /\ x \in 1..made
                      /\ desktop \in {"windows", "macos"} =>
                           \E j \in Ids : /\ bound[x] \in NativesOf[j]
                                          /\ \/ states[j] = x
                                             \/ \E u \in Threads, do \in {"put", "detach"} :
                                                  AtState(u, do, j, x)'
                      /\ \E k \in DOMAIN entries' : entries'[k] = <<bound[x], x>>
                      /\ desktop = "windows" => bound[x] \in hooked
    BY <1>5 DEF BindingsInv
  <2>1. x \notin lost /\ x # s
    BY <1>5
  <2>2. \A u \in Threads, do \in {"put", "detach"}, j \in Ids :
          AtState(u, do, j, x) => AtState(u, do, j, x)'
    BY <1>3, <1>4, <2>1 DEF PenHeads
  <2>3. desktop \in {"windows", "macos"} =>
          \E j \in Ids : /\ bound[x] \in NativesOf[j]
                         /\ \/ states[j] = x
                            \/ \E u \in Threads, do \in {"put", "detach"} : AtState(u, do, j, x)
    BY <2>1 DEF PenInv, BindingsInv
  <2>4. ASSUME desktop = "windows" PROVE bound[x] # n
    <3>1. SUFFICES ASSUME bound[x] = n PROVE FALSE
      OBVIOUS
    <3>2. PICK j \in Ids : /\ bound[x] \in NativesOf[j]
                           /\ \/ states[j] = x
                              \/ \E u \in Threads, do \in {"put", "detach"} : AtState(u, do, j, x)
      BY <2>3, <2>4
    <3>3. j = i
      BY <1>2, <3>1, <3>2, PensAssumption DEF PW!PenWindowsAssumption
    <3>4. states[i] # x
      BY <1>6, <2>1, PensAssumption DEF PW!PenWindowsAssumption, PW!States
    <3>5. PICK u \in Threads, do \in {"put", "detach"} : AtState(u, do, i, x)
      BY <3>2, <3>3, <3>4
    <3>6. u # t
      <4>1. ~AtState(t, do, i, x)
        BY <1>2, <1>4, <3>5 DEF PenHeads
      <4> QED BY <3>5, <4>1
    <3> QED BY <1>1, <1>2, <3>5, <3>6, HandAlone DEF PenHeads
  <2>5. \E k \in DOMAIN entries' : entries'[k] = <<bound[x], x>>
    <3>1. PICK k \in DOMAIN entries : entries[k] = <<bound[x], x>>
      BY <2>1 DEF PenInv, BindingsInv
    <3> QED BY <1>8, <2>4, <3>1
  <2>6. desktop \in {"windows", "macos"} =>
          \E j \in Ids : /\ bound[x] \in NativesOf[j]
                         /\ \/ states[j] = x
                            \/ \E u \in Threads, do \in {"put", "detach"} : AtState(u, do, j, x)'
    BY <2>2, <2>3
  <2> QED BY <2>1, <2>5, <2>6 DEF PenInv, BindingsInv
<1>13. EntriesInv'
  BY <1>5, <1>6, <1>8 DEF PenInv, EntriesInv
<1> QED BY <1>10, <1>11, <1>12, <1>13 DEF PenInv

\* A state is put under the id it was bound for.
LEMMA PutKeeps ==
  ASSUME PW!TypeOK, TodoInv, PenInv, NEW t \in Threads, PW!PutState(t)
  PROVE  Turned(t, <<>>) /\ PenInv'
<1>1. PICK i, s : i = todo[t][1].id /\ s = todo[t][1].state
  OBVIOUS
<1>2. /\ todo[t] # <<>> /\ todo[t][1].do = "put" /\ Head(todo[t]) = todo[t][1]
      /\ i \in Ids /\ s \in PW!States /\ AtState(t, "put", i, s)
  BY <1>1, FirstStep DEF PW!PutState, PW!Now, SaysWhat, PenStep, AtState
<1>3. Turned(t, <<>>)
  BY <1>2, OffTurns DEF PW!PutState
<1>4. /\ \A u \in Threads \ {t}, do \in PenHeads, j \in Ids, x \in PW!States :
           AtState(u, do, j, x)' = AtState(u, do, j, x)
      /\ \A do \in PenHeads, j \in Ids, x \in PW!States : ~AtState(t, do, j, x)'
  <2>1. \A k \in DOMAIN <<>> : <<>>[k].do \notin PenHeads
    OBVIOUS
  <2> QED BY <1>3, <2>1, HandEmpties
<1>5. \A do \in PenHeads, j \in Ids, x \in PW!States :
        AtState(t, do, j, x) <=> do = "put" /\ j = i /\ x = s
  BY <1>1, <1>2 DEF AtState
<1>6. /\ UNCHANGED <<desktop, made, bound, entries, hooked, lost>>
      /\ states' = [states EXCEPT ![i] = s] /\ states \in [Ids -> PW!States \cup {None}]
  BY <1>1, <1>2 DEF PW!PutState, PW!TypeOK
<1>7. StateOf(i, s) /\ states[i] \in {None, s}
  <2>1. StateOf(i, s)
    BY <1>2 DEF StateOf, PenHeads
  <2> QED BY <1>2, <2>1 DEF PenInv, HandsInv
<1>8. \A j \in Ids, x \in PW!States : StateOf(j, x)' => StateOf(j, x)
  <2>1. \A j \in Ids, x \in PW!States : states'[j] = x => states[j] = x \/ (j = i /\ x = s)
    BY <1>6
  <2> QED BY <1>4, <1>7, <2>1 DEF StateOf
<1>9. \A u \in Threads \ {t}, do \in PenHeads, j \in Ids, x \in PW!States :
        AtState(u, do, j, x) => j # i
  BY <1>1, <1>2, HandAlone
<1>10. HandsInv'
  <2>1. \A u \in Threads \ {t}, do \in PenHeads, j \in Ids, x \in PW!States :
          AtState(u, do, j, x) => states'[j] = states[j]
    BY <1>6, <1>9
  <2> QED BY <1>4, <2>1 DEF PenInv, HandsInv, PenHeads
<1>11. OwnersInv'
  BY <1>6, <1>8 DEF PenInv, OwnersInv
<1>12. BindingsInv'
  <2>1. ASSUME NEW x \in PW!States, x \notin lost, bound[x] # None, desktop \in {"windows", "macos"}
        PROVE  \E j \in Ids : /\ bound[x] \in NativesOf[j]
                              /\ \/ states'[j] = x
                                 \/ \E u \in Threads, do \in {"put", "detach"} : AtState(u, do, j, x)'
    <3>1. PICK j \in Ids : /\ bound[x] \in NativesOf[j]
                           /\ \/ states[j] = x
                              \/ \E u \in Threads, do \in {"put", "detach"} : AtState(u, do, j, x)
      BY <2>1 DEF PenInv, BindingsInv
    <3>2. CASE j = i
      <4>1. x = s
        <5>1. x # None
          BY PensAssumption DEF PW!PenWindowsAssumption, PW!States
        <5>2. CASE states[j] = x
          BY <1>7, <3>2, <5>1, <5>2
        <5>3. ASSUME NEW u \in Threads, NEW do \in {"put", "detach"}, AtState(u, do, j, x)
              PROVE  x = s
          <6>1. do \in PenHeads
            BY DEF PenHeads
          <6>2. u = t
            BY <1>9, <3>2, <5>3, <6>1
          <6> QED BY <1>5, <5>3, <6>1, <6>2
        <5> QED BY <3>1, <5>2, <5>3
      <4> QED BY <1>6, <3>1, <3>2, <4>1
    <3>3. CASE j # i
      <4>1. states'[j] = states[j]
        BY <1>6, <3>3
      <4>2. ASSUME NEW u \in Threads, NEW do \in {"put", "detach"}, AtState(u, do, j, x)
            PROVE  AtState(u, do, j, x)'
        <5>1. do \in PenHeads
          BY DEF PenHeads
        <5>2. u # t
          BY <1>5, <3>3, <4>2, <5>1
        <5> QED BY <1>4, <4>2, <5>1, <5>2
      <4> QED BY <3>1, <4>1, <4>2
    <3> QED BY <3>2, <3>3
  <2> QED BY <1>6, <2>1 DEF PenInv, BindingsInv
<1>13. EntriesInv'
  BY <1>6 DEF PenInv, EntriesInv
<1> QED BY <1>3, <1>10, <1>11, <1>12, <1>13 DEF PenInv

\* The publisher forgets a window, and detaches the state it had under it next.
LEMMA ForgetTurns ==
  ASSUME PW!TypeOK, TodoInv, NEW t \in Threads, PW!ForgetState(t)
  PROVE  LET e == todo[t][1] IN
         /\ todo[t] # <<>> /\ e.do = "forget" /\ e.listener = PW!Pen /\ e.id \in Ids
         /\ states' = [states EXCEPT ![e.id] = None]
         /\ states[e.id] = None => Turned(t, <<>>)
         /\ states[e.id] # None =>
              \E b : b.do = "detach" /\ b.id = e.id /\ b.state = states[e.id]
                     /\ b.back = None /\ Turned(t, <<b>>)
<1> DEFINE e == todo[t][1]
<1>1. todo[t] # <<>> /\ Head(todo[t]) = e /\ e.do = "forget" /\ e.listener = PW!Pen
      /\ e \in PenStep /\ SaysWhat(e) /\ Orderly(todo[t]) /\ todo[t] \in Seq(PenStep)
  BY FirstStep DEF PW!ForgetState, PW!Now
<1>2. e.id \in Ids
  BY <1>1 DEF PenStep, SaysWhat
<1>3. ASSUME states[e.id] = None PROVE Turned(t, <<>>)
  BY <1>1, <1>3, OffTurns DEF PW!ForgetState
<1>4. ASSUME states[e.id] # None
      PROVE  \E b : b.do = "detach" /\ b.id = e.id /\ b.state = states[e.id]
                    /\ b.back = None /\ Turned(t, <<b>>)
  <2>1. states[e.id] \in PW!States
    BY <1>2, <1>4 DEF PW!TypeOK
  <2>2. PICK b : b = PW!Detach(e.id, states[e.id])
    OBVIOUS
  <2>3. /\ b \in PenStep /\ b.do = "detach" /\ b.id = e.id /\ b.state = states[e.id]
        /\ b.listener = PW!Pen /\ b.back = None
    BY <1>2, <2>1, <2>2 DEF PW!Detach, PW!Step, PenStep, Listening
  <2>4. SaysWhat(b)
    BY <1>2, <2>1, <2>3, PensAssumption DEF SaysWhat, PW!PenWindowsAssumption
  <2>5. <<b>> \in Seq(PenStep) /\ Replaces(<<b>>, todo[t])
    BY <1>1, <2>3, <2>4, OneForOne
  <2>6. PW!Becomes(t, <<b>>)
    BY <1>1, <1>4, <2>2 DEF PW!ForgetState
  <2>7. Turned(t, <<b>>)
    BY <1>1, <2>5, <2>6, TodoBecomes DEF Turned
  <2> QED BY <2>3, <2>7
<1>5. states' = [states EXCEPT ![e.id] = None]
  BY <1>1 DEF PW!ForgetState
<1> QED BY <1>1, <1>2, <1>3, <1>4, <1>5

LEMMA ForgetKeeps ==
  ASSUME PW!TypeOK, TodoInv, PenInv, NEW t \in Threads, PW!ForgetState(t)
  PROVE  PenInv'
<1>1. PICK i, s : i = todo[t][1].id /\ s = states[i]
  OBVIOUS
<1>2. /\ todo[t] # <<>> /\ todo[t][1].do = "forget" /\ i \in Ids
      /\ states' = [states EXCEPT ![i] = None] /\ states \in [Ids -> PW!States \cup {None}]
      /\ UNCHANGED <<desktop, made, bound, entries, hooked, lost>>
  BY <1>1, ForgetTurns DEF PW!ForgetState, PW!TypeOK
<1>3. /\ \A u \in Threads \ {t}, do \in PenHeads, j \in Ids, x \in PW!States :
           AtState(u, do, j, x)' = AtState(u, do, j, x)
      /\ \A do \in PenHeads, j \in Ids, x \in PW!States :
           AtState(t, do, j, x)' <=> s # None /\ do = "detach" /\ j = i /\ x = s
  <2>1. CASE s = None
    <3>1. Turned(t, <<>>)
      BY <1>1, <2>1, ForgetTurns
    <3>2. \A k \in DOMAIN <<>> : <<>>[k].do \notin PenHeads
      OBVIOUS
    <3> QED BY <2>1, <3>1, <3>2, HandEmpties
  <2>2. CASE s # None
    <3>1. PICK b : b.do = "detach" /\ b.id = i /\ b.state = s /\ Turned(t, <<b>>)
      BY <1>1, <2>2, ForgetTurns
    <3> QED BY <2>2, <3>1, HandTurns
  <2> QED BY <2>1, <2>2
<1>4. \A do \in PenHeads, j \in Ids, x \in PW!States : ~AtState(t, do, j, x)
  BY <1>2 DEF AtState, PenHeads
<1>5. \A u \in Threads \ {t}, do \in PenHeads, x \in PW!States : ~AtState(u, do, i, x)
  BY <1>1, <1>2, HandAlone
<1>6. \A j \in Ids, x \in PW!States : states'[j] = x => states[j] = x /\ j # i
  BY <1>2, PensAssumption DEF PW!PenWindowsAssumption, PW!States
<1>7. \A j \in Ids, x \in PW!States : StateOf(j, x)' => StateOf(j, x)
  BY <1>1, <1>3, <1>6 DEF StateOf
<1>8. HandsInv'
  <2>1. \A u \in Threads \ {t}, do \in PenHeads, j \in Ids, x \in PW!States :
          AtState(u, do, j, x) => states'[j] = states[j]
    BY <1>2, <1>5
  <2>2. \A j \in Ids, x \in PW!States : AtState(t, "detach", j, x)' => states'[j] = None
    BY <1>2, <1>3 DEF PenHeads
  <2> QED BY <1>3, <2>1, <2>2 DEF PenInv, HandsInv, PenHeads
<1>9. OwnersInv'
  BY <1>2, <1>7 DEF PenInv, OwnersInv
<1>10. BindingsInv'
  <2>1. ASSUME NEW x \in PW!States, x \notin lost, bound[x] # None, desktop \in {"windows", "macos"}
        PROVE  \E j \in Ids : /\ bound[x] \in NativesOf[j]
                              /\ \/ states'[j] = x
                                 \/ \E u \in Threads, do \in {"put", "detach"} : AtState(u, do, j, x)'
    <3>1. PICK j \in Ids : /\ bound[x] \in NativesOf[j]
                           /\ \/ states[j] = x
                              \/ \E u \in Threads, do \in {"put", "detach"} : AtState(u, do, j, x)
      BY <2>1 DEF PenInv, BindingsInv
    <3>2. ASSUME NEW u \in Threads, NEW do \in {"put", "detach"}, AtState(u, do, j, x)
          PROVE  AtState(u, do, j, x)'
      <4>1. do \in PenHeads
        BY DEF PenHeads
      <4> QED BY <1>3, <1>4, <3>2, <4>1
    <3>3. CASE states[j] = x /\ j = i
      <4>1. x # None
        BY PensAssumption DEF PW!PenWindowsAssumption, PW!States
      <4>2. AtState(t, "detach", j, x)'
        BY <1>1, <1>3, <3>3, <4>1 DEF PenHeads
      <4> QED BY <3>1, <4>2
    <3>4. CASE states[j] = x /\ j # i
      BY <1>2, <3>1, <3>4
    <3> QED BY <3>1, <3>2, <3>3, <3>4
  <2> QED BY <1>2, <2>1 DEF PenInv, BindingsInv
<1>11. EntriesInv'
  BY <1>2 DEF PenInv, EntriesInv
<1> QED BY <1>8, <1>9, <1>10, <1>11 DEF PenInv

\* A state that is under no id any more is detached, and nothing that others have
\* is bound to its window.
LEMMA DetachTurns ==
  ASSUME PW!TypeOK, TodoInv, PenInv, NEW t \in Threads, PW!DetachState(t)
  PROVE  LET e == todo[t][1] IN
         /\ e.do = "detach" /\ e.id \in Ids /\ e.state \in PW!States
         /\ todo[t] # <<>> /\ AtState(t, "detach", e.id, e.state) /\ Turned(t, <<>>)
         /\ UNCHANGED <<desktop, states, made, lost>>
         /\ \/ /\ desktop \notin {"windows", "macos"} \/ bound[e.state] = None
               /\ UNCHANGED <<entries, hooked, bound>>
            \/ /\ desktop \in {"windows", "macos"}
               /\ bound[e.state] # None /\ PW!Unbind(bound[e.state])
               /\ hooked \ {bound[e.state]} \subseteq hooked'
               /\ bound' = [bound EXCEPT ![e.state] = None]
<1> DEFINE e == todo[t][1]
<1>1. todo[t] # <<>> /\ Head(todo[t]) = e /\ e.do = "detach" /\ e \in PenStep /\ SaysWhat(e)
  BY FirstStep DEF PW!DetachState, PW!Now
<1>2. e.id \in Ids /\ e.state \in PW!States
  BY <1>1 DEF PenStep, SaysWhat
<1>3. Turned(t, <<>>)
  BY <1>1, OffTurns DEF PW!DetachState
<1>4. AtState(t, "detach", e.id, e.state)
  BY <1>1 DEF AtState
<1>5. UNCHANGED <<desktop, states, made, lost>>
  BY DEF PW!DetachState
<1>6. \/ /\ desktop \notin {"windows", "macos"} \/ bound[e.state] = None
         /\ UNCHANGED <<entries, hooked, bound>>
      \/ /\ desktop \in {"windows", "macos"}
         /\ bound[e.state] # None /\ PW!Unbind(bound[e.state])
         /\ hooked \ {bound[e.state]} \subseteq hooked'
         /\ bound' = [bound EXCEPT ![e.state] = None]
  BY <1>1 DEF PW!DetachState, PW!detach_hwnd, PW!detach_view
<1> QED BY <1>1, <1>2, <1>3, <1>4, <1>5, <1>6

LEMMA DetachKeeps ==
  ASSUME PW!TypeOK, TodoInv, PenInv, NEW t \in Threads, PW!DetachState(t)
  PROVE  PenInv'
<1>1. PICK i, s, n : i = todo[t][1].id /\ s = todo[t][1].state /\ n = bound[s]
  OBVIOUS
<1>2. /\ todo[t][1].do = "detach" /\ i \in Ids /\ s \in PW!States
      /\ todo[t] # <<>> /\ AtState(t, "detach", i, s) /\ Turned(t, <<>>)
      /\ UNCHANGED <<desktop, states, made, lost>>
      /\ \/ /\ desktop \notin {"windows", "macos"} \/ n = None
            /\ UNCHANGED <<entries, hooked, bound>>
         \/ /\ desktop \in {"windows", "macos"} /\ n # None /\ PW!Unbind(n)
            /\ hooked \ {n} \subseteq hooked' /\ bound' = [bound EXCEPT ![s] = None]
  BY <1>1, DetachTurns
<1>3. /\ \A u \in Threads \ {t}, do \in PenHeads, j \in Ids, x \in PW!States :
           AtState(u, do, j, x)' = AtState(u, do, j, x)
      /\ \A do \in PenHeads, j \in Ids, x \in PW!States : ~AtState(t, do, j, x)'
  <2>1. \A k \in DOMAIN <<>> : <<>>[k].do \notin PenHeads
    OBVIOUS
  <2> QED BY <1>2, <2>1, HandEmpties
<1>4. \A do \in PenHeads, j \in Ids, x \in PW!States :
        AtState(t, do, j, x) <=> do = "detach" /\ j = i /\ x = s
  BY <1>1, <1>2 DEF AtState
<1>5. bound \in [PW!States -> PW!Natives \cup {None}] /\ entries \in Seq(PW!Natives \X PW!States)
  BY DEF PW!TypeOK
<1>6. StateOf(i, s) /\ states[i] = None
  <2>1. StateOf(i, s)
    BY <1>2 DEF StateOf, PenHeads
  <2> QED BY <1>2, <2>1 DEF PenInv, HandsInv
<1>7. \A j \in Ids, x \in PW!States : StateOf(j, x)' => StateOf(j, x)
  BY <1>2, <1>3 DEF StateOf
<1>8. HandsInv'
  BY <1>2, <1>3 DEF PenInv, HandsInv, PenHeads
<1>9. \A x \in PW!States : bound'[x] = bound[x] \/ (x = s /\ bound'[x] = None)
  BY <1>2, <1>5
<1>10. OwnersInv'
  BY <1>2, <1>7, <1>9 DEF PenInv, OwnersInv
<1>11. ASSUME NEW x \in PW!States, x # s, x \notin lost, bound[x] # None,
              desktop \in {"windows", "macos"}
       PROVE  \E j \in Ids : /\ bound[x] \in NativesOf[j]
                             /\ \/ states[j] = x
                                \/ \E u \in Threads, do \in {"put", "detach"} :
                                     u # t /\ AtState(u, do, j, x) /\ AtState(u, do, j, x)'
  <2>1. PICK j \in Ids : /\ bound[x] \in NativesOf[j]
                         /\ \/ states[j] = x
                            \/ \E u \in Threads, do \in {"put", "detach"} : AtState(u, do, j, x)
    BY <1>11 DEF PenInv, BindingsInv
  <2>2. ASSUME NEW u \in Threads, NEW do \in {"put", "detach"}, AtState(u, do, j, x)
        PROVE  u # t /\ AtState(u, do, j, x)'
    <3>1. do \in PenHeads
      BY DEF PenHeads
    <3>2. u # t
      BY <1>4, <1>11, <2>2, <3>1
    <3> QED BY <1>3, <2>2, <3>1, <3>2
  <2> QED BY <2>1, <2>2
<1>12. ASSUME NEW x \in PW!States, x # s, x \notin lost, bound[x] # None, n # None,
              desktop \in {"windows", "macos"}
       PROVE  bound[x] # n
  <2>1. SUFFICES ASSUME bound[x] = n PROVE FALSE
    OBVIOUS
  <2>2. PICK j \in Ids : /\ bound[x] \in NativesOf[j]
                         /\ \/ states[j] = x
                            \/ \E u \in Threads, do \in {"put", "detach"} :
                                 u # t /\ AtState(u, do, j, x) /\ AtState(u, do, j, x)'
    BY <1>11, <1>12
  <2>3. n \in NativesOf[i]
    BY <1>1, <1>2, <1>6, <1>12 DEF PenInv, OwnersInv
  <2>4. j = i
    BY <1>2, <2>1, <2>2, <2>3, PensAssumption DEF PW!PenWindowsAssumption
  <2>5. states[i] # x
    BY <1>6, PensAssumption DEF PW!PenWindowsAssumption, PW!States
  <2>6. PICK u \in Threads, do \in {"put", "detach"} : u # t /\ AtState(u, do, i, x)
    BY <2>2, <2>4, <2>5
  <2> QED BY <1>1, <1>2, <2>6, HandAlone DEF PenHeads
<1>13. CASE /\ desktop \notin {"windows", "macos"} \/ n = None
            /\ UNCHANGED <<entries, hooked, bound>>
  <2>1. BindingsInv'
    <3>1. ASSUME NEW x \in PW!States, x \notin lost, bound[x] # None,
                 desktop \in {"windows", "macos"}
          PROVE  \E j \in Ids : /\ bound[x] \in NativesOf[j]
                                /\ \/ states[j] = x
                                   \/ \E u \in Threads, do \in {"put", "detach"} :
                                        AtState(u, do, j, x)'
      <4>1. CASE x # s
        BY <1>11, <3>1, <4>1
      <4>2. CASE x = s
        BY <1>1, <1>13, <3>1, <4>2
      <4> QED BY <4>1, <4>2
    <3> QED BY <1>2, <1>13, <3>1 DEF PenInv, BindingsInv
  <2>2. EntriesInv'
    BY <1>2, <1>13 DEF PenInv, EntriesInv
  <2> QED BY <1>8, <1>10, <2>1, <2>2 DEF PenInv
<1>14. CASE /\ desktop \in {"windows", "macos"} /\ n # None /\ PW!Unbind(n)
            /\ hooked \ {n} \subseteq hooked' /\ bound' = [bound EXCEPT ![s] = None]
  <2>1. /\ \A k \in DOMAIN entries' : \E j \in DOMAIN entries :
             entries'[k] = entries[j] /\ entries[j][1] # n
        /\ \A j \in DOMAIN entries : entries[j][1] # n =>
             \E k \in DOMAIN entries' : entries'[k] = entries[j]
    BY <1>5, <1>14, Retains
  <2>2. BindingsInv'
    <3>1. ASSUME NEW x \in PW!States, x \notin lost, bound'[x] # None
          PROVE  /\ x \in 1..made
                 /\ \E j \in Ids : /\ bound'[x] \in NativesOf[j]
                                   /\ \/ states[j] = x
                                      \/ \E u \in Threads, do \in {"put", "detach"} :
                                           AtState(u, do, j, x)'
                 /\ \E k \in DOMAIN entries' : entries'[k] = <<bound'[x], x>>
                 /\ desktop = "windows" => bound'[x] \in hooked'
      <4>1. x # s /\ bound'[x] = bound[x]
        BY <1>5, <1>14, <3>1
      <4>2. bound[x] # n
        BY <1>12, <1>14, <3>1, <4>1
      <4>3. \E k \in DOMAIN entries : entries[k] = <<bound[x], x>>
        BY <3>1, <4>1 DEF PenInv, BindingsInv
      <4>4. \E k \in DOMAIN entries' : entries'[k] = <<bound'[x], x>>
        BY <2>1, <4>1, <4>2, <4>3
      <4>5. x \in 1..made /\ (desktop = "windows" => bound[x] \in hooked)
        BY <3>1, <4>1 DEF PenInv, BindingsInv
      <4> QED BY <1>11, <1>14, <3>1, <4>1, <4>2, <4>4, <4>5
    <3> QED BY <1>2, <3>1 DEF BindingsInv
  <2>3. EntriesInv'
    <3>1. ASSUME NEW k \in DOMAIN entries'
          PROVE  /\ entries'[k][2] \in 1..made
                 /\ entries'[k][2] \notin lost => bound'[entries'[k][2]] = entries'[k][1]
      <4>1. PICK j \in DOMAIN entries : entries'[k] = entries[j] /\ entries[j][1] # n
        BY <2>1
      <4>2. entries[j] \in PW!Natives \X PW!States
        BY <1>5
      <4>3. entries[j][2] \in 1..made
            /\ (entries[j][2] \notin lost => bound[entries[j][2]] = entries[j][1])
        BY DEF PenInv, EntriesInv
      <4>4. entries[j][2] \notin lost => entries[j][2] # s
        BY <1>1, <4>1, <4>3
      <4>5. entries[j][2] \in PW!States
        BY <4>2
      <4> QED BY <1>9, <4>1, <4>3, <4>4, <4>5
    <3>2. \A x \in PW!States : x \notin 1..made => bound'[x] = None
      BY <1>9 DEF PenInv, EntriesInv
    <3> QED BY <1>2, <3>1, <3>2 DEF PenInv, EntriesInv
  <2> QED BY <1>8, <1>10, <2>2, <2>3 DEF PenInv
<1> QED BY <1>2, <1>13, <1>14

\* A state is made for an id on its own; what was bound under it is lost.
LEMMA RegisterKeeps ==
  ASSUME PW!TypeOK, TodoInv, PenInv, ~Overlap, NEW t \in Threads, NEW i \in Ids,
         PW!register_window_id(t, i)
  PROVE  TodoInv' /\ PenInv' /\ UNCHANGED todo
<1>1. /\ made < MaxStates /\ PW!Begin(t, <<>>, {i}) /\ made' = made + 1
      /\ states' = [states EXCEPT ![i] = made + 1]
      /\ lost' = IF states[i] = None \/ bound[states[i]] = None THEN lost ELSE lost \cup {states[i]}
      /\ UNCHANGED <<desktop, bound, entries, hooked>>
  BY DEF PW!register_window_id
<1>2. UNCHANGED todo
  <2>1. todo[t] = <<>> /\ todo' = [todo EXCEPT ![t] = <<>>] /\ todo \in [Threads -> Seq(PenStep)]
    BY <1>1 DEF PW!Begin, TodoInv
  <2> QED BY <2>1
<1>3. TodoInv'
  BY <1>2 DEF TodoInv, Apart
<1>4. \A u \in Threads, do \in PenHeads, x \in PW!States : ~AtState(u, do, i, x)
  <2>1. \A u \in Threads : todo[u] # <<>> => 1 \in DOMAIN todo[u]
    BY FirstStep
  <2>2. \A u \in Threads : ~PW!Touches(u, i)
    BY <1>1 DEF PW!Begin
  <2> QED BY <2>1, <2>2 DEF AtState, PW!Touches
<1>5. \A u \in Threads, do \in PenHeads, j \in Ids, x \in PW!States :
        AtState(u, do, j, x)' = AtState(u, do, j, x)
  BY <1>2 DEF AtState
<1>6. made \in Nat /\ MaxStates \in Nat /\ made + 1 \in PW!States /\ made' \in Nat
      /\ states \in [Ids -> PW!States \cup {None}] /\ None \notin PW!States
      /\ \A x \in 1..made : x \in 1..made' /\ x # made + 1
  BY <1>1, PensAssumption DEF PW!TypeOK, PW!PenWindowsAssumption, PW!States
<1>7. ASSUME NEW j \in Ids, NEW x \in PW!States, StateOf(j, x)'
      PROVE  StateOf(j, x) \/ (j = i /\ x = made + 1)
  BY <1>1, <1>5, <1>6, <1>7 DEF StateOf
<1>8. HandsInv'
  <2>1. ASSUME NEW u \in Threads, NEW do \in PenHeads, NEW j \in Ids, NEW x \in PW!States,
               AtState(u, do, j, x)
        PROVE  states'[j] = states[j]
    BY <1>1, <1>4, <1>6, <2>1
  <2> QED BY <1>5, <2>1 DEF PenInv, HandsInv, PenHeads
<1>9. \A j \in Ids : ~StateOf(j, made + 1)
  BY <1>6 DEF PenInv, OwnersInv
<1>10. OwnersInv'
  <2>1. bound[made + 1] = None
    BY <1>6 DEF PenInv, EntriesInv
  <2>2. made + 1 \in 1..made'
    BY <1>1, <1>6
  <2>3. ASSUME NEW j \in Ids, NEW x \in PW!States, StateOf(j, x)'
        PROVE  /\ x \in 1..made' /\ bound[x] \in NativesOf[j] \cup {None}
               /\ \A l \in Ids : StateOf(l, x)' => j = l
    <3>1. CASE x = made + 1
      BY <1>7, <1>9, <2>1, <2>2, <2>3, <3>1
    <3>2. CASE x # made + 1
      BY <1>6, <1>7, <2>3, <3>2 DEF PenInv, OwnersInv
    <3> QED BY <3>1, <3>2
  <2> QED BY <1>1, <2>3 DEF OwnersInv
<1>11. BindingsInv'
  <2>1. ASSUME NEW x \in PW!States, x \notin lost', bound[x] # None, desktop \in {"windows", "macos"}
        PROVE  \E j \in Ids : /\ bound[x] \in NativesOf[j]
                              /\ \/ states'[j] = x
                                 \/ \E u \in Threads, do \in {"put", "detach"} :
                                      AtState(u, do, j, x)'
    <3>1. x \notin lost
      BY <1>1, <2>1
    <3>2. PICK j \in Ids : /\ bound[x] \in NativesOf[j]
                           /\ \/ states[j] = x
                              \/ \E u \in Threads, do \in {"put", "detach"} : AtState(u, do, j, x)
      BY <2>1, <3>1 DEF PenInv, BindingsInv
    <3>3. ASSUME states[j] = x PROVE states'[j] = x
      <4>1. j # i
        BY <1>1, <1>6, <2>1, <3>3
      <4> QED BY <1>1, <1>6, <3>3, <4>1
    <3>4. ASSUME NEW u \in Threads, NEW do \in {"put", "detach"}, AtState(u, do, j, x)
          PROVE  AtState(u, do, j, x)'
      BY <1>5, <3>4 DEF PenHeads
    <3> QED BY <3>2, <3>3, <3>4
  <2>2. \A x \in PW!States : x \notin lost' => x \notin lost
    BY <1>1
  <2> QED BY <1>1, <1>6, <2>1, <2>2 DEF PenInv, BindingsInv
<1>12. EntriesInv'
  <2>1. ASSUME states[i] # None PROVE states[i] \in 1..made
    <3>1. states[i] \in PW!States /\ StateOf(i, states[i])
      BY <1>6, <2>1 DEF StateOf
    <3> QED BY <3>1 DEF PenInv, OwnersInv
  <2>2. lost' \subseteq 1..made'
    BY <1>1, <1>6, <2>1 DEF PenInv, EntriesInv
  <2>3. /\ \A x \in PW!States : x \notin 1..made' => bound'[x] = None
        /\ \A k \in DOMAIN entries' :
             /\ entries'[k][2] \in 1..made'
             /\ entries'[k][2] \notin lost' => bound'[entries'[k][2]] = entries'[k][1]
    BY <1>1, <1>6 DEF PenInv, EntriesInv
  <2> QED BY <2>2, <2>3 DEF EntriesInv
<1> QED BY <1>2, <1>3, <1>8, <1>10, <1>11, <1>12 DEF PenInv
-----------------------------------------------------------------------------
(* The registry and those who listen to it.                                *)

\* A state may be under the id of a window: it is bound to that or to nothing,
\* or it was lost.
Suits(s, n) == s \in lost \/ bound[s] \in {n, None}
IdSuits(i, n) == states[i] = None \/ Suits(states[i], n)

\* Who refuses has the other listener forget the window, or only drops out.
Backed(e) == e.back = None \/ PW!Other \in PW!Range(e.back)

\* The window is inserted after the k-th step, or the other listener is told to
\* forget it.
BringsIn(q, k) ==
  \E m \in DOMAIN q : /\ m > k /\ q[m].do = "insert" /\ q[m].id = q[k].id
                      /\ \A j \in DOMAIN q : k < j /\ j < m => Backed(q[j])

\* The window that is inserted suits the state of its id, unless the pen still has
\* to answer.
InsertInv(q) ==
  \A k \in DOMAIN q : q[k].do = "insert" =>
    /\ \A j \in DOMAIN q : j < k /\ q[j].do = "put" => Suits(q[j].state, q[k].native)
    /\ PW!Pen \in PW!Range(listeners) =>
         \/ IdSuits(q[k].id, q[k].native)
         \/ \E j \in DOMAIN q : j < k /\ q[j].listener = PW!Pen

\* What is offered is the window that is registered, or none is.
OfferOk(q, k) ==
  LET e == q[k] IN
    /\ e.do = "offerAll" => windows[e.id] = None \/ q[1].do = "remove"
    /\ e.do \in {"offer", "bind"} => windows[e.id] \in {None, e.native}
    /\ e.do = "put" => windows[e.id] = None \/ Suits(e.state, windows[e.id])
    /\ e.do \in {"offer", "bind"} /\ e.back # None =>
         windows[e.id] = None /\ \E m \in DOMAIN q : m > k /\ q[m].do = "insert"
    /\ e.do \in {"offer", "replay"} /\ e.listener = PW!Other => PW!Other \in PW!Range(listeners)
    /\ e.do = "offer" /\ e.listener = PW!Other => windows[e.id] # None \/ BringsIn(q, k)

OfferInv(q) == \A k \in DOMAIN q : OfferOk(q, k)

ListInv(q) == InsertInv(q) /\ OfferInv(q)

\* The window will be inserted or the other listener told to forget it.
Awaits(i, q) ==
  \E k \in DOMAIN q :
    /\ q[k].id = i
    /\ \/ q[k].do = "forget" /\ q[k].listener = PW!Other
       \/ q[k].do = "insert" /\ \A j \in DOMAIN q : j < k => Backed(q[j])

\* What the other listener knows is registered, or is about to be or to be forgotten.
KnownInv ==
  /\ known # {} => PW!Other \in PW!Range(listeners)
  /\ \A i \in known : windows[i] # None \/ \E t \in Threads : Awaits(i, todo[t])

\* The pen has still to answer for a window.
Answers(i, q) ==
  \E k \in DOMAIN q : /\ q[k].do \in {"replay", "offer", "bind", "put"}
                      /\ q[k].listener = PW!Pen /\ q[k].id \in {i, None}

\* Where the pen listens, the window of an id suits its state.
FollowInv ==
  \A i \in Ids : windows[i] # None /\ PW!Pen \in PW!Range(listeners) =>
    IdSuits(i, windows[i]) \/ \E t \in Threads : Answers(i, todo[t])

RegInv == (\A t \in Threads : ListInv(todo[t])) /\ KnownInv /\ FollowInv

\* What is done for one id leaves the others alone.
Local(i) ==
  /\ listeners' = listeners /\ lost \subseteq lost'
  /\ \A j \in Ids \ {i} : windows'[j] = windows[j] /\ states'[j] = states[j]
  /\ \A x \in PW!States : bound'[x] \in {bound[x], None} \/ StateOf(i, x)

LEMMA SuitsStay ==
  ASSUME PW!TypeOK, PenInv, NEW i \in Ids, Local(i), NEW j \in Ids \ {i}, NEW n
  PROVE  /\ IdSuits(j, n) => IdSuits(j, n)'
         /\ \A x \in PW!States : StateOf(j, x) /\ Suits(x, n) => Suits(x, n)'
<1>1. ASSUME NEW x \in PW!States, StateOf(j, x), Suits(x, n) PROVE Suits(x, n)'
  <2>1. ~StateOf(i, x)
    BY <1>1 DEF PenInv, OwnersInv
  <2> QED BY <1>1, <2>1 DEF Local, Suits
<1>2. ASSUME IdSuits(j, n) PROVE IdSuits(j, n)'
  <2>1. CASE states[j] = None
    BY <2>1 DEF Local, IdSuits
  <2>2. CASE states[j] # None
    <3>1. states[j] \in PW!States /\ states'[j] = states[j]
      BY <2>2 DEF PW!TypeOK, Local
    <3>2. StateOf(j, states[j])
      BY <3>1 DEF StateOf
    <3>3. PICK x \in PW!States : x = states[j]
      BY <3>1
    <3>4. Suits(x, n)'
      BY <1>1, <1>2, <2>2, <3>2, <3>3 DEF IdSuits
    <3> QED BY <3>1, <3>3, <3>4 DEF IdSuits, Suits
  <2> QED BY <2>1, <2>2
<1> QED BY <1>1, <1>2

\* ... such as the lists that are not about it.
LEMMA ListElsewhere ==
  ASSUME PW!TypeOK, TodoInv, PenInv, NEW i \in Ids, Local(i),
         NEW u \in Threads, todo'[u] = todo[u], ListInv(todo[u]),
         \A k \in DOMAIN todo[u] : todo[u][k].id # i
  PROVE  ListInv(todo[u])'
<1>1. PICK q : q = todo[u]
  OBVIOUS
<1>2. /\ q \in Seq(PenStep) /\ Orderly(q)
      /\ \A k \in DOMAIN q : q[k].id # i /\ q[k] \in PenStep /\ SaysWhat(q[k])
  <2>1. q \in Seq(PenStep) /\ Orderly(q)
    BY <1>1 DEF TodoInv
  <2> QED BY <1>1, <2>1 DEF Orderly
<1>3. \A k \in DOMAIN q : q[k].do # "replay" => q[k].id \in Ids \ {i}
  BY <1>2 DEF SaysWhat, PenStep
<1>4. \A k \in DOMAIN q : q[k].do # "replay" => windows'[q[k].id] = windows[q[k].id]
  BY <1>3 DEF Local
<1>5. ASSUME NEW k \in DOMAIN q, q[k].do = "put"
      PROVE  /\ q[k].id \in Ids \ {i} /\ q[k].state \in PW!States
             /\ StateOf(q[k].id, q[k].state)
  <2>1. k = 1
    BY <1>2, <1>5 DEF Orderly, InPlace
  <2>2. AtState(u, "put", q[k].id, q[k].state)
    BY <1>1, <1>5, <2>1 DEF AtState
  <2>3. StateOf(q[k].id, q[k].state)
    BY <2>2 DEF StateOf, PenHeads
  <2> QED BY <1>2, <1>3, <1>5, <2>3 DEF SaysWhat
<1>6. InsertInv(q)'
  <2> SUFFICES ASSUME NEW k \in DOMAIN q, q[k].do = "insert"
               PROVE  /\ \A j \in DOMAIN q : j < k /\ q[j].do = "put" =>
                           Suits(q[j].state, q[k].native)'
                      /\ PW!Pen \in PW!Range(listeners)' =>
                           \/ IdSuits(q[k].id, q[k].native)'
                           \/ \E j \in DOMAIN q : j < k /\ q[j].listener = PW!Pen
    BY DEF InsertInv
  <2>1. /\ \A j \in DOMAIN q : j < k /\ q[j].do = "put" => Suits(q[j].state, q[k].native)
        /\ PW!Pen \in PW!Range(listeners) =>
             \/ IdSuits(q[k].id, q[k].native)
             \/ \E j \in DOMAIN q : j < k /\ q[j].listener = PW!Pen
    BY <1>1 DEF ListInv, InsertInv
  <2>2. ASSUME NEW j \in DOMAIN q, j < k, q[j].do = "put"
        PROVE  Suits(q[j].state, q[k].native)'
    BY <1>5, <2>1, <2>2, SuitsStay
  <2>3. PICK n, h : n = q[k].native /\ h = q[k].id
    OBVIOUS
  <2>4. IdSuits(h, n) => IdSuits(h, n)'
    BY <1>3, <2>3, SuitsStay
  <2>5. PW!Range(listeners)' = PW!Range(listeners)
    BY DEF Local
  <2> QED BY <2>1, <2>2, <2>3, <2>4, <2>5
<1>7. OfferInv(q)'
  <2> SUFFICES ASSUME NEW k \in DOMAIN q
               PROVE  LET e == q[k] IN
                 /\ e.do = "offerAll" => windows'[e.id] = None \/ q[1].do = "remove"
                 /\ e.do \in {"offer", "bind"} => windows'[e.id] \in {None, e.native}
                 /\ e.do = "put" => windows'[e.id] = None \/ Suits(e.state, windows[e.id])'
                 /\ e.do \in {"offer", "bind"} /\ e.back # None =>
                      windows'[e.id] = None /\ \E m \in DOMAIN q : m > k /\ q[m].do = "insert"
                 /\ e.do \in {"offer", "replay"} /\ e.listener = PW!Other =>
                      PW!Other \in PW!Range(listeners)'
                 /\ e.do = "offer" /\ e.listener = PW!Other =>
                      windows'[e.id] # None \/ BringsIn(q, k)
    BY DEF OfferInv, OfferOk, BringsIn, Backed
  <2>1. PICK e : e = q[k]
    OBVIOUS
  <2>2. /\ e.do = "offerAll" => windows[e.id] = None \/ q[1].do = "remove"
        /\ e.do \in {"offer", "bind"} => windows[e.id] \in {None, e.native}
        /\ e.do = "put" => windows[e.id] = None \/ Suits(e.state, windows[e.id])
        /\ e.do \in {"offer", "bind"} /\ e.back # None =>
             windows[e.id] = None /\ \E m \in DOMAIN q : m > k /\ q[m].do = "insert"
        /\ e.do \in {"offer", "replay"} /\ e.listener = PW!Other =>
             PW!Other \in PW!Range(listeners)
        /\ e.do = "offer" /\ e.listener = PW!Other => windows[e.id] # None \/ BringsIn(q, k)
    BY <1>1, <2>1 DEF ListInv, OfferInv, OfferOk
  <2>3. PW!Range(listeners)' = PW!Range(listeners)
    BY DEF Local
  <2>4. e.do # "replay" => windows'[e.id] = windows[e.id]
    BY <1>4, <2>1
  <2>5. ASSUME e.do = "put", windows'[e.id] # None PROVE Suits(e.state, windows[e.id])'
    <3>1. PICK n : n = windows[e.id]
      OBVIOUS
    <3>2. Suits(e.state, n)
      BY <2>2, <2>4, <2>5, <3>1
    <3>3. Suits(e.state, n)'
      BY <1>5, <2>1, <2>5, <3>2, SuitsStay
    <3>4. windows'[e.id] = n
      BY <2>4, <2>5, <3>1
    <3> QED BY <3>3, <3>4 DEF Suits
  <2> QED BY <2>1, <2>2, <2>3, <2>4, <2>5
<1> QED BY <1>1, <1>6, <1>7 DEF ListInv, InsertInv, OfferInv, OfferOk, BringsIn, Backed

\* What a list holds after its first step it holds once that is replaced.
LEMMA AwaitsStays ==
  ASSUME NEW q \in Seq(PenStep), q # <<>>, NEW new \in Seq(PenStep), NEW r, Moved(q, new, r),
         NEW i, Awaits(i, q),
         \A k \in DOMAIN new : Backed(q[1]) => Backed(new[k]),
         q[1].do = "insert" => q[1].id # i,
         q[1].do = "forget" => q[1].id # i \/ q[1].listener # PW!Other
  PROVE  Awaits(i, r)
<1>1. PICK k \in DOMAIN q :
        /\ q[k].id = i
        /\ \/ q[k].do = "forget" /\ q[k].listener = PW!Other
           \/ q[k].do = "insert" /\ \A j \in DOMAIN q : j < k => Backed(q[j])
  BY DEF Awaits
<1>2. k > 1 /\ Len(new) \in Nat /\ DOMAIN new = 1..Len(new)
  BY <1>1
<1>3. k - 1 + Len(new) \in DOMAIN r /\ r[k - 1 + Len(new)] = q[k]
  BY <1>2 DEF Moved
<1>4. ASSUME \A j \in DOMAIN q : j < k => Backed(q[j]),
             NEW l \in DOMAIN r, l < k - 1 + Len(new)
      PROVE  Backed(r[l])
  <2>1. CASE l \in DOMAIN new
    <3>1. 1 \in DOMAIN q /\ 1 < k
      BY <1>2
    <3> QED BY <1>4, <2>1, <3>1 DEF Moved
  <2>2. ASSUME NEW j \in DOMAIN q, j > 1, l = j - 1 + Len(new) PROVE Backed(r[l])
    <3>1. j < k /\ r[l] = q[j]
      BY <1>2, <1>4, <2>2 DEF Moved
    <3> QED BY <1>4, <3>1
  <2> QED BY <2>1, <2>2 DEF Moved
<1> QED BY <1>1, <1>3, <1>4 DEF Awaits

LEMMA AnswersStays ==
  ASSUME NEW q \in Seq(PenStep), q # <<>>, NEW new \in Seq(PenStep), NEW r, Moved(q, new, r),
         NEW i, Answers(i, q),
         \/ q[1].do \notin {"replay", "offer", "bind", "put"}
         \/ q[1].listener # PW!Pen \/ q[1].id \notin {i, None}
  PROVE  Answers(i, r)
<1>1. PICK k \in DOMAIN q : /\ q[k].do \in {"replay", "offer", "bind", "put"}
                            /\ q[k].listener = PW!Pen /\ q[k].id \in {i, None}
  BY DEF Answers
<1>2. k > 1
  BY <1>1
<1>3. k - 1 + Len(new) \in DOMAIN r /\ r[k - 1 + Len(new)] = q[k]
  BY <1>2 DEF Moved
<1> QED BY <1>1, <1>3 DEF Answers

LEMMA BringsInStays ==
  ASSUME NEW q \in Seq(PenStep), q # <<>>, NEW new \in Seq(PenStep), NEW r, Moved(q, new, r),
         NEW k \in DOMAIN q, k > 1, BringsIn(q, k)
  PROVE  BringsIn(r, k - 1 + Len(new))
<1>1. PICK m \in DOMAIN q : /\ m > k /\ q[m].do = "insert" /\ q[m].id = q[k].id
                            /\ \A j \in DOMAIN q : k < j /\ j < m => Backed(q[j])
  BY DEF BringsIn
<1>2. Len(new) \in Nat /\ DOMAIN new = 1..Len(new)
  OBVIOUS
<1>3. /\ m - 1 + Len(new) \in DOMAIN r /\ r[m - 1 + Len(new)] = q[m]
      /\ r[k - 1 + Len(new)] = q[k]
  BY <1>1 DEF Moved
<1>4. ASSUME NEW l \in DOMAIN r, k - 1 + Len(new) < l, l < m - 1 + Len(new)
      PROVE  Backed(r[l])
  <2>1. l \notin DOMAIN new
    BY <1>2, <1>4
  <2>2. PICK j \in DOMAIN q : j > 1 /\ l = j - 1 + Len(new)
    BY <2>1 DEF Moved
  <2>3. k < j /\ j < m
    BY <1>2, <1>4, <2>2
  <2>4. r[l] = q[j]
    BY <2>2 DEF Moved
  <2> QED BY <1>1, <2>3, <2>4
<1>5. m - 1 + Len(new) > k - 1 + Len(new)
  BY <1>1, <1>2
<1> QED BY <1>1, <1>3, <1>4, <1>5 DEF BringsIn

LEMMA InsertStays ==
  ASSUME NEW q \in Seq(PenStep), q # <<>>, Orderly(q), NEW new \in Seq(PenStep), NEW r, Moved(q, new, r),
         InsertInv(q), UNCHANGED listeners,
         \A j \in DOMAIN new : new[j].do # "insert",
         \A k \in DOMAIN q : k > 1 /\ q[k].do = "insert" =>
           /\ \A j \in DOMAIN new : new[j].do = "put" => Suits(new[j].state, q[k].native)'
           /\ IdSuits(q[k].id, q[k].native) \/ q[1].listener = PW!Pen =>
                IdSuits(q[k].id, q[k].native)' \/ \E j \in DOMAIN new : new[j].listener = PW!Pen
  PROVE  InsertInv(r)'
<1>0. /\ Len(new) \in Nat /\ DOMAIN new = 1..Len(new)
      /\ \A l \in DOMAIN new : l \in DOMAIN r /\ r[l] = new[l]
      /\ \A h \in DOMAIN q : h > 1 =>
           h - 1 + Len(new) \in DOMAIN r /\ r[h - 1 + Len(new)] = q[h]
      /\ \A l \in DOMAIN r : l \in DOMAIN new \/ \E h \in DOMAIN q : h > 1 /\ l = h - 1 + Len(new)
  BY DEF Moved
<1> SUFFICES ASSUME NEW l \in DOMAIN r, r[l].do = "insert"
             PROVE  /\ \A j \in DOMAIN r : j < l /\ r[j].do = "put" =>
                         Suits(r[j].state, r[l].native)'
                    /\ PW!Pen \in PW!Range(listeners) =>
                         \/ IdSuits(r[l].id, r[l].native)'
                         \/ \E j \in DOMAIN r : j < l /\ r[j].listener = PW!Pen
  BY DEF InsertInv
<1>1. PICK k \in DOMAIN q : k > 1 /\ l = k - 1 + Len(new) /\ r[l] = q[k]
  BY <1>0
<1>2. ASSUME NEW j \in DOMAIN r, j < l, r[j].do = "put" PROVE Suits(r[j].state, r[l].native)'
  <2>1. j \in DOMAIN new
    <3>1. SUFFICES ASSUME NEW h \in DOMAIN q, h > 1, r[j] = q[h] PROVE FALSE
      BY <1>0
    <3> QED BY <1>2, <3>1 DEF Orderly, InPlace
  <2> QED BY <1>0, <1>1, <1>2, <2>1
<1>3. ASSUME PW!Pen \in PW!Range(listeners)
      PROVE  \/ IdSuits(r[l].id, r[l].native)'
             \/ \E j \in DOMAIN r : j < l /\ r[j].listener = PW!Pen
  <2>1. ASSUME NEW j \in DOMAIN new, new[j].listener = PW!Pen
        PROVE  j \in DOMAIN r /\ j < l /\ r[j].listener = PW!Pen
    BY <1>0, <1>1, <2>1
  <2>2. CASE IdSuits(q[k].id, q[k].native) \/ q[1].listener = PW!Pen
    BY <1>1, <2>1, <2>2
  <2>3. ASSUME NEW h \in DOMAIN q, h < k, q[h].listener = PW!Pen, h # 1
        PROVE  h - 1 + Len(new) \in DOMAIN r /\ h - 1 + Len(new) < l
               /\ r[h - 1 + Len(new)].listener = PW!Pen
    BY <1>0, <1>1, <2>3
  <2>4. \/ IdSuits(q[k].id, q[k].native)
        \/ \E h \in DOMAIN q : h < k /\ q[h].listener = PW!Pen
    BY <1>1, <1>3 DEF InsertInv
  <2> QED BY <2>2, <2>3, <2>4
<1> QED BY <1>2, <1>3

LEMMA OfferStays ==
  ASSUME NEW q \in Seq(PenStep), q # <<>>, Orderly(q), NEW new \in Seq(PenStep), NEW r, Moved(q, new, r),
         OfferInv(q), UNCHANGED <<windows, listeners>>, q[1].do # "remove",
         \A k \in DOMAIN new : OfferOk(r, k)'
  PROVE  OfferInv(r)'
<1>0. /\ Len(new) \in Nat /\ DOMAIN new = 1..Len(new)
      /\ \A h \in DOMAIN q : h > 1 =>
           h - 1 + Len(new) \in DOMAIN r /\ r[h - 1 + Len(new)] = q[h]
      /\ \A l \in DOMAIN r : l \in DOMAIN new \/ \E h \in DOMAIN q : h > 1 /\ l = h - 1 + Len(new)
  BY DEF Moved
<1>1. ASSUME NEW k \in DOMAIN q, k > 1 PROVE OfferOk(r, k - 1 + Len(new))'
  <2>1. PICK l, e : l = k - 1 + Len(new) /\ e = q[k]
    OBVIOUS
  <2>2. r[l] = e /\ e.do # "put" /\ OfferOk(q, k)
    BY <1>0, <1>1, <2>1 DEF OfferInv, Orderly, InPlace
  <2>3. /\ e.do = "offerAll" => windows[e.id] = None
        /\ e.do \in {"offer", "bind"} => windows[e.id] \in {None, e.native}
        /\ e.do \in {"offer", "bind"} /\ e.back # None =>
             windows[e.id] = None /\ \E m \in DOMAIN q : m > k /\ q[m].do = "insert"
        /\ e.do \in {"offer", "replay"} /\ e.listener = PW!Other =>
             PW!Other \in PW!Range(listeners)
        /\ e.do = "offer" /\ e.listener = PW!Other => windows[e.id] # None \/ BringsIn(q, k)
    BY <2>1, <2>2 DEF OfferOk
  <2>4. BringsIn(q, k) => BringsIn(r, l)
    BY <1>1, <2>1, BringsInStays
  <2>5. ASSUME NEW m \in DOMAIN q, m > k, q[m].do = "insert"
        PROVE  \E h \in DOMAIN r : h > l /\ r[h].do = "insert"
    <3>1. m - 1 + Len(new) \in DOMAIN r /\ r[m - 1 + Len(new)] = q[m] /\ m - 1 + Len(new) > l
      BY <1>0, <1>1, <2>1, <2>5
    <3> QED BY <2>5, <3>1
  <2> QED BY <2>1, <2>2, <2>3, <2>4, <2>5 DEF OfferOk, BringsIn, Backed
<1> QED BY <1>0, <1>1 DEF OfferInv

\* A list without an offer and an answer says nothing, if what will be offered is
\* not registered.
LEMMA ListQuiet ==
  ASSUME NEW r,
         \A k \in DOMAIN r : /\ r[k].do \notin {"offer", "insert", "bind", "put", "replay"}
                             /\ r[k].do = "offerAll" => windows'[r[k].id] = None
  PROVE  ListInv(r)'
BY DEF ListInv, InsertInv, OfferInv, OfferOk

\* What is known of the window that a thread is at work on, that thread's list says.
LEMMA OwnWindow ==
  ASSUME TodoInv, RegInv, NEW t \in Threads, todo[t] # <<>>, NEW i \in Ids, i = todo[t][1].id
  PROVE  /\ i \in known => windows[i] # None \/ Awaits(i, todo[t])
         /\ windows[i] # None /\ PW!Pen \in PW!Range(listeners) =>
              IdSuits(i, windows[i]) \/ Answers(i, todo[t])
<1>1. 1 \in DOMAIN todo[t]
  BY FirstStep
<1>2. ASSUME NEW u \in Threads, Awaits(i, todo[u]) PROVE u = t
  BY <1>1, <1>2 DEF TodoInv, Apart, Awaits
<1>3. ASSUME NEW u \in Threads, Answers(i, todo[u]) PROVE u = t
  BY <1>1, <1>3 DEF TodoInv, Apart, Answers
<1>4. i \in known => windows[i] # None \/ Awaits(i, todo[t])
  BY <1>2 DEF RegInv, KnownInv
<1>5. windows[i] # None /\ PW!Pen \in PW!Range(listeners) =>
        IdSuits(i, windows[i]) \/ Answers(i, todo[t])
  BY <1>3 DEF RegInv, FollowInv
<1> QED BY <1>4, <1>5

\* What a thread's new list says of the windows it is not about.
Passes(t, i) ==
  \A j \in Ids \ {i} : /\ Awaits(j, todo[t]) => Awaits(j, todo'[t])
                       /\ Answers(j, todo[t]) => Answers(j, todo'[t])

LEMMA PassesOn ==
  ASSUME TodoInv, NEW t \in Threads, NEW new, Turned(t, new), NEW i \in Ids, i = todo[t][1].id,
         \A k \in DOMAIN new : Backed(todo[t][1]) => Backed(new[k])
  PROVE  Passes(t, i)
<1>1. PICK q, r : q = todo[t] /\ r = todo'[t]
  OBVIOUS
<1>2. q \in Seq(PenStep) /\ q # <<>> /\ new \in Seq(PenStep) /\ Moved(q, new, r) /\ q[1].id = i
      /\ \A k \in DOMAIN new : Backed(q[1]) => Backed(new[k])
  BY <1>1 DEF Turned, TodoInv
<1>3. i # None
  BY PensAssumption DEF PW!PenWindowsAssumption
<1>4. ASSUME NEW j \in Ids \ {i} PROVE Awaits(j, q) => Awaits(j, r)
  BY <1>2, AwaitsStays
<1>5. ASSUME NEW j \in Ids \ {i} PROVE Answers(j, q) => Answers(j, r)
  BY <1>2, <1>3, AnswersStays
<1> QED BY <1>1, <1>4, <1>5 DEF Passes

\* A step for one window keeps the registry's invariant if it does for that window.
LEMMA RegKeeps ==
  ASSUME PW!TypeOK, TodoInv, PenInv, RegInv, NEW t \in Threads, todo[t] # <<>>,
         NEW i \in Ids, i = todo[t][1].id, Local(i), Passes(t, i),
         \A u \in Threads \ {t} : todo'[u] = todo[u],
         ListInv(todo[t])',
         known' \subseteq known \cup {i}, known' # {} => PW!Other \in PW!Range(listeners),
         i \in known' => windows'[i] # None \/ Awaits(i, todo'[t]),
         windows'[i] # None /\ PW!Pen \in PW!Range(listeners) =>
           IdSuits(i, windows[i])' \/ Answers(i, todo'[t])
  PROVE  RegInv'
<1>1. \A u \in Threads : ListInv(todo[u])'
  <2> SUFFICES ASSUME NEW u \in Threads, u # t PROVE ListInv(todo[u])'
    OBVIOUS
  <2>1. ListInv(todo[u]) /\ todo'[u] = todo[u]
    BY DEF RegInv
  <2>2. \A k \in DOMAIN todo[u] : todo[u][k].id # i
    <3>1. 1 \in DOMAIN todo[t] /\ Apart(u, t)
      BY FirstStep DEF TodoInv
    <3> QED BY <3>1 DEF Apart
  <2> QED BY <2>1, <2>2, ListElsewhere
<1>2. listeners' = listeners /\ PW!Range(listeners)' = PW!Range(listeners)
      /\ \A j \in Ids \ {i} : windows'[j] = windows[j]
  BY DEF Local
<1>3. KnownInv'
  <2>1. ASSUME NEW j \in known', j # i, windows[j] = None
        PROVE  \E u \in Threads : Awaits(j, todo'[u])
    <3>1. j \in known /\ j \in Ids
      BY <2>1 DEF PW!TypeOK
    <3>2. PICK u \in Threads : Awaits(j, todo[u])
      BY <2>1, <3>1 DEF RegInv, KnownInv
    <3>3. CASE u = t
      BY <2>1, <3>1, <3>2, <3>3 DEF Passes
    <3>4. CASE u # t
      BY <3>2, <3>4
    <3> QED BY <3>3, <3>4
  <2>2. \A j \in known' : j = i \/ j \in Ids \ {i}
    BY DEF PW!TypeOK
  <2>3. ASSUME NEW j \in known' PROVE windows'[j] # None \/ \E u \in Threads : Awaits(j, todo'[u])
    BY <1>2, <2>1, <2>2
  <2> QED BY <1>2, <2>3 DEF KnownInv, Awaits, Backed
<1>4. FollowInv'
  <2>1. ASSUME NEW j \in Ids, windows'[j] # None, PW!Pen \in PW!Range(listeners)
        PROVE  IdSuits(j, windows[j])' \/ \E u \in Threads : Answers(j, todo'[u])
    <3>1. CASE j = i
      BY <2>1, <3>1
    <3>2. CASE j # i
      <4>1. PICK n : n = windows[j]
        OBVIOUS
      <4>2. windows'[j] = n
        BY <1>2, <3>2, <4>1
      <4>3. CASE IdSuits(j, n)
        <5>1. IdSuits(j, n)'
          BY <3>2, <4>3, SuitsStay
        <5> QED BY <4>2, <5>1 DEF IdSuits, Suits
      <4>4. CASE ~IdSuits(j, n)
        <5>1. PICK u \in Threads : Answers(j, todo[u])
          BY <2>1, <4>1, <4>2, <4>4 DEF RegInv, FollowInv
        <5>2. CASE u = t
          BY <3>2, <5>1, <5>2 DEF Passes
        <5>3. CASE u # t
          BY <5>1, <5>3
        <5> QED BY <5>2, <5>3
      <4> QED BY <4>3, <4>4
    <3> QED BY <3>1, <3>2
  <2> QED BY <1>2, <2>1 DEF FollowInv, Answers
<1> QED BY <1>1, <1>3, <1>4 DEF RegInv
-----------------------------------------------------------------------------
(* The steps of the registry, for the lists and for the pens.              *)

\* What the threads, the pens and the registry keep between any two steps.
PensInv == PW!TypeOK /\ TodoInv /\ PenInv /\ RegInv

\* The publisher's part stays as it is.
LEMMA TurnsQuietly ==
  ASSUME TodoInv, PenInv, NEW t \in Threads, NEW new, Turned(t, new),
         todo[t][1].do \notin PenHeads, \A k \in DOMAIN new : new[k].do \notin PenHeads,
         UNCHANGED <<desktop, states, made, bound, entries, hooked, lost>>
  PROVE  PenInv'
<1>1. /\ \A u \in Threads \ {t}, do \in PenHeads, i \in Ids, x \in PW!States :
           AtState(u, do, i, x)' = AtState(u, do, i, x)
      /\ \A do \in PenHeads, i \in Ids, x \in PW!States : ~AtState(t, do, i, x)'
  BY HandEmpties
<1>2. \A do \in PenHeads, i \in Ids, x \in PW!States : ~AtState(t, do, i, x)
  BY DEF AtState
<1>3. \A u \in Threads, do \in PenHeads, i \in Ids, x \in PW!States :
        AtState(u, do, i, x)' = AtState(u, do, i, x)
  <2> TAKE u \in Threads, do \in PenHeads, i \in Ids, x \in PW!States
  <2>1. CASE u = t
    <3>1. ~AtState(t, do, i, x)' /\ ~AtState(t, do, i, x)
      BY <1>1, <1>2
    <3> QED BY <2>1, <3>1 DEF AtState
  <2>2. CASE u # t
    BY <1>1, <2>2
  <2> QED BY <2>1, <2>2
<1> QED BY <1>3, PenQuiet

\* Behind a step that is no answer nothing is offered.
LEMMA TailQuiet ==
  ASSUME NEW q \in Seq(PenStep), q # <<>>, Orderly(q), q[1].do \notin Answering,
         NEW k \in DOMAIN q, k > 1
  PROVE  q[k].do \in {"forget", "offerAll"} /\ q[k].id = q[1].id
<1>1. 1 \in DOMAIN q /\ q[k] \in PenStep
  OBVIOUS
<1>2. q[k].do \notin {"bind", "put", "detach", "replay", "remove", "offer", "insert"}
  BY <1>1 DEF Orderly, InPlace
<1>3. q[k].do \in {"forget", "offerAll"}
  BY <1>1, <1>2 DEF PenStep
<1> QED BY <1>1, <1>3 DEF Orderly, OneWindow

LEMMA ListQuietly ==
  ASSUME TodoInv, NEW t \in Threads, NEW new, Turned(t, new), OfferInv(todo[t]),
         todo[t][1].do \notin Answering,
         \A k \in DOMAIN new : new[k].do \in {"forget", "detach"},
         LET i == todo[t][1].id IN
           windows'[i] = None \/ (windows'[i] = windows[i] /\ todo[t][1].do # "remove")
  PROVE  ListInv(todo[t])'
<1>1. PICK q, r : q = todo[t] /\ r = todo'[t]
  OBVIOUS
<1>2. q \in Seq(PenStep) /\ q # <<>> /\ new \in Seq(PenStep) /\ Moved(q, new, r) /\ Orderly(q)
  BY <1>1 DEF Turned, TodoInv
<1>3. ASSUME NEW k \in DOMAIN q, k > 1
      PROVE  /\ q[k].do \in {"forget", "offerAll"}
             /\ q[k].do = "offerAll" => windows'[q[k].id] = None
  <2>1. q[k].do \in {"forget", "offerAll"} /\ q[k].id = q[1].id
    BY <1>1, <1>2, <1>3, TailQuiet
  <2>2. q[k].do = "offerAll" => windows[q[k].id] = None \/ q[1].do = "remove"
    BY <1>1 DEF OfferInv, OfferOk
  <2> QED BY <1>1, <2>1, <2>2
<1>4. ASSUME NEW l \in DOMAIN r
      PROVE  /\ r[l].do \notin {"offer", "insert", "bind", "put", "replay"}
             /\ r[l].do = "offerAll" => windows'[r[l].id] = None
  <2>1. CASE l \in DOMAIN new
    <3>1. r[l] = new[l]
      BY <1>2, <2>1 DEF Moved
    <3> QED BY <2>1, <3>1
  <2>2. ASSUME NEW k \in DOMAIN q, k > 1, l = k - 1 + Len(new)
        PROVE  /\ r[l].do \notin {"offer", "insert", "bind", "put", "replay"}
               /\ r[l].do = "offerAll" => windows'[r[l].id] = None
    <3>1. r[l] = q[k]
      BY <1>2, <2>2 DEF Moved
    <3> QED BY <1>3, <2>2, <3>1
  <2> QED BY <1>2, <2>1, <2>2 DEF Moved
<1>5. ListInv(r)'
  BY <1>4, ListQuiet
<1> QED BY <1>1, <1>5 DEF ListInv, InsertInv, OfferInv, OfferOk, BringsIn, Backed

LEMMA AtRange == \A ls : \A x : x \in PW!Range(ls) <=> \E k \in DOMAIN ls : ls[k] = x
BY DEF PW!Range

\* A window is removed and all listeners are told to forget it.
LEMMA RemoveServes ==
  ASSUME PensInv, NEW t \in Threads, PW!RemoveWindow(t)
  PROVE  TodoInv' /\ PenInv' /\ RegInv'
<1> USE DEF PensInv
<1>1. PICK q, i, new : /\ q = todo[t] /\ i = q[1].id
                       /\ new = IF windows[i] = None THEN <<>> ELSE PW!ForgetAll(listeners, i)
  OBVIOUS
<1>2. /\ q # <<>> /\ Head(q) = q[1] /\ q[1].do = "remove" /\ i \in Ids /\ q \in Seq(PenStep)
      /\ Orderly(q) /\ PW!Becomes(t, new) /\ windows' = [windows EXCEPT ![i] = None]
      /\ UNCHANGED <<desktop, listeners, known, states, made, bound, entries, hooked, lost>>
  <2>1. q # <<>> /\ Head(q).do = "remove"
    BY <1>1 DEF PW!RemoveWindow, PW!Now
  <2>2. Head(q) = q[1] /\ q[1] \in PenStep /\ SaysWhat(q[1]) /\ q \in Seq(PenStep) /\ Orderly(q)
    BY <1>1, <2>1, FirstStep
  <2>3. i \in Ids
    BY <1>1, <2>1, <2>2 DEF SaysWhat, PenStep
  <2>4. Head(todo[t]).id = i
    BY <1>1, <2>2
  <2>5. PW!Becomes(t, new) /\ windows' = [windows EXCEPT ![i] = None]
    BY <1>1, <2>4 DEF PW!RemoveWindow
  <2> QED BY <1>1, <2>1, <2>2, <2>3, <2>5 DEF PW!RemoveWindow, PW!penVars
<1>3. /\ Turned(t, new)
      /\ \A k \in DOMAIN new : new[k].do = "forget" /\ new[k].id = i /\ new[k].back = None
      /\ windows[i] # None => \A k \in DOMAIN listeners :
           k \in DOMAIN new /\ new[k].listener = listeners[k]
  <2>1. CASE windows[i] = None
    BY <1>1, <1>2, <2>1, OffTurns
  <2>2. CASE windows[i] # None
    <3>1. listeners \in Seq(Listening)
      BY DEF PW!TypeOK, Listening
    <3>2. new = PW!ForgetAll(listeners, i)
      BY <1>1, <2>2
    <3>3. new \in Seq(PenStep) /\ Replaces(new, q)
      BY <1>1, <1>2, <3>1, <3>2, ForgetsReplace
    <3>4. Turned(t, new)
      BY <1>1, <1>2, <3>3, TodoBecomes DEF Turned
    <3> QED BY <1>2, <3>1, <3>2, <3>4, ForgetsListed
  <2> QED BY <2>1, <2>2
<1>4. TodoInv' /\ PenInv'
  BY <1>1, <1>2, <1>3, TurnsQuietly DEF Turned, PenHeads
<1>5. windows \in [Ids -> PW!Natives \cup {None}] /\ windows'[i] = None
  BY <1>2 DEF PW!TypeOK
<1>6. Local(i)
  BY <1>2, <1>5 DEF Local
<1>7. Passes(t, i)
  BY <1>1, <1>2, <1>3, PassesOn DEF Backed
<1>8. ListInv(todo[t])'
  BY <1>1, <1>2, <1>3, <1>5, ListQuietly DEF RegInv, ListInv, Answering
<1>9. ASSUME i \in known PROVE Awaits(i, todo'[t])
  <2>1. CASE windows[i] # None
    <3>1. PICK k \in DOMAIN listeners : listeners[k] = PW!Other
      BY <1>9, AtRange DEF RegInv, KnownInv
    <3>2. k \in DOMAIN new /\ new[k].do = "forget" /\ new[k].id = i /\ new[k].listener = PW!Other
      BY <1>3, <2>1, <3>1
    <3>3. k \in DOMAIN todo'[t] /\ todo'[t][k] = new[k]
      BY <1>3, <3>2 DEF Turned, Moved
    <3> QED BY <3>2, <3>3 DEF Awaits
  <2>2. CASE windows[i] = None
    <3>1. Awaits(i, q)
      BY <1>1, <1>2, <1>9, <2>2, OwnWindow
    <3>2. \A k \in DOMAIN new : Backed(new[k])
      BY <1>3 DEF Backed
    <3>3. PICK r : r = todo'[t]
      OBVIOUS
    <3>4. new \in Seq(PenStep) /\ Moved(q, new, r)
      BY <1>1, <1>3, <3>3 DEF Turned
    <3>5. q[1].do # "insert" /\ q[1].do # "forget"
      BY <1>2
    <3>6. Awaits(i, r)
      BY <1>2, <3>1, <3>2, <3>4, <3>5, AwaitsStays
    <3> QED BY <3>3, <3>6
  <2> QED BY <2>1, <2>2
<1>10. RegInv'
  <2>1. known' = known /\ (known # {} => PW!Other \in PW!Range(listeners))
    BY <1>2 DEF RegInv, KnownInv
  <2>2. \A u \in Threads \ {t} : todo'[u] = todo[u]
    BY <1>3 DEF Turned
  <2>3. todo[t] # <<>> /\ i = todo[t][1].id /\ i \in Ids
    BY <1>1, <1>2
  <2> QED BY <1>5, <1>6, <1>7, <1>8, <1>9, <2>1, <2>2, <2>3, RegKeeps
<1> QED BY <1>4, <1>10

\* The first step of a list and what it is about.
LEMMA Begun ==
  ASSUME TodoInv, NEW t \in Threads, NEW do, PW!Now(t, do), do # "replay"
  PROVE  LET q == todo[t] IN
         /\ q # <<>> /\ Head(q) = q[1] /\ 1 \in DOMAIN q /\ q[1].do = do /\ q[1].id \in Ids
         /\ q \in Seq(PenStep) /\ Orderly(q) /\ SaysWhat(q[1]) /\ q[1] \in PenStep
<1>1. todo[t] # <<>> /\ Head(todo[t]).do = do
  BY DEF PW!Now
<1>2. /\ Head(todo[t]) = todo[t][1] /\ 1 \in DOMAIN todo[t] /\ todo[t] \in Seq(PenStep)
      /\ todo[t][1] \in PenStep /\ SaysWhat(todo[t][1]) /\ Orderly(todo[t])
  BY <1>1, FirstStep
<1>3. todo[t][1].id \in Ids
  BY <1>1, <1>2 DEF SaysWhat, PenStep
<1> QED BY <1>1, <1>2, <1>3

\* A removed window is offered to the listeners there are, and inserted in the end.
LEMMA OffersServe ==
  ASSUME PensInv, NEW t \in Threads, PW!OfferWindow(t)
  PROVE  TodoInv' /\ PenInv' /\ RegInv'
<1> USE DEF PensInv
<1>1. PICK q, i, n, ls, new, r :
        /\ q = todo[t] /\ i = q[1].id /\ n = q[1].native /\ ls = listeners
        /\ new = PW!OffersTo(ls, i, n) \o <<PW!Insert(i, n)>> /\ r = todo'[t]
  OBVIOUS
<1>2. /\ q # <<>> /\ Head(q) = q[1] /\ q[1].do = "offerAll" /\ i \in Ids /\ n \in NativesOf[i]
      /\ q \in Seq(PenStep) /\ Orderly(q) /\ ls \in Seq(Listening)
      /\ PW!Becomes(t, new)
      /\ UNCHANGED <<windows, desktop, listeners, known, states, made, bound, entries, hooked, lost>>
  <2>1. PW!Now(t, "offerAll")
    BY DEF PW!OfferWindow
  <2>2. /\ q # <<>> /\ Head(q) = q[1] /\ q[1].do = "offerAll" /\ i \in Ids
        /\ q \in Seq(PenStep) /\ Orderly(q) /\ SaysWhat(q[1])
    BY <1>1, <2>1, Begun
  <2>3. PW!Becomes(t, new)
    BY <1>1, <2>2 DEF PW!OfferWindow
  <2>4. ls \in Seq(Listening)
    BY <1>1 DEF PW!TypeOK, Listening
  <2> QED BY <1>1, <2>2, <2>3, <2>4 DEF PW!OfferWindow, PW!penVars, PW!registryVars, SaysWhat
<1>3. Len(q) = 1 /\ new \in Seq(PenStep) /\ Replaces(new, q)
  BY <1>1, <1>2, OffersReplace
<1>4. Turned(t, new)
  BY <1>1, <1>2, <1>3, TodoBecomes DEF Turned
<1>5. /\ Len(new) = Len(ls) + 1 /\ new[Len(ls) + 1] = PW!Insert(i, n)
      /\ \A k \in DOMAIN ls : new[k] = PW!Offer(ls[k], i, n, SubSeq(ls, 1, k - 1))
  BY <1>1, <1>2, OffersListed DEF AreOffers
<1>6. r \in Seq(PenStep) /\ DOMAIN r = 1..(Len(ls) + 1) /\ Len(ls) \in Nat
      /\ DOMAIN ls = 1..Len(ls) /\ DOMAIN new = DOMAIN r /\ \A k \in DOMAIN r : r[k] = new[k]
  <2>1. Moved(q, new, r)
    BY <1>1, <1>4 DEF Turned
  <2>2. /\ r \in Seq(PenStep) /\ Len(r) = Len(new) + Len(q) - 1
        /\ \A k \in DOMAIN new : r[k] = new[k]
    BY <2>1 DEF Moved
  <2>3. Len(ls) \in Nat /\ DOMAIN ls = 1..Len(ls) /\ DOMAIN r = 1..Len(r)
        /\ DOMAIN new = 1..Len(new)
    BY <1>2, <1>3, <2>2
  <2>4. Len(r) = Len(ls) + 1 /\ Len(new) = Len(ls) + 1
    BY <1>3, <1>5, <2>2, <2>3
  <2> QED BY <2>2, <2>3, <2>4
<1>7. /\ r[Len(ls) + 1].do = "insert" /\ r[Len(ls) + 1].id = i /\ r[Len(ls) + 1].native = n
      /\ Len(ls) + 1 \in DOMAIN r
  BY <1>5, <1>6 DEF PW!Insert, PW!Step
<1>8. ASSUME NEW k \in DOMAIN ls
      PROVE  /\ r[k].do = "offer" /\ r[k].id = i /\ r[k].native = n /\ r[k].listener = ls[k]
             /\ r[k].back = SubSeq(ls, 1, k - 1) /\ k \in DOMAIN r
  <2>1. PICK back : back = SubSeq(ls, 1, k - 1)
    OBVIOUS
  <2>2. k \in DOMAIN r /\ r[k] = PW!Offer(ls[k], i, n, back)
    BY <1>5, <1>6, <2>1
  <2>3. PICK l, e : l = ls[k] /\ e = r[k]
    OBVIOUS
  <2>4. e.do = "offer" /\ e.id = i /\ e.native = n /\ e.listener = l /\ e.back = back
    BY <2>2, <2>3 DEF PW!Offer, PW!Step
  <2> QED BY <2>1, <2>2, <2>3, <2>4
<1>9. \A k \in DOMAIN r : k \in DOMAIN ls \/ k = Len(ls) + 1
  BY <1>6
<1>10. windows[i] = None
  BY <1>1, <1>2 DEF RegInv, ListInv, OfferInv, OfferOk
<1>11. TodoInv' /\ PenInv'
  <2>1. \A k \in DOMAIN new : new[k].do \notin PenHeads
    BY <1>6, <1>7, <1>8, <1>9 DEF PenHeads
  <2>2. todo[t][1].do \notin PenHeads
    BY <1>1, <1>2 DEF PenHeads
  <2>3. UNCHANGED <<desktop, states, made, bound, entries, hooked, lost>>
    BY <1>2
  <2>4. PenInv'
    BY <1>4, <2>1, <2>2, <2>3, TurnsQuietly
  <2> QED BY <1>4, <2>4 DEF Turned
<1>12. Local(i)
  BY <1>2 DEF Local
<1>13. Passes(t, i)
  <2>1. DOMAIN q = {1} /\ q[1].id = i
    BY <1>1, <1>2, <1>3
  <2> QED BY <1>1, <1>2, <2>1, PensAssumption DEF Passes, Awaits, Answers, PW!PenWindowsAssumption
<1>14. InsertInv(r)'
  <2> SUFFICES ASSUME NEW k \in DOMAIN r, r[k].do = "insert"
               PROVE  /\ \A j \in DOMAIN r : j < k => r[j].do # "put"
                      /\ PW!Pen \in PW!Range(listeners) =>
                           \E j \in DOMAIN r : j < k /\ r[j].listener = PW!Pen
    BY <1>2 DEF InsertInv
  <2>1. k = Len(ls) + 1
    BY <1>8, <1>9
  <2>2. \A j \in DOMAIN r : j < k => j \in DOMAIN ls
    BY <1>9, <2>1
  <2>3. ASSUME PW!Pen \in PW!Range(listeners)
        PROVE  \E j \in DOMAIN r : j < k /\ r[j].listener = PW!Pen
    <3>1. PICK j \in DOMAIN ls : ls[j] = PW!Pen
      BY <1>1, <2>3, AtRange
    <3>2. j < k
      BY <1>6, <2>1, <3>1
    <3> QED BY <1>8, <3>1, <3>2
  <2> QED BY <1>8, <2>2, <2>3
<1>15. OfferInv(r)'
  <2>1. OfferOk(r, Len(ls) + 1)'
    BY <1>7 DEF OfferOk
  <2>2. ASSUME NEW k \in DOMAIN ls PROVE OfferOk(r, k)'
    <3>1. k < Len(ls) + 1 /\ k \in Nat
      BY <1>6
    <3>2. ASSUME ls[k] = PW!Other PROVE BringsIn(r, k)
      <4>1. ASSUME NEW j \in DOMAIN r, k < j, j < Len(ls) + 1 PROVE Backed(r[j])
        <5>1. j \in DOMAIN ls
          BY <1>9, <4>1
        <5>2. PICK back : back = SubSeq(ls, 1, j - 1)
          OBVIOUS
        <5>3. k \in DOMAIN back /\ back[k] = ls[k]
          BY <1>2, <1>6, <3>1, <4>1, <5>1, <5>2
        <5>4. PW!Other \in PW!Range(back)
          BY <3>2, <5>3, AtRange
        <5> QED BY <1>8, <5>1, <5>2, <5>4 DEF Backed
      <4> QED BY <1>7, <1>8, <3>1, <4>1 DEF BringsIn
    <3>3. ls[k] = PW!Other => PW!Other \in PW!Range(listeners)
      BY <1>1, AtRange
    <3>4. \E m \in DOMAIN r : m > k /\ r[m].do = "insert"
      BY <1>7, <3>1
    <3> QED BY <1>2, <1>8, <1>10, <3>2, <3>3, <3>4 DEF OfferOk, BringsIn, Backed
  <2> QED BY <1>9, <2>1, <2>2 DEF OfferInv
<1>16. ListInv(todo[t])'
  BY <1>1, <1>14, <1>15 DEF ListInv, InsertInv, OfferInv, OfferOk, BringsIn, Backed
<1>17. i \notin known
  <2>1. ~Awaits(i, q)
    <3>1. DOMAIN q = {1}
      BY <1>2, <1>3
    <3> QED BY <1>2, <3>1 DEF Awaits
  <2> QED BY <1>1, <1>2, <1>10, <2>1, OwnWindow
<1>18. RegInv'
  <2>1. known' = known /\ (known # {} => PW!Other \in PW!Range(listeners))
    BY <1>2 DEF RegInv, KnownInv
  <2>2. \A u \in Threads \ {t} : todo'[u] = todo[u]
    BY <1>4 DEF Turned
  <2>3. todo[t] # <<>> /\ i = todo[t][1].id /\ i \in Ids /\ windows' = windows
    BY <1>1, <1>2
  <2> QED BY <1>10, <1>12, <1>13, <1>16, <1>17, <2>1, <2>2, <2>3, RegKeeps
<1> QED BY <1>11, <1>18

\* What was offered is inserted.
LEMMA InsertServes ==
  ASSUME PensInv, NEW t \in Threads, PW!InsertWindow(t)
  PROVE  TodoInv' /\ PenInv' /\ RegInv'
<1> USE DEF PensInv
<1>1. PICK q, i, n : q = todo[t] /\ i = q[1].id /\ n = q[1].native
  OBVIOUS
<1>2. /\ q # <<>> /\ Head(q) = q[1] /\ q[1].do = "insert" /\ i \in Ids /\ n \in NativesOf[i]
      /\ q \in Seq(PenStep) /\ Orderly(q) /\ 1 \in DOMAIN q
      /\ PW!Becomes(t, <<>>) /\ windows' = [windows EXCEPT ![i] = n]
      /\ UNCHANGED <<desktop, listeners, known, states, made, bound, entries, hooked, lost>>
  <2>1. PW!Now(t, "insert")
    BY DEF PW!InsertWindow
  <2>2. /\ q # <<>> /\ Head(q) = q[1] /\ q[1].do = "insert" /\ i \in Ids /\ 1 \in DOMAIN q
        /\ q \in Seq(PenStep) /\ Orderly(q) /\ SaysWhat(q[1])
    BY <1>1, <2>1, Begun
  <2> QED BY <1>1, <2>2 DEF PW!InsertWindow, PW!penVars, SaysWhat
<1>3. Turned(t, <<>>) /\ DOMAIN <<>> = {}
  BY <1>1, <1>2, OffTurns
<1>4. DOMAIN q = {1} /\ Len(q) = 1
  <2>1. 1 = Len(q)
    BY <1>2 DEF Orderly, InPlace
  <2> QED BY <1>2, <2>1
<1>5. DOMAIN todo'[t] = {}
  <2>1. \A k \in DOMAIN q : ~(k > 1)
    BY <1>4
  <2> QED BY <1>1, <1>3, <2>1 DEF Turned, Moved
<1>6. TodoInv' /\ PenInv'
  BY <1>1, <1>2, <1>3, TurnsQuietly DEF Turned, PenHeads
<1>7. windows \in [Ids -> PW!Natives \cup {None}] /\ windows'[i] = n /\ n # None
  BY <1>2, PensAssumption DEF PW!TypeOK, PW!Natives, PW!PenWindowsAssumption
<1>8. Local(i)
  BY <1>2, <1>7 DEF Local
<1>9. Passes(t, i)
  BY <1>1, <1>2, <1>3, PassesOn
<1>10. ListInv(todo[t])'
  <2>1. PICK r : r = todo'[t]
    OBVIOUS
  <2>2. ListInv(r)'
    BY <1>5, <2>1, ListQuiet
  <2> QED BY <2>1, <2>2 DEF ListInv, InsertInv, OfferInv, OfferOk, BringsIn, Backed
<1>11. PW!Pen \in PW!Range(listeners) => IdSuits(i, n)
  <2>1. \A j \in DOMAIN q : ~(j < 1)
    BY <1>4
  <2> QED BY <1>1, <1>2, <2>1 DEF RegInv, ListInv, InsertInv
<1>12. PW!Pen \in PW!Range(listeners) => IdSuits(i, windows[i])'
  BY <1>2, <1>7, <1>11 DEF IdSuits, Suits
<1>13. RegInv'
  <2>1. known' = known /\ (known # {} => PW!Other \in PW!Range(listeners))
    BY <1>2 DEF RegInv, KnownInv
  <2>2. \A u \in Threads \ {t} : todo'[u] = todo[u]
    BY <1>3 DEF Turned
  <2>3. todo[t] # <<>> /\ i = todo[t][1].id /\ i \in Ids
    BY <1>1, <1>2
  <2> QED BY <1>7, <1>8, <1>9, <1>10, <1>12, <2>1, <2>2, <2>3, RegKeeps
<1> QED BY <1>6, <1>13

\* A list whose head can have the others forget the window is about that window alone.
LEMMA BackedList ==
  ASSUME NEW q \in Seq(PenStep), q # <<>>, Orderly(q), OfferInv(q),
         q[1].do \in {"offer", "bind"}, q[1].back # None
  PROVE  /\ windows[q[1].id] = None
         /\ \A k \in DOMAIN q : q[k].id = q[1].id /\ q[k].do # "forget"
<1>1. 1 \in DOMAIN q /\ OfferOk(q, 1)
  BY DEF OfferInv
<1>2. PICK m \in DOMAIN q : m > 1 /\ q[m].do = "insert"
  BY <1>1 DEF OfferOk
<1>3. m = Len(q) /\ \A k \in DOMAIN q : k < m => q[k].id = q[m].id /\ q[k].do \in Answering
  BY <1>2 DEF Orderly, InPlace, Offered
<1>4. \A k \in DOMAIN q : k < m \/ k = m
  BY <1>3
<1> QED BY <1>1, <1>2, <1>3, <1>4 DEF OfferOk, Answering

\* A refusal: the other listener forgets what it knows, if the window was offered to
\* be inserted, and what follows goes on, if it was not.
LEMMA RefusedServes ==
  ASSUME PensInv, NEW t \in Threads, todo[t] # <<>>, NEW i \in Ids, i = todo[t][1].id,
         todo[t][1].do \in {"offer", "bind"}, PW!Refused(t)
  PROVE  /\ TodoInv' /\ Passes(t, i) /\ \A u \in Threads \ {t} : todo'[u] = todo[u]
         /\ i \in known => windows[i] # None \/ Awaits(i, todo'[t])
         /\ \/ todo[t][1].back = None /\ Turned(t, <<>>)
            \/ windows[i] = None /\ ListInv(todo[t])'
<1> USE DEF PensInv
<1>1. PICK q, r, back : q = todo[t] /\ r = todo'[t] /\ back = q[1].back
  OBVIOUS
<1>2. /\ q # <<>> /\ q \in Seq(PenStep) /\ Orderly(q) /\ 1 \in DOMAIN q /\ q[1].id = i
      /\ q[1].do \in {"offer", "bind"} /\ OfferInv(q)
  BY <1>1, FirstStep DEF RegInv, ListInv
<1>3. TodoInv' /\ \A u \in Threads \ {t} : todo'[u] = todo[u]
  BY RefusedTurns
<1>4. \/ back = None /\ Turned(t, <<>>)
      \/ /\ back # None /\ back \in Seq(Listening) /\ DOMAIN r = DOMAIN back
         /\ \A k \in DOMAIN back :
              r[k].do = "forget" /\ r[k].id = i /\ r[k].listener = back[k] /\ r[k].back = None
  BY <1>1, RefusedTurns
<1>5. i \in known => windows[i] # None \/ Awaits(i, q)
  BY <1>1, OwnWindow
<1>6. CASE back = None /\ Turned(t, <<>>)
  <2>0. DOMAIN <<>> = {} /\ <<>> \in Seq(PenStep) /\ Moved(q, <<>>, r)
    BY <1>1, <1>6 DEF Turned
  <2>1. Passes(t, i)
    BY <1>6, <2>0, PassesOn
  <2>2. Awaits(i, q) => Awaits(i, r)
    BY <1>2, <2>0, AwaitsStays
  <2> QED BY <1>1, <1>3, <1>5, <1>6, <2>1, <2>2
<1>7. CASE /\ back # None /\ DOMAIN r = DOMAIN back
           /\ \A k \in DOMAIN back :
                r[k].do = "forget" /\ r[k].id = i /\ r[k].listener = back[k] /\ r[k].back = None
  <2>1. windows[i] = None /\ \A k \in DOMAIN q : q[k].id = i /\ q[k].do # "forget"
    BY <1>1, <1>2, <1>7, BackedList
  <2>2. Passes(t, i)
    BY <1>1, <2>1, PensAssumption DEF Passes, Awaits, Answers, PW!PenWindowsAssumption
  <2>3. ListInv(r)'
    BY <1>7, ListQuiet
  <2>4. ListInv(todo[t])'
    BY <1>1, <2>3 DEF ListInv, InsertInv, OfferInv, OfferOk, BringsIn, Backed
  <2>5. ASSUME Awaits(i, q) PROVE Awaits(i, r)
    <3>1. PICK k \in DOMAIN q : q[k].do = "insert" /\ \A j \in DOMAIN q : j < k => Backed(q[j])
      BY <2>1, <2>5 DEF Awaits
    <3>2. 1 < k
      BY <1>2, <3>1
    <3>3. PW!Other \in PW!Range(back)
      BY <1>1, <1>2, <1>7, <3>1, <3>2 DEF Backed
    <3>4. PICK l \in DOMAIN back : back[l] = PW!Other
      BY <3>3, AtRange
    <3> QED BY <1>7, <3>4 DEF Awaits
  <2> QED BY <1>1, <1>3, <1>5, <2>1, <2>2, <2>4, <2>5
<1> QED BY <1>4, <1>6, <1>7

\* The first step is taken off, and nothing the rest says has changed.
LEMMA OffServes ==
  ASSUME TodoInv, NEW t \in Threads, Turned(t, <<>>), ListInv(todo[t]),
         UNCHANGED <<windows, listeners>>, NEW q, q = todo[t], q[1].do # "remove",
         \A k \in DOMAIN q :
           k > 1 /\ q[k].do = "insert" /\ (IdSuits(q[k].id, q[k].native) \/ q[1].listener = PW!Pen)
             => IdSuits(q[k].id, q[k].native)'
  PROVE  ListInv(todo[t])'
<1>1. PICK r : r = todo'[t]
  OBVIOUS
<1>2. /\ q # <<>> /\ q \in Seq(PenStep) /\ Orderly(q) /\ Moved(q, <<>>, r)
      /\ <<>> \in Seq(PenStep) /\ DOMAIN <<>> = {}
  BY <1>1 DEF Turned, TodoInv
<1>3. InsertInv(r)'
  BY <1>1, <1>2, InsertStays DEF ListInv
<1>4. OfferInv(r)'
  BY <1>1, <1>2, OfferStays DEF ListInv
<1> QED BY <1>1, <1>3, <1>4 DEF ListInv, InsertInv, OfferInv, OfferOk, BringsIn, Backed

\* The other listener answers ...
LEMMA OtherAnswersServes ==
  ASSUME PensInv, NEW t \in Threads, PW!OtherAnswers(t)
  PROVE  TodoInv' /\ PenInv' /\ RegInv'
<1> USE DEF PensInv
<1>1. PICK q, i : q = todo[t] /\ i = q[1].id
  OBVIOUS
<1>2. /\ q # <<>> /\ Head(q) = q[1] /\ q[1].do = "offer" /\ i \in Ids /\ 1 \in DOMAIN q
      /\ q \in Seq(PenStep) /\ Orderly(q) /\ q[1].listener = PW!Other
      /\ \/ known' = known \cup {i} /\ PW!Becomes(t, <<>>)
         \/ PW!Refused(t) /\ known' = known
      /\ UNCHANGED <<windows, desktop, listeners, states, made, bound, entries, hooked, lost>>
  <2>1. PW!Now(t, "offer")
    BY DEF PW!OtherAnswers
  <2>2. /\ q # <<>> /\ Head(q) = q[1] /\ q[1].do = "offer" /\ i \in Ids /\ 1 \in DOMAIN q
        /\ q \in Seq(PenStep) /\ Orderly(q)
    BY <1>1, <2>1, Begun
  <2> QED BY <1>1, <2>2 DEF PW!OtherAnswers, PW!penVars
<1>3. /\ todo[t] # <<>> /\ i = todo[t][1].id /\ ListInv(q) /\ OfferOk(q, 1)
      /\ (known # {} => PW!Other \in PW!Range(listeners))
  BY <1>1, <1>2 DEF RegInv, ListInv, OfferInv, KnownInv
<1>4. PW!Other \in PW!Range(listeners)
  BY <1>2, <1>3 DEF OfferOk
<1>5. Local(i)
  BY <1>2 DEF Local
<1>6. \A u \in Threads, do \in PenHeads, j \in Ids, x \in PW!States : ~AtState(t, do, j, x)
  BY <1>1, <1>2 DEF AtState, PenHeads
<1>7. PW!Pen # PW!Other
  BY DEF PW!Pen, PW!Other
<1>8. ASSUME Turned(t, <<>>)
      PROVE  /\ ListInv(todo[t])'
             /\ windows'[i] # None /\ PW!Pen \in PW!Range(listeners) =>
                  IdSuits(i, windows[i])' \/ Answers(i, todo'[t])
  <2>1. \A k \in DOMAIN q :
          k > 1 /\ q[k].do = "insert" /\ (IdSuits(q[k].id, q[k].native) \/ q[1].listener = PW!Pen)
            => IdSuits(q[k].id, q[k].native)'
    BY <1>2, <1>7 DEF IdSuits, Suits
  <2>2. ListInv(todo[t])'
    BY <1>1, <1>2, <1>3, <1>8, <2>1, OffServes
  <2>3. PICK r : r = todo'[t]
    OBVIOUS
  <2>4. Moved(q, <<>>, r) /\ <<>> \in Seq(PenStep)
    BY <1>1, <1>8, <2>3 DEF Turned
  <2>5. Answers(i, q) => Answers(i, r)
    BY <1>2, <1>7, <2>4, AnswersStays
  <2>6. windows[i] # None /\ PW!Pen \in PW!Range(listeners) =>
          IdSuits(i, windows[i]) \/ Answers(i, q)
    BY <1>1, <1>2, OwnWindow
  <2>7. IdSuits(i, windows[i]) => IdSuits(i, windows[i])'
    BY <1>2 DEF IdSuits, Suits
  <2> QED BY <1>2, <2>2, <2>3, <2>5, <2>6, <2>7
<1>9. CASE known' = known \cup {i} /\ PW!Becomes(t, <<>>)
  <2>1. Turned(t, <<>>) /\ DOMAIN <<>> = {}
    BY <1>3, <1>9, OffTurns
  <2>2. TodoInv' /\ PenInv'
    BY <1>1, <1>2, <2>1, TurnsQuietly DEF Turned, PenHeads
  <2>3. Passes(t, i)
    BY <1>1, <1>2, <2>1, PassesOn
  <2>4. ASSUME windows[i] = None PROVE Awaits(i, todo'[t])
    <3>1. BringsIn(q, 1)
      BY <1>1, <1>2, <1>3, <2>4 DEF OfferOk
    <3>2. PICK m \in DOMAIN q : /\ m > 1 /\ q[m].do = "insert" /\ q[m].id = i
                                /\ \A j \in DOMAIN q : 1 < j /\ j < m => Backed(q[j])
      BY <1>1, <3>1 DEF BringsIn
    <3>3. PICK r : r = todo'[t]
      OBVIOUS
    <3>4. Moved(q, <<>>, r) /\ Len(<<>>) = 0 /\ DOMAIN q = 1..Len(q) /\ Len(q) \in Nat
      BY <1>1, <1>2, <2>1, <3>3 DEF Turned
    <3>5. m - 1 \in DOMAIN r /\ r[m - 1] = q[m]
      BY <3>2, <3>4 DEF Moved
    <3>6. ASSUME NEW l \in DOMAIN r, l < m - 1 PROVE Backed(r[l])
      <4>1. PICK j \in DOMAIN q : j > 1 /\ l = j - 1
        BY <2>1, <3>4 DEF Moved
      <4>2. r[l] = q[j] /\ j < m
        BY <3>2, <3>4, <3>6, <4>1 DEF Moved
      <4> QED BY <3>2, <4>1, <4>2
    <3>7. Awaits(i, r)
      BY <3>2, <3>5, <3>6 DEF Awaits
    <3> QED BY <3>3, <3>7
  <2>5. RegInv'
    <3>1. \A u \in Threads \ {t} : todo'[u] = todo[u]
      BY <2>1 DEF Turned
    <3>2. i \in known' => windows'[i] # None \/ Awaits(i, todo'[t])
      BY <1>2, <2>4
    <3> QED BY <1>2, <1>3, <1>4, <1>5, <1>8, <1>9, <2>1, <2>3, <3>1, <3>2, RegKeeps
  <2> QED BY <2>2, <2>5
<1>10. CASE PW!Refused(t) /\ known' = known
  <2>1. /\ TodoInv' /\ Passes(t, i) /\ \A u \in Threads \ {t} : todo'[u] = todo[u]
        /\ i \in known => windows[i] # None \/ Awaits(i, todo'[t])
        /\ Turned(t, <<>>) \/ (windows[i] = None /\ ListInv(todo[t])')
    BY <1>1, <1>2, <1>10, RefusedServes
  <2>2. PenInv'
    <3>1. /\ \A u \in Threads \ {t}, do \in PenHeads, j \in Ids, x \in PW!States :
               AtState(u, do, j, x)' = AtState(u, do, j, x)
          /\ \A do \in PenHeads, j \in Ids, x \in PW!States : ~AtState(t, do, j, x)'
      BY <1>1, <1>2, <1>10, RefusedTurns
    <3>2. \A u \in Threads, do \in PenHeads, j \in Ids, x \in PW!States :
            AtState(u, do, j, x)' = AtState(u, do, j, x)
      <4> TAKE u \in Threads, do \in PenHeads, j \in Ids, x \in PW!States
      <4>1. CASE u = t
        <5>1. ~AtState(t, do, j, x)' /\ ~AtState(t, do, j, x)
          BY <1>6, <3>1
        <5> QED BY <4>1, <5>1 DEF AtState
      <4>2. CASE u # t
        BY <3>1, <4>2
      <4> QED BY <4>1, <4>2
    <3> QED BY <1>2, <3>2, PenQuiet
  <2>3. /\ ListInv(todo[t])'
        /\ windows'[i] # None /\ PW!Pen \in PW!Range(listeners) =>
             IdSuits(i, windows[i])' \/ Answers(i, todo'[t])
    BY <1>2, <1>8, <2>1
  <2>4. RegInv'
    BY <1>2, <1>3, <1>5, <1>10, <2>1, <2>3, RegKeeps
  <2> QED BY <2>1, <2>2, <2>4
<1> QED BY <1>2, <1>9, <1>10

\* ... and forgets.
LEMMA OtherForgetsServes ==
  ASSUME PensInv, NEW t \in Threads, PW!OtherForgets(t)
  PROVE  TodoInv' /\ PenInv' /\ RegInv'
<1> USE DEF PensInv
<1>1. PICK q, i, r : q = todo[t] /\ i = q[1].id /\ r = todo'[t]
  OBVIOUS
<1>2. /\ q # <<>> /\ Head(q) = q[1] /\ q[1].do = "forget" /\ i \in Ids
      /\ q \in Seq(PenStep) /\ known' = known \ {i} /\ PW!Becomes(t, <<>>)
      /\ UNCHANGED <<windows, desktop, listeners, states, made, bound, entries, hooked, lost>>
  <2>1. PW!Now(t, "forget")
    BY DEF PW!OtherForgets
  <2>2. /\ q # <<>> /\ Head(q) = q[1] /\ q[1].do = "forget" /\ i \in Ids /\ q \in Seq(PenStep)
    BY <1>1, <2>1, Begun
  <2> QED BY <1>1, <2>2 DEF PW!OtherForgets, PW!penVars
<1>3. Turned(t, <<>>) /\ DOMAIN <<>> = {}
  BY <1>1, <1>2, OffTurns
<1>4. TodoInv' /\ PenInv'
  BY <1>1, <1>2, <1>3, TurnsQuietly DEF Turned, PenHeads
<1>5. Local(i) /\ Passes(t, i)
  BY <1>1, <1>2, <1>3, PassesOn DEF Local
<1>6. ListInv(todo[t])'
  BY <1>1, <1>2, <1>3, ListQuietly DEF RegInv, ListInv, Answering
<1>7. ASSUME windows[i] # None, PW!Pen \in PW!Range(listeners)
      PROVE  IdSuits(i, windows[i])' \/ Answers(i, r)
  <2>1. IdSuits(i, windows[i]) \/ Answers(i, q)
    BY <1>1, <1>2, <1>7, OwnWindow
  <2>2. Moved(q, <<>>, r) /\ <<>> \in Seq(PenStep)
    BY <1>1, <1>3 DEF Turned
  <2>3. Answers(i, q) => Answers(i, r)
    BY <1>2, <2>2, AnswersStays
  <2> QED BY <1>2, <2>1, <2>3 DEF IdSuits, Suits
<1>8. RegInv'
  <2>1. known' \subseteq known /\ i \notin known' /\ (known # {} => PW!Other \in PW!Range(listeners))
    BY <1>2 DEF RegInv, KnownInv
  <2>2. \A u \in Threads \ {t} : todo'[u] = todo[u]
    BY <1>3 DEF Turned
  <2>3. todo[t] # <<>> /\ i = todo[t][1].id /\ i \in Ids /\ windows' = windows
    BY <1>1, <1>2
  <2> QED BY <1>1, <1>5, <1>6, <1>7, <2>1, <2>2, <2>3, RegKeeps
<1> QED BY <1>4, <1>8

\* The publisher forgets its window, and detaches the state.
LEMMA ForgetServes ==
  ASSUME PensInv, NEW t \in Threads, PW!ForgetState(t)
  PROVE  TodoInv' /\ PenInv' /\ RegInv'
<1> USE DEF PensInv
<1>1. PICK q, i, r : q = todo[t] /\ i = q[1].id /\ r = todo'[t]
  OBVIOUS
<1>2. /\ q # <<>> /\ q[1].do = "forget" /\ q[1].listener = PW!Pen /\ i \in Ids
      /\ q \in Seq(PenStep) /\ states' = [states EXCEPT ![i] = None]
      /\ \E new : /\ Turned(t, new)
                  /\ \A k \in DOMAIN new : new[k].do = "detach" /\ new[k].back = None
  <2>1. /\ q # <<>> /\ q[1].do = "forget" /\ q[1].listener = PW!Pen /\ i \in Ids
        /\ states' = [states EXCEPT ![i] = None]
        /\ states[i] = None => Turned(t, <<>>)
        /\ states[i] # None =>
             \E b : b.do = "detach" /\ b.id = i /\ b.state = states[i]
                    /\ b.back = None /\ Turned(t, <<b>>)
    BY <1>1, ForgetTurns
  <2>2. q \in Seq(PenStep)
    BY <1>1 DEF TodoInv
  <2>3. CASE states[i] = None
    <3>1. Turned(t, <<>>) /\ DOMAIN <<>> = {}
      BY <2>1, <2>3
    <3> QED BY <2>1, <2>2, <3>1
  <2>4. CASE states[i] # None
    <3>1. PICK b : b.do = "detach" /\ b.back = None /\ Turned(t, <<b>>)
      BY <2>1, <2>4
    <3>2. \A k \in DOMAIN <<b>> : <<b>>[k] = b
      OBVIOUS
    <3> QED BY <2>1, <2>2, <3>1, <3>2
  <2> QED BY <2>3, <2>4
<1>3. PICK new : /\ Turned(t, new)
                 /\ \A k \in DOMAIN new : new[k].do = "detach" /\ new[k].back = None
  BY <1>2
<1>4. UNCHANGED <<windows, listeners, known, made, bound, entries, hooked, lost>>
  BY DEF PW!ForgetState, PW!registryVars
<1>5. TodoInv' /\ PenInv'
  BY <1>3, ForgetKeeps DEF Turned
<1>6. states \in [Ids -> PW!States \cup {None}]
  BY DEF PW!TypeOK
<1>7. Local(i) /\ Passes(t, i)
  BY <1>1, <1>2, <1>3, <1>4, <1>6, PassesOn DEF Local, Backed
<1>8. ListInv(todo[t])'
  BY <1>1, <1>2, <1>3, <1>4, ListQuietly DEF RegInv, ListInv, Answering
<1>9. IdSuits(i, windows[i])'
  BY <1>2, <1>6 DEF IdSuits
<1>10. ASSUME i \in known PROVE windows'[i] # None \/ Awaits(i, r)
  <2>1. windows[i] # None \/ Awaits(i, q)
    BY <1>1, <1>2, <1>10, OwnWindow
  <2>2. Moved(q, new, r) /\ new \in Seq(PenStep) /\ \A k \in DOMAIN new : Backed(new[k])
    BY <1>1, <1>3 DEF Turned, Backed
  <2>3. q[1].listener # PW!Other
    BY <1>2 DEF PW!Pen, PW!Other
  <2>4. Awaits(i, q) => Awaits(i, r)
    BY <1>2, <2>2, <2>3, AwaitsStays
  <2> QED BY <1>4, <2>1, <2>4
<1>11. RegInv'
  <2>1. known' = known /\ (known # {} => PW!Other \in PW!Range(listeners))
    BY <1>4 DEF RegInv, KnownInv
  <2>2. \A u \in Threads \ {t} : todo'[u] = todo[u]
    BY <1>3 DEF Turned
  <2>3. todo[t] # <<>> /\ i = todo[t][1].id /\ i \in Ids
    BY <1>1, <1>2
  <2> QED BY <1>1, <1>7, <1>8, <1>9, <1>10, <2>1, <2>2, <2>3, RegKeeps
<1> QED BY <1>5, <1>11

LEMMA DetachServes ==
  ASSUME PensInv, NEW t \in Threads, PW!DetachState(t)
  PROVE  TodoInv' /\ PenInv' /\ RegInv'
<1> USE DEF PensInv
<1>1. PICK q, i, r : q = todo[t] /\ i = q[1].id /\ r = todo'[t]
  OBVIOUS
<1>2. /\ q # <<>> /\ q[1].do = "detach" /\ i \in Ids /\ Turned(t, <<>>)
      /\ UNCHANGED <<states, lost>> /\ q \in Seq(PenStep) /\ DOMAIN <<>> = {}
      /\ bound' = bound \/ \E s \in PW!States : bound' = [bound EXCEPT ![s] = None]
  <2>1. q \in Seq(PenStep)
    BY <1>1 DEF TodoInv
  <2> QED BY <1>1, <2>1, DetachTurns
<1>3. UNCHANGED <<windows, listeners, known>>
  BY DEF PW!DetachState, PW!registryVars
<1>4. TodoInv' /\ PenInv'
  BY <1>2, DetachKeeps DEF Turned
<1>5. \A x \in PW!States : bound'[x] \in {bound[x], None}
  BY <1>2 DEF PW!TypeOK
<1>6. Local(i) /\ Passes(t, i)
  BY <1>1, <1>2, <1>3, <1>5, PassesOn DEF Local
<1>7. ListInv(todo[t])'
  BY <1>1, <1>2, <1>3, ListQuietly DEF RegInv, ListInv, Answering
<1>8. Moved(q, <<>>, r) /\ <<>> \in Seq(PenStep)
  BY <1>1, <1>2 DEF Turned
<1>9. ASSUME windows[i] # None, PW!Pen \in PW!Range(listeners)
      PROVE  IdSuits(i, windows[i])' \/ Answers(i, r)
  <2>1. IdSuits(i, windows[i]) \/ Answers(i, q)
    BY <1>1, <1>2, <1>9, OwnWindow
  <2>2. Answers(i, q) => Answers(i, r)
    BY <1>2, <1>8, AnswersStays
  <2>3. states[i] \in PW!States \cup {None}
    BY <1>2 DEF PW!TypeOK
  <2> QED BY <1>2, <1>3, <1>5, <2>1, <2>2, <2>3 DEF IdSuits, Suits
<1>10. ASSUME i \in known PROVE windows'[i] # None \/ Awaits(i, r)
  <2>1. windows[i] # None \/ Awaits(i, q)
    BY <1>1, <1>2, <1>10, OwnWindow
  <2>2. Awaits(i, q) => Awaits(i, r)
    BY <1>2, <1>8, AwaitsStays
  <2> QED BY <1>3, <2>1, <2>2
<1>11. RegInv'
  <2>1. known' = known /\ (known # {} => PW!Other \in PW!Range(listeners))
    BY <1>3 DEF RegInv, KnownInv
  <2>2. \A u \in Threads \ {t} : todo'[u] = todo[u]
    BY <1>2 DEF Turned
  <2>3. todo[t] # <<>> /\ i = todo[t][1].id /\ i \in Ids /\ windows' = windows
    BY <1>1, <1>2, <1>3
  <2> QED BY <1>1, <1>6, <1>7, <1>9, <1>10, <2>1, <2>2, <2>3, RegKeeps
<1> QED BY <1>4, <1>11

\* A state is put under the id for which it was bound.
LEMMA PutServes ==
  ASSUME PensInv, NEW t \in Threads, PW!PutState(t)
  PROVE  TodoInv' /\ PenInv' /\ RegInv'
<1> USE DEF PensInv
<1>1. PICK q, i, s, r : q = todo[t] /\ i = q[1].id /\ s = q[1].state /\ r = todo'[t]
  OBVIOUS
<1>2. /\ q # <<>> /\ q[1].do = "put" /\ i \in Ids /\ Turned(t, <<>>) /\ 1 \in DOMAIN q
      /\ states' = [states EXCEPT ![i] = s] /\ q \in Seq(PenStep) /\ DOMAIN <<>> = {}
      /\ UNCHANGED <<windows, listeners, known, bound, lost>> /\ Orderly(q)
  <2>1. PW!Now(t, "put")
    BY DEF PW!PutState
  <2>2. /\ q # <<>> /\ Head(q) = q[1] /\ q[1].do = "put" /\ i \in Ids /\ q \in Seq(PenStep)
        /\ Orderly(q) /\ 1 \in DOMAIN q
    BY <1>1, <2>1, Begun
  <2>3. Turned(t, <<>>)
    BY PutKeeps
  <2> QED BY <1>1, <2>2, <2>3 DEF PW!PutState, PW!registryVars
<1>3. TodoInv' /\ PenInv'
  BY <1>2, PutKeeps DEF Turned
<1>4. states'[i] = s /\ states \in [Ids -> PW!States \cup {None}]
  BY <1>2 DEF PW!TypeOK
<1>5. Local(i) /\ Passes(t, i)
  BY <1>1, <1>2, <1>4, PassesOn DEF Local
<1>6. ListInv(q) /\ OfferOk(q, 1)
  BY <1>1, <1>2 DEF RegInv, ListInv, OfferInv
<1>7. ASSUME NEW k \in DOMAIN q, k > 1, q[k].do = "insert" PROVE IdSuits(q[k].id, q[k].native)'
  <2>1. q[k].id = i /\ Suits(s, q[k].native)
    BY <1>1, <1>2, <1>6, <1>7 DEF Orderly, Offered, ListInv, InsertInv
  <2> QED BY <1>2, <1>4, <2>1 DEF IdSuits, Suits
<1>8. ListInv(todo[t])'
  BY <1>1, <1>2, <1>6, <1>7, OffServes
<1>9. windows[i] # None => IdSuits(i, windows[i])'
  BY <1>1, <1>2, <1>4, <1>6 DEF OfferOk, IdSuits, Suits
<1>10. ASSUME i \in known PROVE windows'[i] # None \/ Awaits(i, r)
  <2>1. windows[i] # None \/ Awaits(i, q)
    BY <1>1, <1>2, <1>10, OwnWindow
  <2>2. Moved(q, <<>>, r) /\ <<>> \in Seq(PenStep)
    BY <1>1, <1>2 DEF Turned
  <2>3. Awaits(i, q) => Awaits(i, r)
    BY <1>2, <2>2, AwaitsStays
  <2> QED BY <1>2, <2>1, <2>3
<1>11. RegInv'
  <2>1. known' = known /\ (known # {} => PW!Other \in PW!Range(listeners))
    BY <1>2 DEF RegInv, KnownInv
  <2>2. \A u \in Threads \ {t} : todo'[u] = todo[u]
    BY <1>2 DEF Turned
  <2>3. todo[t] # <<>> /\ i = todo[t][1].id /\ i \in Ids /\ windows' = windows
    BY <1>1, <1>2
  <2> QED BY <1>1, <1>5, <1>8, <1>9, <1>10, <2>1, <2>2, <2>3, RegKeeps
<1> QED BY <1>3, <1>11
-----------------------------------------------------------------------------
(* The steps of the publisher.                                             *)

\* The first of the new steps, and the rest one for one.
LEMMA OneTurned ==
  ASSUME TodoInv, NEW t \in Threads, NEW q, q = todo[t], NEW r, r = todo'[t], NEW b, Turned(t, <<b>>)
  PROVE  /\ <<b>> \in Seq(PenStep) /\ DOMAIN <<b>> = {1} /\ <<b>>[1] = b /\ Moved(q, <<b>>, r)
         /\ 1 \in DOMAIN r /\ r[1] = b
         /\ \A k \in DOMAIN q : k > 1 => k \in DOMAIN r /\ r[k] = q[k]
<1>1. <<b>> \in Seq(PenStep) /\ Moved(q, <<b>>, r)
  BY DEF Turned
<1>2. DOMAIN <<b>> = {1} /\ <<b>>[1] = b /\ Len(<<b>>) = 1
  OBVIOUS
<1>3. 1 \in DOMAIN r /\ r[1] = b
  BY <1>1, <1>2 DEF Moved
<1>4. ASSUME NEW k \in DOMAIN q, k > 1 PROVE k \in DOMAIN r /\ r[k] = q[k]
  <2>1. k - 1 + 1 = k
    BY DEF TodoInv
  <2>2. k - 1 + Len(<<b>>) \in DOMAIN r /\ r[k - 1 + Len(<<b>>)] = q[k]
    BY <1>1, <1>4 DEF Moved
  <2> QED BY <1>2, <2>1, <2>2
<1> QED BY <1>1, <1>2, <1>3, <1>4

\* attach goes on with the state it has found or made.
LEMMA FindServes ==
  ASSUME PensInv, NEW t \in Threads, PW!FindState(t)
  PROVE  TodoInv' /\ PenInv' /\ RegInv'
<1> USE DEF PensInv
<1>1. PICK q, i, n, r : q = todo[t] /\ i = q[1].id /\ n = q[1].native /\ r = todo'[t]
  OBVIOUS
<1>2. /\ q # <<>> /\ q[1].do = "offer" /\ i \in Ids /\ 1 \in DOMAIN q /\ q \in Seq(PenStep)
      /\ Orderly(q)
  <2>1. PW!Now(t, "offer")
    BY DEF PW!FindState
  <2> QED BY <1>1, <2>1, Begun
<1>3. PICK s \in PW!States : Turned(t, <<PW!Bind(i, n, q[1].back, s)>>)
  BY <1>1, FindTurns
<1>4. PICK b : b = PW!Bind(i, n, q[1].back, s)
  OBVIOUS
<1>5. /\ b.do = "bind" /\ b.id = i /\ b.native = n /\ b.back = q[1].back /\ b.state = s
      /\ b.listener = PW!Pen
  BY <1>4 DEF PW!Bind, PW!Step
<1>6. Turned(t, <<b>>)
  BY <1>3, <1>4
<1>7. /\ <<b>> \in Seq(PenStep) /\ DOMAIN <<b>> = {1} /\ <<b>>[1] = b /\ Moved(q, <<b>>, r)
      /\ 1 \in DOMAIN r /\ r[1] = b
      /\ \A k \in DOMAIN q : k > 1 => k \in DOMAIN r /\ r[k] = q[k]
  BY <1>1, <1>6, OneTurned
<1>8. UNCHANGED <<windows, listeners, known, states, bound, lost>>
  BY DEF PW!FindState, PW!registryVars
<1>9. TodoInv' /\ PenInv'
  BY <1>6, FindKeeps DEF Turned
<1>10. Backed(q[1]) => Backed(b)
  BY <1>5 DEF Backed
<1>11. Local(i) /\ Passes(t, i)
  <2>1. Local(i)
    BY <1>8 DEF Local
  <2> QED BY <1>1, <1>2, <1>6, <1>7, <1>10, <2>1, PassesOn
<1>12. ListInv(q) /\ OfferOk(q, 1)
  BY <1>1, <1>2 DEF RegInv, ListInv, OfferInv
<1>13. InsertInv(r)'
  <2>1. \A j \in DOMAIN <<b>> : <<b>>[j].do # "insert" /\ <<b>>[j].do # "put"
    BY <1>5, <1>7
  <2>2. \E j \in DOMAIN <<b>> : <<b>>[j].listener = PW!Pen
    BY <1>5, <1>7
  <2>3. \A k \in DOMAIN q : k > 1 /\ q[k].do = "insert" =>
          /\ \A j \in DOMAIN <<b>> : <<b>>[j].do = "put" => Suits(<<b>>[j].state, q[k].native)'
          /\ IdSuits(q[k].id, q[k].native) \/ q[1].listener = PW!Pen =>
               IdSuits(q[k].id, q[k].native)' \/ \E j \in DOMAIN <<b>> : <<b>>[j].listener = PW!Pen
    BY <2>1, <2>2
  <2> QED BY <1>2, <1>7, <1>8, <1>12, <2>1, <2>3, InsertStays DEF ListInv
<1>14. OfferInv(r)'
  <2>1. b.back # None => windows[i] = None /\ \E m \in DOMAIN r : m > 1 /\ r[m].do = "insert"
    <3>1. b.back # None => windows[i] = None /\ \E m \in DOMAIN q : m > 1 /\ q[m].do = "insert"
      BY <1>1, <1>2, <1>5, <1>12 DEF OfferOk
    <3> QED BY <1>7, <3>1
  <2>2. windows[i] \in {None, n}
    BY <1>1, <1>2, <1>12 DEF OfferOk
  <2>3. OfferOk(r, 1)'
    BY <1>5, <1>7, <1>8, <2>1, <2>2 DEF OfferOk
  <2> QED BY <1>2, <1>7, <1>8, <1>12, <2>3, OfferStays DEF ListInv
<1>15. ListInv(todo[t])'
  BY <1>1, <1>13, <1>14 DEF ListInv, InsertInv, OfferInv, OfferOk, BringsIn, Backed
<1>16. Answers(i, r)
  BY <1>5, <1>7 DEF Answers
<1>17. ASSUME i \in known PROVE windows'[i] # None \/ Awaits(i, r)
  <2>1. windows[i] # None \/ Awaits(i, q)
    BY <1>1, <1>2, <1>17, OwnWindow
  <2>2. Awaits(i, q) => Awaits(i, r)
    BY <1>2, <1>7, <1>10, AwaitsStays
  <2> QED BY <1>8, <2>1, <2>2
<1>18. RegInv'
  <2>1. known' = known /\ (known # {} => PW!Other \in PW!Range(listeners))
    BY <1>8 DEF RegInv, KnownInv
  <2>2. \A u \in Threads \ {t} : todo'[u] = todo[u]
    BY <1>6 DEF Turned
  <2>3. todo[t] # <<>> /\ i = todo[t][1].id /\ i \in Ids
    BY <1>1, <1>2
  <2> QED BY <1>1, <1>11, <1>15, <1>16, <1>17, <2>1, <2>2, <2>3, RegKeeps
<1> QED BY <1>9, <1>18

\* The state is bound to what was offered.
LEMMA BindServes ==
  ASSUME PensInv, NEW t \in Threads, PW!BindNative(t)
  PROVE  TodoInv' /\ PenInv' /\ RegInv'
<1> USE DEF PensInv
<1>1. PICK q, i, n, s, r :
        q = todo[t] /\ i = q[1].id /\ n = q[1].native /\ s = q[1].state /\ r = todo'[t]
  OBVIOUS
<1>2. /\ q # <<>> /\ q[1].do = "bind" /\ i \in Ids /\ 1 \in DOMAIN q /\ q \in Seq(PenStep)
      /\ Orderly(q) /\ Head(q) = q[1]
  <2>1. PW!Now(t, "bind")
    BY DEF PW!BindNative
  <2> QED BY <1>1, <2>1, Begun
<1>3. s \in PW!States /\ AtState(t, "bind", i, s)
      /\ \E b : b.do = "put" /\ b.id = i /\ b.state = s /\ b.listener = PW!Pen
                /\ b.back = None /\ Turned(t, <<b>>)
  BY <1>1, BindTurns
<1>4. PICK b : b.do = "put" /\ b.id = i /\ b.state = s /\ b.listener = PW!Pen
               /\ b.back = None /\ Turned(t, <<b>>)
  BY <1>3
<1>5. /\ <<b>> \in Seq(PenStep) /\ DOMAIN <<b>> = {1} /\ <<b>>[1] = b /\ Moved(q, <<b>>, r)
      /\ 1 \in DOMAIN r /\ r[1] = b
      /\ \A k \in DOMAIN q : k > 1 => k \in DOMAIN r /\ r[k] = q[k]
  BY <1>1, <1>4, OneTurned
<1>6. /\ UNCHANGED <<windows, listeners, known, states>> /\ lost \subseteq lost'
      /\ bound' = [bound EXCEPT ![s] = n]
  BY <1>1, <1>2 DEF PW!BindNative, PW!registryVars
<1>7. TodoInv' /\ PenInv'
  BY <1>4, BindKeeps DEF Turned
<1>8. bound'[s] = n /\ \A x \in PW!States : x # s => bound'[x] = bound[x]
  BY <1>3, <1>6 DEF PW!TypeOK
<1>9. Local(i) /\ Passes(t, i)
  <2>1. StateOf(i, s)
    BY <1>3 DEF StateOf, PenHeads
  <2>2. Local(i)
    BY <1>6, <1>8, <2>1 DEF Local
  <2>3. \A k \in DOMAIN <<b>> : Backed(<<b>>[k])
    BY <1>4, <1>5 DEF Backed
  <2> QED BY <1>1, <1>2, <1>4, <2>2, <2>3, PassesOn
<1>10. ListInv(q) /\ OfferOk(q, 1)
  BY <1>1, <1>2 DEF RegInv, ListInv, OfferInv
<1>11. InsertInv(r)'
  <2>1. \A j \in DOMAIN <<b>> : <<b>>[j].do # "insert"
    BY <1>4, <1>5
  <2>2. \E j \in DOMAIN <<b>> : <<b>>[j].listener = PW!Pen
    BY <1>4, <1>5
  <2>3. ASSUME NEW k \in DOMAIN q, k > 1, q[k].do = "insert", NEW j \in DOMAIN <<b>>
        PROVE  Suits(<<b>>[j].state, q[k].native)'
    <3>1. q[k].native = n
      BY <1>1, <1>2, <2>3 DEF Orderly, Offered
    <3>2. <<b>>[j].state = s
      BY <1>4, <1>5
    <3> QED BY <1>8, <3>1, <3>2 DEF Suits
  <2> QED BY <1>2, <1>5, <1>6, <1>10, <2>1, <2>2, <2>3, InsertStays DEF ListInv
<1>12. OfferInv(r)'
  <2>1. windows[i] \in {None, n}
    BY <1>1, <1>2, <1>10 DEF OfferOk
  <2>2. OfferOk(r, 1)'
    BY <1>4, <1>5, <1>6, <1>8, <2>1 DEF OfferOk, Suits
  <2> QED BY <1>2, <1>5, <1>6, <1>10, <2>2, OfferStays DEF ListInv
<1>13. ListInv(todo[t])'
  BY <1>1, <1>11, <1>12 DEF ListInv, InsertInv, OfferInv, OfferOk, BringsIn, Backed
<1>14. Answers(i, r)
  BY <1>4, <1>5 DEF Answers
<1>15. ASSUME i \in known PROVE windows'[i] # None \/ Awaits(i, r)
  <2>1. windows[i] # None \/ Awaits(i, q)
    BY <1>1, <1>2, <1>15, OwnWindow
  <2>2. \A k \in DOMAIN <<b>> : Backed(<<b>>[k])
    BY <1>4, <1>5 DEF Backed
  <2>3. Awaits(i, q) => Awaits(i, r)
    BY <1>2, <1>5, <2>2, AwaitsStays
  <2> QED BY <1>6, <2>1, <2>3
<1>16. RegInv'
  <2>1. known' = known /\ (known # {} => PW!Other \in PW!Range(listeners))
    BY <1>6 DEF RegInv, KnownInv
  <2>2. \A u \in Threads \ {t} : todo'[u] = todo[u]
    BY <1>4 DEF Turned
  <2>3. todo[t] # <<>> /\ i = todo[t][1].id /\ i \in Ids
    BY <1>1, <1>2
  <2> QED BY <1>1, <1>9, <1>13, <1>14, <1>15, <2>1, <2>2, <2>3, RegKeeps
<1> QED BY <1>7, <1>16

\* Binding fails: the state that was bound is lost, one that was not suits anything.
LEMMA FailServes ==
  ASSUME PensInv, NEW t \in Threads, PW!BindFails(t)
  PROVE  TodoInv' /\ PenInv' /\ RegInv'
<1> USE DEF PensInv
<1>1. PICK q, i, s : q = todo[t] /\ i = q[1].id /\ s = q[1].state
  OBVIOUS
<1>2. /\ q # <<>> /\ q[1].do = "bind" /\ i \in Ids /\ 1 \in DOMAIN q /\ q \in Seq(PenStep)
      /\ Orderly(q) /\ Head(q) = q[1] /\ s \in PW!States
  <2>1. PW!Now(t, "bind")
    BY DEF PW!BindFails
  <2>2. /\ q # <<>> /\ q[1].do = "bind" /\ i \in Ids /\ 1 \in DOMAIN q /\ q \in Seq(PenStep)
        /\ Orderly(q) /\ Head(q) = q[1] /\ SaysWhat(q[1])
    BY <1>1, <2>1, Begun
  <2> QED BY <1>1, <2>2 DEF SaysWhat
<1>3. /\ UNCHANGED <<windows, listeners, known, states, bound>>
      /\ lost' = IF bound[s] = None THEN lost ELSE lost \cup {s}
      /\ PW!Refused(t)
  BY <1>1, <1>2 DEF PW!BindFails, PW!registryVars
<1>4. /\ TodoInv' /\ Passes(t, i) /\ \A u \in Threads \ {t} : todo'[u] = todo[u]
      /\ i \in known => windows[i] # None \/ Awaits(i, todo'[t])
      /\ Turned(t, <<>>) \/ (windows[i] = None /\ ListInv(todo[t])')
  BY <1>1, <1>2, <1>3, RefusedServes
<1>5. PenInv'
  BY FailKeeps
<1>6. Local(i)
  BY <1>3 DEF Local
<1>7. states[i] \in {None, s}
  <2>1. AtState(t, "bind", i, s)
    BY <1>1, <1>2 DEF AtState
  <2> QED BY <1>2, <2>1 DEF PenInv, HandsInv
<1>8. ASSUME NEW n PROVE IdSuits(i, n)'
  BY <1>3, <1>7 DEF IdSuits, Suits
<1>9. ListInv(todo[t])'
  <2>1. CASE Turned(t, <<>>)
    <3>1. ASSUME NEW k \in DOMAIN q, k > 1, q[k].do = "insert" PROVE IdSuits(q[k].id, q[k].native)'
      <4>1. q[k].id = i
        BY <1>1, <1>2, <3>1 DEF Orderly, Offered
      <4> QED BY <1>8, <4>1
    <3>2. ListInv(todo[t]) /\ q[1].do # "remove"
      BY <1>2 DEF RegInv
    <3> QED BY <1>1, <1>3, <2>1, <3>1, <3>2, OffServes
  <2> QED BY <1>4, <2>1
<1>10. IdSuits(i, windows[i])'
  <2>1. PICK n : n = windows'[i]
    OBVIOUS
  <2>2. IdSuits(i, n)'
    BY <1>8
  <2> QED BY <2>1, <2>2 DEF IdSuits, Suits
<1>11. RegInv'
  <2>1. known' = known /\ (known # {} => PW!Other \in PW!Range(listeners)) /\ windows' = windows
    BY <1>3 DEF RegInv, KnownInv
  <2>2. todo[t] # <<>> /\ i = todo[t][1].id /\ i \in Ids
    BY <1>1, <1>2
  <2> QED BY <1>4, <1>6, <1>9, <1>10, <2>1, <2>2, RegKeeps
<1> QED BY <1>4, <1>5, <1>11

\* A window is registered with one of its native windows.
HomeInv == \A i \in Ids : windows[i] \in NativesOf[i] \cup {None}

\* Who replays is the only one at work.
LEMMA ReplaysAlone ==
  ASSUME TodoInv, NEW t \in Threads, todo[t] # <<>>, todo[t][1].do = "replay"
  PROVE  /\ Len(todo[t]) = 1 /\ DOMAIN todo[t] = {1} /\ Tail(todo[t]) = <<>>
         /\ todo[t][1].id = None /\ todo[t][1].listener \in Listening
         /\ \A u \in Threads \ {t} : DOMAIN todo[u] = {}
<1>1. /\ todo[t] \in Seq(PenStep) /\ Orderly(todo[t]) /\ 1 \in DOMAIN todo[t]
      /\ SaysWhat(todo[t][1]) /\ todo[t][1].id = None /\ todo[t][1].listener \in Listening
  BY FirstStep DEF SaysWhat
<1>2. ASSUME NEW k \in DOMAIN todo[t] PROVE k = 1
  <2>1. todo[t][k].do = "replay"
    <3>1. todo[t][1].do \notin Answering
      BY DEF Answering
    <3>2. todo[t][k].id = None
      BY <1>1, <3>1 DEF Orderly, OneWindow
    <3> QED BY <1>1, <3>2 DEF Orderly, SaysWhat
  <2> QED BY <1>1, <2>1 DEF Orderly, InPlace
<1>3. DOMAIN todo[t] = {1} /\ Len(todo[t]) = 1
  <2>1. DOMAIN todo[t] = 1..Len(todo[t]) /\ Len(todo[t]) \in Nat
    BY <1>1
  <2>2. Len(todo[t]) \in DOMAIN todo[t]
    BY <1>1, <2>1
  <2> QED BY <1>1, <1>2, <2>1, <2>2
<1>4. Tail(todo[t]) = <<>>
  <2>1. Tail(todo[t]) \in Seq(PenStep) /\ Len(Tail(todo[t])) = 0
    BY <1>1, <1>3
  <2> QED BY ONLY <2>1, EmptySeq
<1>5. ASSUME NEW u \in Threads \ {t} PROVE DOMAIN todo[u] = {}
  BY <1>1 DEF TodoInv, Apart
<1> QED BY <1>1, <1>3, <1>4, <1>5

\* A listener is told of the windows there are.
LEMMA ReplayServes ==
  ASSUME PensInv, HomeInv, NEW t \in Threads, PW!Replay(t)
  PROVE  TodoInv' /\ PenInv' /\ RegInv'
<1> USE DEF PensInv
<1> DEFINE K == {j \in Ids : windows[j] # None}
<1>1. PICK q, l : q = todo[t] /\ l = q[1].listener
  OBVIOUS
<1>2. q # <<>> /\ q[1].do = "replay" /\ Head(q) = q[1] /\ q \in Seq(PenStep)
  BY <1>1, FirstStep DEF PW!Replay, PW!Now
<1>3. /\ Len(q) = 1 /\ DOMAIN q = {1} /\ Tail(q) = <<>> /\ l \in Listening
      /\ \A u \in Threads \ {t} : DOMAIN todo[u] = {}
  BY <1>1, <1>2, ReplaysAlone
<1>4. PICK there \in PW!Ascending(K) :
        PW!Becomes(t, [k \in DOMAIN there |-> PW!Offer(l, there[k], windows[there[k]], None)])
  BY <1>1, <1>2 DEF PW!Replay
<1>5. PICK new : new = [k \in DOMAIN there |-> PW!Offer(l, there[k], windows[there[k]], None)]
  OBVIOUS
<1> HIDE DEF K
<1>6. PW!Cardinality(K) \in Nat
  <2>1. IsFiniteSet(Ids)
    BY PensAssumption DEF PW!PenWindowsAssumption, PW!IsFiniteSet, IsFiniteSet
  <2>2. IsFiniteSet(K)
    BY <2>1, FS_Subset DEF K
  <2> QED BY <2>2, FS_CardinalityType, PensCount
<1>7. there \in [1..PW!Cardinality(K) -> K] /\ PW!Range(there) = K
  BY <1>4 DEF PW!Ascending
<1>8. \A k \in DOMAIN there : /\ there[k] \in Ids /\ windows[there[k]] \in NativesOf[there[k]]
                              /\ windows[there[k]] # None
  BY <1>7 DEF K, HomeInv
<1>9. DOMAIN new = 1..PW!Cardinality(K) /\ DOMAIN there = 1..PW!Cardinality(K)
  BY <1>5, <1>7
<1>10. ASSUME NEW k \in DOMAIN new
       PROVE  /\ new[k] \in PenStep /\ new[k].do = "offer" /\ new[k].id = there[k]
              /\ new[k].native = windows[there[k]] /\ new[k].listener = l /\ new[k].back = None
  <2>1. k \in DOMAIN there
    BY <1>9
  <2>2. PICK j, n : j = there[k] /\ n = windows[there[k]]
    OBVIOUS
  <2>3. j \in Ids /\ n \in PW!Natives
    BY <1>8, <2>1, <2>2 DEF PW!Natives
  <2>4. PICK e : e = PW!Offer(l, j, n, None)
    OBVIOUS
  <2>5. /\ e \in PenStep /\ e.do = "offer" /\ e.id = j /\ e.native = n
        /\ e.listener = l /\ e.back = None
    BY <1>3, <2>3, <2>4 DEF PW!Offer, PW!Step, PenStep
  <2>6. new[k] = e
    BY <1>5, <2>1, <2>2, <2>4
  <2> QED BY <2>2, <2>5, <2>6
<1>11. new \in Seq(PenStep)
  <2>1. new \in [1..PW!Cardinality(K) -> PenStep]
    BY <1>5, <1>9, <1>10
  <2> QED BY <1>6, <2>1
<1>12. Orderly(new)
  <2>1. \A k \in DOMAIN new : SaysWhat(new[k])
    BY <1>3, <1>8, <1>9, <1>10, PensAssumption DEF SaysWhat, PW!PenWindowsAssumption
  <2>2. InPlace(new) /\ OneWindow(new) /\ Offered(new)
    BY <1>10 DEF InPlace, OneWindow, Offered, Answering
  <2> QED BY <2>1, <2>2 DEF Orderly
<1>13. todo' = [todo EXCEPT ![t] = new] /\ todo \in [Threads -> Seq(PenStep)]
  <2>1. new \o <<>> = new
    BY <1>11, ConcatEmptySeq
  <2>2. new \o Tail(q) = new
    BY <1>3, <2>1
  <2> QED BY <1>1, <1>4, <1>5, <2>2 DEF PW!Becomes, TodoInv
<1>14. TodoInv'
  BY <1>3, <1>11, <1>12, <1>13, TodoChanges
<1>15. todo'[t] = new /\ \A u \in Threads \ {t} : todo'[u] = todo[u]
  BY <1>13
<1>16. UNCHANGED <<desktop, windows, listeners, known, states, made, bound, entries, hooked, lost>>
  BY DEF PW!Replay, PW!penVars, PW!registryVars
<1>17. PenInv'
  <2>1. Moved(q, new, new)
    <3>1. new \o <<>> = new
      BY <1>11, ConcatEmptySeq
    <3>2. new \o Tail(q) = new
      BY <1>3, <3>1
    <3> QED BY <1>2, <1>11, <3>2, StepsMove
  <2>2. Turned(t, new)
    BY <1>1, <1>2, <1>11, <1>14, <1>15, <2>1 DEF Turned
  <2>3. todo[t][1].do \notin PenHeads /\ \A k \in DOMAIN new : new[k].do \notin PenHeads
    BY <1>1, <1>2, <1>10 DEF PenHeads
  <2> QED BY <1>16, <2>2, <2>3, TurnsQuietly
<1>18. \A u \in Threads : ListInv(todo[u])'
  <2>1. InsertInv(new)'
    BY <1>10 DEF InsertInv
  <2>2. l = PW!Other => PW!Other \in PW!Range(listeners)
    BY <1>1, <1>2, <1>3 DEF RegInv, ListInv, OfferInv, OfferOk
  <2>3. OfferInv(new)'
    BY <1>8, <1>9, <1>10, <1>16, <2>2 DEF OfferInv, OfferOk
  <2>4. \A u \in Threads \ {t} : DOMAIN todo'[u] = {}
    BY <1>3, <1>15
  <2> QED BY <1>15, <2>1, <2>3, <2>4 DEF ListInv, InsertInv, OfferInv, OfferOk, BringsIn, Backed
<1>19. KnownInv'
  <2>1. \A u \in Threads, j \in Ids : ~Awaits(j, todo[u])
    BY <1>1, <1>2, <1>3 DEF Awaits
  <2>2. known \subseteq Ids
    BY DEF PW!TypeOK
  <2> QED BY <1>16, <2>1, <2>2 DEF RegInv, KnownInv
<1>20. FollowInv'
  <2>1. ASSUME NEW j \in Ids, windows[j] # None, PW!Pen \in PW!Range(listeners)
        PROVE  IdSuits(j, windows[j]) \/ Answers(j, new)
    <3>1. CASE IdSuits(j, windows[j])
      BY <3>1
    <3>2. CASE ~IdSuits(j, windows[j])
      <4>1. PICK u \in Threads : Answers(j, todo[u])
        BY <2>1, <3>2 DEF RegInv, FollowInv
      <4>2. l = PW!Pen
        BY <1>1, <1>3, <4>1 DEF Answers
      <4>3. PICK k \in DOMAIN there : there[k] = j
        BY <1>7, <2>1, AtRange DEF K
      <4> QED BY <1>9, <1>10, <4>2, <4>3 DEF Answers
    <3> QED BY <3>1, <3>2
  <2>2. ASSUME NEW j \in Ids, windows'[j] # None, PW!Pen \in PW!Range(listeners)'
        PROVE  IdSuits(j, windows[j])' \/ \E u \in Threads : Answers(j, todo'[u])
    <3>1. IdSuits(j, windows[j])' <=> IdSuits(j, windows[j])
      BY <1>16 DEF IdSuits, Suits
    <3> QED BY <1>15, <1>16, <2>1, <2>2, <3>1
  <2> QED BY <2>2 DEF FollowInv, Answers
<1> QED BY <1>14, <1>17, <1>18, <1>19, <1>20 DEF RegInv

\* An operation that only gives a thread its first steps.
LEMMA BeginServes ==
  ASSUME PensInv, ~Overlap, NEW t \in Threads, NEW i \in Ids, NEW new \in Seq(PenStep), Orderly(new),
         PW!Begin(t, new, {i}), \A k \in DOMAIN new : new[k].id = i /\ new[k].do \notin PenHeads,
         UNCHANGED <<desktop, windows, listeners, known, states, made, bound, entries, hooked, lost>>,
         ListInv(new)
  PROVE  TodoInv' /\ PenInv' /\ RegInv'
<1> USE DEF PensInv
<1>1. /\ TodoInv' /\ todo[t] = <<>> /\ todo'[t] = new
      /\ \A u \in Threads \ {t} : todo'[u] = todo[u]
  <2>1. \A k \in DOMAIN new : new[k].id \in {i} \cap Ids
    OBVIOUS
  <2>2. PICK on : on = {i}
    OBVIOUS
  <2>3. PW!Begin(t, new, on) /\ \A k \in DOMAIN new : new[k].id \in on \cap Ids
    BY <2>1, <2>2
  <2> QED BY <2>3, TodoBegins
<1>2. PenInv'
  <2>1. ASSUME NEW u \in Threads, NEW do \in PenHeads, NEW j \in Ids, NEW x \in PW!States
        PROVE  AtState(u, do, j, x)' = AtState(u, do, j, x)
    <3>1. CASE u # t
      BY <1>1, <3>1 DEF AtState
    <3>2. CASE u = t
      <4>1. todo'[t] # <<>> => 1 \in DOMAIN new
        BY <1>1
      <4>2. ~AtState(t, do, j, x) /\ ~AtState(t, do, j, x)'
        BY <1>1, <4>1 DEF AtState
      <4> QED BY <3>2, <4>2 DEF AtState
    <3> QED BY <3>1, <3>2
  <2> QED BY <2>1, PenQuiet
<1>3. \A u \in Threads : ListInv(todo[u])'
  <2>1. \A u \in Threads : ListInv(todo'[u])
    BY <1>1 DEF RegInv
  <2> QED BY <2>1 DEF ListInv, InsertInv, OfferInv, OfferOk, BringsIn, Backed, IdSuits, Suits
<1>4. KnownInv'
  <2>1. \A u \in Threads, j \in known : Awaits(j, todo[u]) => Awaits(j, todo'[u])
    BY <1>1 DEF Awaits
  <2> QED BY <2>1 DEF RegInv, KnownInv
<1>5. FollowInv'
  <2>1. \A u \in Threads, j \in Ids : Answers(j, todo[u]) => Answers(j, todo'[u])
    BY <1>1 DEF Answers
  <2>2. \A j \in Ids : IdSuits(j, windows[j])' <=> IdSuits(j, windows[j])
    BY DEF IdSuits, Suits
  <2> QED BY <2>1, <2>2 DEF RegInv, FollowInv
<1> QED BY <1>1, <1>2, <1>3, <1>4, <1>5 DEF RegInv

LEMMA OperationsServe ==
  ASSUME PensInv, ~Overlap, NEW t \in Threads, NEW i \in Ids, NEW n,
         \/ PW!unregister(t, i) \/ PW!unregister_window(t, i)
         \/ n \in NativesOf[i] /\ (PW!register_native(t, i, n) \/ PW!register_window(t, i, n))
  PROVE  TodoInv' /\ PenInv' /\ RegInv'
<1>0. i # None /\ (n \in NativesOf[i] => n \in PW!Natives)
  BY PensAssumption DEF PW!PenWindowsAssumption, PW!Natives
<1>1. PICK a, b, c, d :
        /\ a = PW!Unlist(i) /\ b = PW!OfferAll(i, n)
        /\ c = PW!Offer(PW!Pen, i, n, None) /\ d = PW!Forget(PW!Pen, i)
  OBVIOUS
<1>2. /\ a \in PenStep /\ a.do = "remove" /\ a.id = i
      /\ b.do = "offerAll" /\ b.id = i /\ b.native = n /\ (n \in NativesOf[i] => b \in PenStep)
  BY <1>0, <1>1 DEF PW!Unlist, PW!OfferAll, PW!Step, PenStep
<1>3. /\ c.do = "offer" /\ c.id = i /\ c.native = n /\ c.listener = PW!Pen /\ c.back = None
      /\ n \in NativesOf[i] => c \in PenStep
      /\ d \in PenStep /\ d.do = "forget" /\ d.id = i /\ d.listener = PW!Pen
  BY <1>0, <1>1 DEF PW!Offer, PW!Forget, PW!Step, PenStep, Listening
<1>4. UNCHANGED <<desktop, windows, listeners, known, states, made, bound, entries, hooked, lost>>
  BY DEF PW!unregister, PW!unregister_window, PW!register_native, PW!register_window,
         PW!registryVars, PW!penVars
<1>5. CASE PW!unregister(t, i)
  <2>1. <<a>> \in Seq(PenStep) /\ DOMAIN <<a>> = {1} /\ <<a>>[1] = a
    BY <1>2
  <2>2. Orderly(<<a>>)
    BY <1>0, <1>2, <2>1 DEF Orderly, SaysWhat, InPlace, OneWindow, Offered
  <2>3. ListInv(<<a>>)
    BY <1>2, <2>1 DEF ListInv, InsertInv, OfferInv, OfferOk
  <2>4. PW!Begin(t, <<a>>, {i})
    BY <1>1, <1>5 DEF PW!unregister
  <2>5. \A k \in DOMAIN <<a>> : <<a>>[k].id = i /\ <<a>>[k].do \notin PenHeads
    BY <1>2, <2>1 DEF PenHeads
  <2> QED BY <1>4, <2>1, <2>2, <2>3, <2>4, <2>5, BeginServes
<1>6. CASE PW!unregister_window(t, i)
  <2>1. <<d>> \in Seq(PenStep) /\ DOMAIN <<d>> = {1} /\ <<d>>[1] = d
    BY <1>3
  <2>2. Orderly(<<d>>)
    BY <1>0, <1>3, <2>1 DEF Orderly, SaysWhat, InPlace, OneWindow, Offered, Listening
  <2>3. ListInv(<<d>>)
    BY <1>3, <2>1 DEF ListInv, InsertInv, OfferInv, OfferOk
  <2>4. PW!Begin(t, <<d>>, {i})
    BY <1>1, <1>6 DEF PW!unregister_window
  <2>5. \A k \in DOMAIN <<d>> : <<d>>[k].id = i /\ <<d>>[k].do \notin PenHeads
    BY <1>3, <2>1 DEF PenHeads
  <2> QED BY <1>4, <2>1, <2>2, <2>3, <2>4, <2>5, BeginServes
<1>7. CASE n \in NativesOf[i] /\ PW!register_window(t, i, n)
  <2>1. <<c>> \in Seq(PenStep) /\ DOMAIN <<c>> = {1} /\ <<c>>[1] = c
    BY <1>3, <1>7
  <2>2. Orderly(<<c>>)
    BY <1>0, <1>3, <1>7, <2>1 DEF Orderly, SaysWhat, InPlace, OneWindow, Offered, Listening
  <2>3. ListInv(<<c>>)
    <3>1. windows[i] = None /\ PW!Pen # PW!Other
      BY <1>7 DEF PW!register_window, PW!Pen, PW!Other
    <3> QED BY <1>3, <2>1, <3>1 DEF ListInv, InsertInv, OfferInv, OfferOk
  <2>4. PW!Begin(t, <<c>>, {i})
    BY <1>1, <1>7 DEF PW!register_window
  <2>5. \A k \in DOMAIN <<c>> : <<c>>[k].id = i /\ <<c>>[k].do \notin PenHeads
    BY <1>3, <2>1 DEF PenHeads
  <2> QED BY <1>4, <2>1, <2>2, <2>3, <2>4, <2>5, BeginServes
<1>8. CASE n \in NativesOf[i] /\ PW!register_native(t, i, n)
  <2>1. /\ <<a, b>> \in Seq(PenStep) /\ DOMAIN <<a, b>> = {1, 2} /\ Len(<<a, b>>) = 2
        /\ <<a, b>>[1] = a /\ <<a, b>>[2] = b
    BY <1>2, <1>8
  <2>2. Orderly(<<a, b>>)
    <3>1. \A k \in DOMAIN <<a, b>> : SaysWhat(<<a, b>>[k])
      BY <1>0, <1>2, <1>8, <2>1 DEF SaysWhat
    <3>2. InPlace(<<a, b>>)
      BY <1>2, <2>1 DEF InPlace
    <3>3. OneWindow(<<a, b>>) /\ Offered(<<a, b>>)
      BY <1>2, <2>1 DEF OneWindow, Offered
    <3> QED BY <3>1, <3>2, <3>3 DEF Orderly
  <2>3. ListInv(<<a, b>>)
    BY <1>2, <2>1 DEF ListInv, InsertInv, OfferInv, OfferOk
  <2>4. PW!Begin(t, <<a, b>>, {i})
    BY <1>1, <1>8 DEF PW!register_native
  <2>5. \A k \in DOMAIN <<a, b>> : <<a, b>>[k].id = i /\ <<a, b>>[k].do \notin PenHeads
    BY <1>2, <2>1 DEF PenHeads
  <2> QED BY <1>4, <2>1, <2>2, <2>3, <2>4, <2>5, BeginServes
<1> QED BY <1>5, <1>6, <1>7, <1>8

\* A state is made for an id on its own.
LEMMA RegisterServes ==
  ASSUME PensInv, ~Overlap, NEW t \in Threads, NEW i \in Ids, PW!register_window_id(t, i)
  PROVE  TodoInv' /\ PenInv' /\ RegInv'
<1> USE DEF PensInv
<1>1. TodoInv' /\ PenInv' /\ UNCHANGED todo
  BY RegisterKeeps
<1>2. /\ states' = [states EXCEPT ![i] = made + 1] /\ made < MaxStates
      /\ lost \subseteq lost' /\ UNCHANGED <<windows, listeners, known, bound>>
      /\ PW!Begin(t, <<>>, {i})
  BY DEF PW!register_window_id, PW!registryVars
<1>3. states'[i] = made + 1 /\ made + 1 \in PW!States /\ made + 1 \notin 1..made
      /\ states \in [Ids -> PW!States \cup {None}]
  BY <1>2, PensAssumption DEF PW!TypeOK, PW!PenWindowsAssumption, PW!States
<1>4. Local(i)
  BY <1>2, <1>3 DEF Local
<1>5. \A u \in Threads : ListInv(todo[u])'
  <2> SUFFICES ASSUME NEW u \in Threads PROVE ListInv(todo[u])'
    OBVIOUS
  <2>1. \A k \in DOMAIN todo[u] : todo[u][k].id # i
    BY <1>2 DEF PW!Begin, PW!Touches
  <2>2. ListInv(todo[u]) /\ todo'[u] = todo[u]
    BY <1>1 DEF RegInv
  <2> QED BY <1>4, <2>1, <2>2, ListElsewhere
<1>6. KnownInv'
  BY <1>1, <1>2 DEF RegInv, KnownInv, Awaits, Backed
<1>7. FollowInv'
  <2>1. ASSUME NEW j \in Ids, windows[j] # None, PW!Pen \in PW!Range(listeners)
        PROVE  IdSuits(j, windows[j])' \/ \E u \in Threads : Answers(j, todo[u])
    <3>1. CASE j = i
      <4>1. bound'[made + 1] = None
        BY <1>2, <1>3 DEF PenInv, EntriesInv
      <4> QED BY <1>3, <3>1, <4>1 DEF IdSuits, Suits
    <3>2. CASE j # i
      <4>1. PICK n : n = windows[j]
        OBVIOUS
      <4>2. IdSuits(j, n) => IdSuits(j, n)'
        BY <1>4, <3>2, SuitsStay
      <4>3. windows'[j] = n
        BY <1>2, <4>1
      <4>4. IdSuits(j, n) \/ \E u \in Threads : Answers(j, todo[u])
        BY <2>1, <4>1 DEF RegInv, FollowInv
      <4> QED BY <4>2, <4>3, <4>4 DEF IdSuits, Suits
    <3> QED BY <3>1, <3>2
  <2> QED BY <1>1, <1>2, <2>1 DEF FollowInv, Answers
<1> QED BY <1>1, <1>5, <1>6, <1>7 DEF RegInv

\* A listener is on the list, and a thread goes on with the windows there are.
LEMMA ListenerServes ==
  ASSUME PensInv, ~Overlap, NEW t \in Threads, NEW l \in Listening, PW!add_listener(t, l)
  PROVE  TodoInv' /\ PenInv' /\ RegInv'
<1> USE DEF PensInv
<1>1. PICK e : e = PW!Step("replay", None, None, l, None, None)
  OBVIOUS
<1>2. e \in PenStep /\ e.do = "replay" /\ e.id = None /\ e.listener = l
  BY <1>1 DEF PW!Step, PenStep
<1>3. /\ UNCHANGED <<desktop, windows, known, states, made, bound, entries, hooked, lost>>
      /\ listeners' = Append(listeners, l) /\ todo' = [todo EXCEPT ![t] = <<e>>]
      /\ \A u \in Threads : todo[u] = <<>>
  BY <1>1 DEF PW!add_listener, PW!Begin, PW!Idle, PW!penVars
<1>4. <<e>> \in Seq(PenStep) /\ DOMAIN <<e>> = {1} /\ <<e>>[1] = e /\ DOMAIN <<>> = {}
  BY <1>2
<1>5. todo'[t] = <<e>> /\ \A u \in Threads \ {t} : todo'[u] = <<>>
  BY <1>3 DEF TodoInv
<1>6. Orderly(<<e>>)
  BY <1>2, <1>4 DEF Orderly, SaysWhat, InPlace, OneWindow, Offered
<1>7. TodoInv'
  <2>1. \A u \in Threads \ {t} : DOMAIN todo[u] = {}
    BY <1>3, <1>4
  <2> QED BY <1>3, <1>4, <1>6, <2>1, TodoChanges
<1>8. PenInv'
  <2>1. ASSUME NEW u \in Threads, NEW do \in PenHeads, NEW j \in Ids, NEW x \in PW!States
        PROVE  AtState(u, do, j, x)' = AtState(u, do, j, x)
    <3>1. ~AtState(u, do, j, x) /\ ~AtState(u, do, j, x)'
      BY <1>2, <1>3, <1>4, <1>5 DEF AtState, PenHeads
    <3> QED BY <3>1 DEF AtState
  <2> QED BY <1>3, <2>1, PenQuiet
<1>9. /\ PW!Range(listeners) \subseteq PW!Range(listeners)' /\ l \in PW!Range(listeners)'
      /\ PW!Range(listeners)' \subseteq PW!Range(listeners) \cup {l}
  <2>1. listeners \in Seq(Listening)
    BY DEF PW!TypeOK, Listening
  <2>2. /\ \A k \in DOMAIN listeners : k \in DOMAIN listeners' /\ listeners'[k] = listeners[k]
        /\ \A k \in DOMAIN listeners' : k \in DOMAIN listeners \/ listeners'[k] = l
        /\ \E k \in DOMAIN listeners' : listeners'[k] = l
    <3>1. /\ DOMAIN listeners' = 1..(Len(listeners) + 1) /\ listeners'[Len(listeners) + 1] = l
          /\ DOMAIN listeners = 1..Len(listeners) /\ Len(listeners) \in Nat
      BY <1>3, <2>1
    <3>2. \A k \in 1..Len(listeners) : listeners'[k] = listeners[k]
      BY <1>3, <2>1
    <3> QED BY <3>1, <3>2
  <2> QED BY <2>2 DEF PW!Range
<1>10. \A u \in Threads : ListInv(todo[u])'
  <2>1. ListInv(<<e>>)'
    BY <1>2, <1>4, <1>9 DEF ListInv, InsertInv, OfferInv, OfferOk
  <2>2. ListInv(<<>>)'
    BY <1>4 DEF ListInv, InsertInv, OfferInv
  <2> QED BY <1>5, <2>1, <2>2 DEF ListInv, InsertInv, OfferInv, OfferOk, BringsIn, Backed
<1>11. KnownInv'
  <2>1. \A u \in Threads, j \in known : ~Awaits(j, todo[u])
    BY <1>3, <1>4 DEF Awaits
  <2> QED BY <1>3, <1>9, <2>1 DEF RegInv, KnownInv
<1>12. FollowInv'
  <2>1. CASE l = PW!Pen
    <3>1. \A j \in Ids : Answers(j, <<e>>)
      BY <1>2, <1>4, <2>1 DEF Answers
    <3> QED BY <1>5, <3>1 DEF FollowInv, Answers
  <2>2. CASE l # PW!Pen
    <3>1. \A u \in Threads, j \in Ids : ~Answers(j, todo[u])
      BY <1>3, <1>4 DEF Answers
    <3>2. PW!Pen \in PW!Range(listeners)' => PW!Pen \in PW!Range(listeners)
      BY <1>9, <2>2
    <3> QED BY <1>3, <3>1, <3>2 DEF RegInv, FollowInv, IdSuits, Suits
  <2> QED BY <2>1, <2>2
<1> QED BY <1>7, <1>8, <1>10, <1>11, <1>12 DEF RegInv
-----------------------------------------------------------------------------
(* All steps together.                                                     *)

\* What every variable ranges over.
LEMMA OperationsType ==
  ASSUME PensInv, HomeInv, NEW t \in Threads, PW!Operations(t)
  PROVE  PW!TypeOK' /\ HomeInv'
<1> USE DEF PensInv
<1>1. ASSUME NEW new, NEW on, PW!Begin(t, new, on) PROVE ops' \in 0..MaxOps
  BY <1>1, PensAssumption DEF PW!Begin, PW!TypeOK, PW!PenWindowsAssumption
<1>2. CASE \E i \in Ids : \/ PW!unregister(t, i) \/ PW!unregister_window(t, i)
                         \/ \E n \in NativesOf[i] : PW!register_native(t, i, n) \/ PW!register_window(t, i, n)
  <2>1. \E new, on : PW!Begin(t, new, on)
    BY <1>2 DEF PW!unregister, PW!unregister_window, PW!register_native, PW!register_window
  <2>2. ops' \in 0..MaxOps
    BY <1>1, <2>1
  <2>3. UNCHANGED <<desktop, windows, listeners, known, states, made, bound, entries, hooked,
                    lost, receivers>>
    BY <1>2 DEF PW!unregister, PW!unregister_window, PW!register_native, PW!register_window,
                PW!registryVars, PW!penVars, PW!clientVars
  <2> QED BY <2>2, <2>3 DEF PW!TypeOK, HomeInv
<1>3. ASSUME NEW i \in Ids, PW!register_window_id(t, i) PROVE PW!TypeOK' /\ HomeInv'
  <2>1. /\ made < MaxStates /\ PW!Begin(t, <<>>, {i}) /\ made' = made + 1
        /\ states' = [states EXCEPT ![i] = made + 1]
        /\ lost' = IF states[i] = None \/ bound[states[i]] = None THEN lost
                   ELSE lost \cup {states[i]}
        /\ UNCHANGED <<desktop, windows, listeners, known, bound, entries, hooked, receivers>>
    BY <1>3 DEF PW!register_window_id, PW!registryVars, PW!clientVars
  <2>2. ops' \in 0..MaxOps
    BY <1>1, <2>1
  <2>3. made' \in 0..MaxStates /\ made + 1 \in PW!States
    BY <2>1, PensAssumption DEF PW!TypeOK, PW!PenWindowsAssumption, PW!States
  <2>4. states' \in [Ids -> PW!States \cup {None}] /\ lost' \subseteq PW!States
    BY <2>1, <2>3 DEF PW!TypeOK
  <2> QED BY <2>1, <2>2, <2>3, <2>4 DEF PW!TypeOK, HomeInv
<1>4. ASSUME NEW l \in Listening, PW!add_listener(t, l) PROVE PW!TypeOK' /\ HomeInv'
  <2>1. \E new, on : PW!Begin(t, new, on)
    BY <1>4 DEF PW!add_listener
  <2>2. ops' \in 0..MaxOps
    BY <1>1, <2>1
  <2>3. /\ listeners' = Append(listeners, l)
        /\ UNCHANGED <<desktop, windows, known, states, made, bound, entries, hooked, lost, receivers>>
    BY <1>4 DEF PW!add_listener, PW!penVars, PW!clientVars
  <2>4. listeners' \in Seq(Listening)
    BY <2>3 DEF PW!TypeOK, Listening
  <2> QED BY <2>2, <2>3, <2>4 DEF PW!TypeOK, Listening, HomeInv
<1> QED BY <1>2, <1>3, <1>4 DEF PW!Operations, Listening

LEMMA StepsType ==
  ASSUME PensInv, HomeInv, NEW t \in Threads, PW!Steps(t)
  PROVE  PW!TypeOK' /\ HomeInv'
<1> USE DEF PensInv
<1> DEFINE e == todo[t][1]
<1>1. ASSUME NEW do, PW!Now(t, do), do # "replay"
      PROVE  /\ e.id \in Ids /\ e \in PenStep /\ SaysWhat(e) /\ Head(todo[t]) = e /\ e.do = do
  BY <1>1, Begun
<1>2. CASE PW!RemoveWindow(t)
  <2>1. windows' = [windows EXCEPT ![e.id] = None]
    BY <1>1, <1>2 DEF PW!RemoveWindow
  <2>2. UNCHANGED <<desktop, listeners, known, states, made, bound, entries, hooked, lost, receivers, ops>>
    BY <1>2 DEF PW!RemoveWindow, PW!penVars, PW!clientVars
  <2> QED BY <2>1, <2>2 DEF PW!TypeOK, HomeInv
<1>3. CASE PW!OfferWindow(t) \/ PW!Replay(t)
  <2>1. UNCHANGED <<desktop, windows, listeners, known, states, made, bound, entries, hooked, lost, receivers, ops>>
    BY <1>3 DEF PW!OfferWindow, PW!Replay, PW!penVars, PW!clientVars, PW!registryVars
  <2> QED BY <2>1 DEF PW!TypeOK, HomeInv
<1>4. CASE PW!InsertWindow(t)
  <2>1. windows' = [windows EXCEPT ![e.id] = e.native] /\ e.native \in NativesOf[e.id] /\ e.id \in Ids
    BY <1>1, <1>4 DEF PW!InsertWindow, SaysWhat
  <2>2. e.native \in PW!Natives
    BY <2>1 DEF PW!Natives
  <2>3. UNCHANGED <<desktop, listeners, known, states, made, bound, entries, hooked, lost, receivers, ops>>
    BY <1>4 DEF PW!InsertWindow, PW!penVars, PW!clientVars
  <2>4. HomeInv'
    BY <2>1 DEF PW!TypeOK, HomeInv
  <2> QED BY <2>1, <2>2, <2>3, <2>4 DEF PW!TypeOK
<1>5. CASE PW!OtherAnswers(t) \/ PW!OtherForgets(t)
  <2>1. known' \subseteq known \cup {e.id} /\ e.id \in Ids
    <3>1. PW!Now(t, "offer") \/ PW!Now(t, "forget")
      BY <1>5 DEF PW!OtherAnswers, PW!OtherForgets
    <3>2. e.id \in Ids /\ Head(todo[t]) = e
      BY <1>1, <3>1
    <3> QED BY <1>5, <3>2 DEF PW!OtherAnswers, PW!OtherForgets
  <2>2. UNCHANGED <<desktop, windows, listeners, states, made, bound, entries, hooked, lost, receivers, ops>>
    BY <1>5 DEF PW!OtherAnswers, PW!OtherForgets, PW!penVars, PW!clientVars
  <2> QED BY <2>1, <2>2 DEF PW!TypeOK, HomeInv
<1>6. CASE PW!FindState(t)
  <2>1. made' = made \/ (made < MaxStates /\ made' = made + 1)
    BY <1>6 DEF PW!FindState
  <2>2. made' \in 0..MaxStates
    BY <2>1, PensAssumption DEF PW!TypeOK, PW!PenWindowsAssumption
  <2>3. UNCHANGED <<desktop, windows, listeners, known, states, bound, entries, hooked, lost, receivers, ops>>
    BY <1>6 DEF PW!FindState, PW!registryVars, PW!clientVars
  <2> QED BY <2>2, <2>3 DEF PW!TypeOK, HomeInv
<1>7. CASE PW!BindNative(t)
  <2>1. /\ e.native \in NativesOf[e.id] /\ e.id \in Ids /\ e.state \in PW!States /\ Head(todo[t]) = e
    BY <1>1, <1>7 DEF PW!BindNative, SaysWhat
  <2>2. e.native \in PW!Natives
    BY <2>1 DEF PW!Natives
  <2>3. /\ entries' = Append(entries, <<e.native, e.state>>) /\ hooked' \subseteq hooked \cup {e.native}
        /\ bound' = [bound EXCEPT ![e.state] = e.native] /\ lost' \subseteq lost \cup {e.state}
        /\ UNCHANGED <<desktop, windows, listeners, known, states, made, receivers, ops>>
    BY <1>7, <2>1 DEF PW!BindNative, PW!registryVars, PW!clientVars, PW!Push, PW!attach_hwnd,
                PW!attach_view, PW!attach_wayland, PW!attach_window
  <2>4. entries' \in Seq(PW!Natives \X PW!States)
    <3>1. PICK x : x = <<e.native, e.state>>
      OBVIOUS
    <3>2. x \in PW!Natives \X PW!States
      BY <2>1, <2>2, <3>1
    <3> QED BY <2>3, <3>1, <3>2 DEF PW!TypeOK
  <2> QED BY <2>1, <2>2, <2>3, <2>4 DEF PW!TypeOK, HomeInv
<1>8. CASE PW!BindFails(t)
  <2>1. e.state \in PW!States /\ Head(todo[t]) = e
    BY <1>1, <1>8 DEF PW!BindFails, SaysWhat
  <2>2. /\ entries' = entries \/ PW!Unbind(e.native)
        /\ lost' \subseteq lost \cup {e.state}
        /\ UNCHANGED <<desktop, windows, listeners, known, states, made, bound, hooked, receivers, ops>>
    BY <1>8, <2>1 DEF PW!BindFails, PW!registryVars, PW!clientVars
  <2>3. entries' \in Seq(PW!Natives \X PW!States)
    BY <2>2, Retains DEF PW!TypeOK
  <2> QED BY <2>1, <2>2, <2>3 DEF PW!TypeOK, HomeInv
<1>9. CASE PW!PutState(t)
  <2>1. e.state \in PW!States /\ states' = [states EXCEPT ![e.id] = e.state]
    BY <1>1, <1>9 DEF PW!PutState, SaysWhat
  <2>2. UNCHANGED <<desktop, windows, listeners, known, made, bound, entries, hooked, lost, receivers, ops>>
    BY <1>9 DEF PW!PutState, PW!registryVars, PW!clientVars
  <2> QED BY <2>1, <2>2 DEF PW!TypeOK, HomeInv
<1>10. CASE PW!ForgetState(t)
  <2>1. states' = [states EXCEPT ![e.id] = None]
    BY <1>1, <1>10 DEF PW!ForgetState
  <2>2. UNCHANGED <<desktop, windows, listeners, known, made, bound, entries, hooked, lost, receivers, ops>>
    BY <1>10 DEF PW!ForgetState, PW!registryVars, PW!clientVars
  <2> QED BY <2>1, <2>2 DEF PW!TypeOK, HomeInv
<1>11. CASE PW!DetachState(t)
  <2>1. Head(todo[t]) = e
    BY <1>1, <1>11 DEF PW!DetachState
  <2>2. /\ entries' = entries \/ PW!Unbind(bound[e.state])
        /\ hooked' \subseteq hooked /\ (bound' = bound \/ bound' = [bound EXCEPT ![e.state] = None])
        /\ UNCHANGED <<desktop, windows, listeners, known, states, made, lost, receivers, ops>>
    BY <1>11, <2>1 DEF PW!DetachState, PW!registryVars, PW!clientVars, PW!detach_hwnd, PW!detach_view
  <2>3. entries' \in Seq(PW!Natives \X PW!States)
    BY <2>2, Retains DEF PW!TypeOK
  <2> QED BY <2>2, <2>3 DEF PW!TypeOK, HomeInv
<1> QED BY <1>2, <1>3, <1>4, <1>5, <1>6, <1>7, <1>8, <1>9, <1>10, <1>11 DEF PW!Steps

\* A client has receivers of one id, or none yet.
ClientsInv ==
  client \in [PenClients -> [id : Ids \cup {None}, events : PW!States \cup {None, "closed"},
                          hover : PW!States \cup {None, "closed"}]]

\* Clients take receivers and leave all else alone.
LEMMA ClientsServe ==
  ASSUME PensInv, HomeInv, ClientsInv, NEW c \in PenClients,
         (\E i \in Ids : PW!subscribe_events(c, i)) \/ PW!subscribe_hover(c)
  PROVE  PensInv' /\ HomeInv' /\ ClientsInv'
<1> USE DEF PensInv
<1>1. UNCHANGED <<desktop, windows, listeners, known, states, made, bound, entries, hooked, lost, todo, ops>>
  BY DEF PW!subscribe_events, PW!subscribe_hover, PW!registryVars, PW!penVars
<1>2. ASSUME NEW i \in Ids, NEW end \in {"events", "hover"}, PW!Take(c, i, end)
      PROVE  receivers' \subseteq PW!States \X {"events", "hover"} /\ ClientsInv'
  <2>1. PICK s : s = states[i]
    OBVIOUS
  <2>2. s \in PW!States \cup {None}
    BY <2>1 DEF PW!TypeOK
  <2>3. receivers' \subseteq receivers \cup {<<s, end>>} /\ (receivers' # receivers => s # None)
    BY <1>2, <2>1 DEF PW!Take
  <2>4. \E x \in PW!States \cup {"closed"} :
          client' = [client EXCEPT ![c] = [[@ EXCEPT !.id = i] EXCEPT ![end] = x]]
    BY <1>2, <2>1, <2>2 DEF PW!Take
  <2>5. PICK x \in PW!States \cup {"closed"} :
          client' = [client EXCEPT ![c] = [[@ EXCEPT !.id = i] EXCEPT ![end] = x]]
    BY <2>4
  <2>6. ClientsInv'
    <3>1. CASE end = "events"
      BY <2>5, <3>1 DEF ClientsInv
    <3>2. CASE end = "hover"
      BY <2>5, <3>2 DEF ClientsInv
    <3> QED BY <3>1, <3>2
  <2>7. receivers \subseteq PW!States \X {"events", "hover"}
    BY DEF PW!TypeOK
  <2>8. receivers' \subseteq PW!States \X {"events", "hover"}
    BY <2>2, <2>3, <2>7
  <2> QED BY <2>6, <2>8
<1>3. \E i \in Ids, end \in {"events", "hover"} : PW!Take(c, i, end)
  BY DEF PW!subscribe_events, PW!subscribe_hover, ClientsInv
<1>4. receivers' \subseteq PW!States \X {"events", "hover"} /\ ClientsInv'
  BY <1>2, <1>3
<1>5. PW!TypeOK' /\ HomeInv'
  BY <1>1, <1>4 DEF PW!TypeOK, HomeInv
<1>6. TodoInv'
  BY <1>1 DEF TodoInv, Apart
<1>7. PenInv'
  <2>1. \A u \in Threads, do \in PenHeads, i \in Ids, s \in PW!States :
          AtState(u, do, i, s)' = AtState(u, do, i, s)
    BY <1>1 DEF AtState
  <2> QED BY <1>1, <2>1, PenQuiet
<1>8. RegInv'
  BY <1>1 DEF RegInv, ListInv, InsertInv, OfferInv, OfferOk, BringsIn, Backed, KnownInv, Awaits,
              FollowInv, Answers, IdSuits, Suits
<1> QED BY <1>4, <1>5, <1>6, <1>7, <1>8

\* All there is of the windows' side of the pens.
WindowsInv == PensInv /\ HomeInv /\ ClientsInv

LEMMA WindowsStep ==
  ASSUME WindowsInv, ~Overlap, PW!Next
  PROVE  WindowsInv'
<1> USE DEF WindowsInv
<1>1. CASE \E c \in PenClients : (\E i \in Ids : PW!subscribe_events(c, i)) \/ PW!subscribe_hover(c)
  BY <1>1, ClientsServe
<1>2. ASSUME NEW t \in Threads, PW!Operations(t) PROVE WindowsInv'
  <2>1. PW!TypeOK' /\ HomeInv'
    BY <1>2, OperationsType
  <2>2. TodoInv' /\ PenInv' /\ RegInv'
    <3>1. CASE \E i \in Ids : PW!unregister(t, i) \/ PW!unregister_window(t, i)
      BY <3>1, OperationsServe
    <3>2. CASE \E i \in Ids : \E n \in NativesOf[i] : PW!register_native(t, i, n) \/ PW!register_window(t, i, n)
      BY <3>2, OperationsServe
    <3>3. CASE \E i \in Ids : PW!register_window_id(t, i)
      BY <3>3, RegisterServes
    <3>4. CASE \E l \in Listening : PW!add_listener(t, l)
      BY <3>4, ListenerServes
    <3> QED BY <1>2, <3>1, <3>2, <3>3, <3>4 DEF PW!Operations, Listening
  <2>3. UNCHANGED client
    BY <1>2 DEF PW!Operations, PW!unregister, PW!unregister_window, PW!register_native,
                PW!register_window, PW!register_window_id, PW!add_listener, PW!clientVars
  <2> QED BY <2>1, <2>2, <2>3 DEF PensInv, ClientsInv
<1>3. ASSUME NEW t \in Threads, PW!Steps(t) PROVE WindowsInv'
  <2>1. PW!TypeOK' /\ HomeInv'
    BY <1>3, StepsType
  <2>2. TodoInv' /\ PenInv' /\ RegInv'
    BY <1>3, RemoveServes, OffersServe, InsertServes, ReplayServes, OtherAnswersServes,
       OtherForgetsServes, FindServes, BindServes, FailServes, PutServes, ForgetServes, DetachServes
    DEF PW!Steps
  <2>3. UNCHANGED client
    BY <1>3 DEF PW!Steps, PW!RemoveWindow, PW!OfferWindow, PW!InsertWindow, PW!Replay,
                PW!OtherAnswers, PW!OtherForgets, PW!FindState, PW!BindNative, PW!BindFails,
                PW!PutState, PW!ForgetState, PW!DetachState, PW!clientVars
  <2> QED BY <2>1, <2>2, <2>3 DEF PensInv, ClientsInv
<1> QED BY <1>1, <1>2, <1>3 DEF PW!Next

LEMMA WindowsBegin ==
  ASSUME PW!Init
  PROVE  WindowsInv
<1>1. /\ desktop \in Targets /\ windows = [i \in Ids |-> None] /\ states = [i \in Ids |-> None]
      /\ listeners = <<>> /\ known = {} /\ made = 0 /\ bound = [s \in PW!States |-> None]
      /\ entries = <<>> /\ hooked = {} /\ lost = {} /\ receivers = {} /\ ops = 0
      /\ client = [c \in PenClients |-> [id |-> None, events |-> None, hover |-> None]]
      /\ todo = [t \in Threads |-> <<>>]
  BY DEF PW!Init
<1>2. PW!TypeOK
  BY <1>1, PensAssumption DEF PW!TypeOK, PW!PenWindowsAssumption
<1>3. TodoInv
  <2>1. \A t \in Threads : todo[t] = <<>> /\ DOMAIN todo[t] = {}
    BY <1>1
  <2>2. \A t \in Threads : Orderly(todo[t])
    BY <2>1 DEF Orderly, InPlace, OneWindow, Offered
  <2>3. \A t, u \in Threads : Apart(t, u)
    BY <2>1 DEF Apart
  <2> QED BY <1>1, <2>2, <2>3 DEF TodoInv
<1>4. PenInv
  <2>1. \A t \in Threads, do \in PenHeads, i \in Ids, s \in PW!States : ~AtState(t, do, i, s)
    BY <1>1 DEF AtState
  <2>2. \A i \in Ids, s \in PW!States : ~StateOf(i, s)
    BY <1>1, <2>1, PensAssumption DEF StateOf, PW!PenWindowsAssumption, PW!States
  <2>3. HandsInv
    BY <2>1 DEF HandsInv, PenHeads
  <2> QED BY <1>1, <2>2, <2>3 DEF PenInv, OwnersInv, BindingsInv, EntriesInv
<1>5. RegInv
  <2>1. \A t \in Threads : DOMAIN todo[t] = {}
    BY <1>1
  <2> QED BY <1>1, <2>1 DEF RegInv, ListInv, InsertInv, OfferInv, KnownInv, FollowInv
<1>6. HomeInv /\ ClientsInv
  BY <1>1 DEF HomeInv, ClientsInv
<1> QED BY <1>2, <1>3, <1>4, <1>5, <1>6 DEF WindowsInv, PensInv

\* The strokes and the other plugins leave the windows alone.
LEMMA WindowsStay ==
  ASSUME WindowsInv, UNCHANGED windowVars
  PROVE  WindowsInv'
<1> USE DEF WindowsInv, PensInv
<1>1. UNCHANGED <<desktop, windows, listeners, known, states, made, bound, entries, hooked, lost,
                  receivers, client, todo, ops>>
  BY DEF windowVars
<1>2. PW!TypeOK' /\ HomeInv' /\ ClientsInv'
  BY <1>1 DEF PW!TypeOK, HomeInv, ClientsInv
<1>3. TodoInv'
  BY <1>1 DEF TodoInv, Apart
<1>4. PenInv'
  <2>1. \A u \in Threads, do \in PenHeads, i \in Ids, s \in PW!States :
          AtState(u, do, i, s)' = AtState(u, do, i, s)
    BY <1>1 DEF AtState
  <2> QED BY <1>1, <2>1, PenQuiet
<1>5. RegInv'
  BY <1>1 DEF RegInv, ListInv, InsertInv, OfferInv, OfferOk, BringsIn, Backed, KnownInv, Awaits,
              FollowInv, Answers, IdSuits, Suits
<1> QED BY <1>2, <1>3, <1>4, <1>5

\* While nobody works on them, the state that is bound to a native window and was
\* not lost is that of the window's one id.
LEMMA OneIsBound ==
  ASSUME PensInv, PW!Idle, desktop \in {"windows", "macos"},
         NEW s \in PW!States, s \notin lost, bound[s] # None
  PROVE  \E i \in Ids : bound[s] \in NativesOf[i] /\ states[i] = s
<1>1. PICK i \in Ids : /\ bound[s] \in NativesOf[i]
                       /\ \/ states[i] = s
                          \/ \E t \in Threads, do \in {"put", "detach"} : AtState(t, do, i, s)
  BY DEF PensInv, PenInv, BindingsInv
<1>2. \A t \in Threads, do \in PenHeads : ~AtState(t, do, i, s)
  BY DEF PW!Idle, AtState
<1> QED BY <1>1, <1>2 DEF PenHeads

LEMMA BoundAreHeard ==
  ASSUME PensInv
  PROVE  PW!BoundIsHeard
<1> SUFFICES ASSUME NEW i \in Ids, PW!Idle, NEW s, s = states[i], s # None, bound[s] # None,
                    ({s} \cup PW!Hears(bound[s])) \cap lost = {}
             PROVE  /\ s \in PW!Hears(bound[s])
                    /\ desktop \in {"windows", "macos"} => PW!Hears(bound[s]) = {s}
  BY DEF PW!BoundIsHeard
<1> USE DEF PensInv
<1>1. s \in PW!States /\ s \notin lost /\ StateOf(i, s)
  BY DEF PW!TypeOK, StateOf
<1>2. PICK n : n = bound[s]
  OBVIOUS
<1>3. n \in NativesOf[i] /\ n # None
  BY <1>1, <1>2 DEF PenInv, OwnersInv
<1>4. PICK k \in DOMAIN entries : entries[k] = <<n, s>>
  BY <1>1, <1>2 DEF PenInv, BindingsInv
<1>5. entries \in Seq(PW!Natives \X PW!States) /\ DOMAIN entries \subseteq Nat
      /\ desktop \in {"windows", "macos", "x11", "wayland"}
  BY PensAssumption DEF PW!TypeOK, PW!PenWindowsAssumption
<1>6. CASE desktop = "x11"
  BY <1>2, <1>4, <1>6 DEF PW!Hears
<1>7. CASE desktop = "wayland"
  BY <1>2, <1>4, <1>7 DEF PW!Hears
<1>8. CASE desktop \in {"windows", "macos"}
  <2>1. PICK mine : mine = {j \in DOMAIN entries : entries[j][1] = n}
    OBVIOUS
  <2>2. mine \in SUBSET Nat /\ mine # {}
    BY <1>4, <1>5, <2>1
  <2>3. PICK m \in mine : \A j \in mine : ~(<<j, m>> \in OpToRel(<, Nat))
    BY <2>2, NatLessThanWellFounded, WFMin
  <2>4. \A j \in mine : m <= j
    <3>1. \A j \in mine : ~(j < m)
      BY <2>2, <2>3 DEF OpToRel
    <3> QED BY <2>2, <3>1
  <2>5. desktop = "windows" => n \in hooked
    BY <1>1, <1>2 DEF PenInv, BindingsInv
  <2>6. PW!Hears(n) = {entries[j][2] : j \in {h \in mine : \A l \in mine : h <= l}}
    <3>1. CASE desktop = "windows"
      BY <2>1, <2>5, <3>1 DEF PW!Hears
    <3>2. CASE desktop = "macos"
      BY <2>1, <3>2 DEF PW!Hears
    <3> QED BY <1>8, <3>1, <3>2
  <2>7. ASSUME NEW x \in PW!Hears(n) PROVE x = s
    <3>1. PICK j \in DOMAIN entries : entries[j][1] = n /\ entries[j][2] = x
      BY <2>1, <2>6
    <3>2. x \in PW!States /\ x \notin lost
      BY <1>2, <1>5, <3>1
    <3>3. bound[x] = n
      BY <3>1, <3>2 DEF PenInv, EntriesInv
    <3>4. PICK h \in Ids : n \in NativesOf[h] /\ states[h] = x
      BY <1>3, <1>8, <3>2, <3>3, OneIsBound
    <3>5. h = i
      BY <1>3, <3>4, PensAssumption DEF PW!PenWindowsAssumption
    <3> QED BY <3>4, <3>5
  <2>8. entries[m][2] \in PW!Hears(n)
    BY <2>4, <2>6
  <2> QED BY <1>2, <2>7, <2>8
<1> QED BY <1>5, <1>6, <1>7, <1>8

LEMMA GoneAreClosed ==
  ASSUME PensInv
  PROVE  PW!GoneIsClosed
<1> SUFFICES ASSUME PW!Idle, desktop \in {"windows", "macos"}, NEW s \in 1..made,
                    \A i \in Ids : states[i] # s, s \notin lost
             PROVE  ~PW!HeldOpen(s)
  BY DEF PW!GoneIsClosed
<1> USE DEF PensInv
<1>1. s \in PW!States
  BY PensAssumption DEF PW!TypeOK, PW!States, PW!PenWindowsAssumption
<1>2. bound[s] = None
  BY <1>1, OneIsBound
<1>3. ASSUME NEW k \in DOMAIN entries, entries[k][2] = s PROVE FALSE
  <2>1. bound[s] = entries[k][1]
    BY <1>3 DEF PenInv, EntriesInv
  <2>2. entries[k][1] \in PW!Natives
    BY <1>3 DEF PW!TypeOK
  <2> QED BY <1>2, <2>1, <2>2, PensAssumption DEF PW!PenWindowsAssumption
<1> QED BY <1>2, <1>3 DEF PW!HeldOpen

LEMMA ListenersAgreeing ==
  ASSUME PensInv
  PROVE  PW!ListenersAgree
<1> SUFFICES ASSUME PW!Idle PROVE PW!ListenersAgree
  BY DEF PW!ListenersAgree
<1> USE DEF PensInv
<1>1. \A t \in Threads : DOMAIN todo[t] = {}
  BY DEF PW!Idle
<1>2. \A i \in known : windows[i] # None
  BY <1>1 DEF RegInv, KnownInv, Awaits
<1>3. \A i \in Ids : windows[i] # None /\ PW!Pen \in PW!Range(listeners) => IdSuits(i, windows[i])
  BY <1>1 DEF RegInv, FollowInv, Answers
<1> QED BY <1>2, <1>3 DEF PW!ListenersAgree, IdSuits, Suits

\* Where one thread at a time works on an id, the windows, their states and those
\* who listen for them fit together whenever the threads rest (crates/window and
\* the pen publisher), on each of the platforms.
THEOREM WindowsAlwaysSettle == ~Overlap => (PensSpec => []WindowsSettled)
<1> SUFFICES ASSUME ~Overlap PROVE PensSpec => []WindowsSettled
  OBVIOUS
<1>1. PensInit => WindowsInv
  BY WindowsBegin DEF PensInit
<1>2. WindowsInv /\ [PensNext]_penVars => WindowsInv'
  <2> SUFFICES ASSUME WindowsInv, [PensNext]_penVars PROVE WindowsInv'
    OBVIOUS
  <2>1. CASE part = "windows" /\ PW!Next /\ UNCHANGED <<part, strokeVars, pluginVars>>
    BY <2>1, WindowsStep
  <2>2. CASE part = "strokes" /\ PS!Next /\ UNCHANGED <<part, windowVars, pluginVars>>
    BY <2>2, WindowsStay
  <2>3. CASE UNCHANGED penVars
    BY <2>3, WindowsStay DEF penVars
  <2> QED BY <2>1, <2>2, <2>3 DEF PensNext
<1>3. WindowsInv => WindowsSettled
  BY BoundAreHeard, GoneAreClosed, ListenersAgreeing
  DEF WindowsInv, PensInv, WindowsSettled, PW!WindowsSettled
<1> QED BY <1>1, <1>2, <1>3, PTL DEF PensSpec
=============================================================================
