------------------------------ MODULE WakeLocks ------------------------------
(***************************************************************************)
(* The WakeLock guards a service body takes through its ServiceContext     *)
(* (crates/plugins/src/service.rs), and the locks the platform holds for   *)
(* them.  A guard is given back by awaiting release, which calls the       *)
(* platform, or by dropping it, which only notifies.                       *)
(***************************************************************************)
EXTENDS Naturals

CONSTANT Locks

VARIABLES
  guard,     \* the client's side of a lock
  wire,      \* its frame that is under way
  held,      \* locks the platform holds
  releases,  \* how often the platform was asked to release a lock
  runtime    \* whether the guards can still reach the runtime

vars == <<guard, wire, held, releases, runtime>>

TypeOK ==
  /\ guard \in [Locks -> {"none", "asking", "held", "releasing", "gone", "lost"}]
  /\ wire \in [Locks -> {"none", "acquire", "granted", "denied", "release", "notify"}]
  /\ held \subseteq Locks
  /\ releases \in [Locks -> 0..2]
  /\ runtime \in BOOLEAN

Init ==
  /\ guard = [l \in Locks |-> "none"] /\ wire = [l \in Locks |-> "none"]
  /\ held = {} /\ releases = [l \in Locks |-> 0]
  /\ runtime = TRUE

Sends(l, frame) == wire' = [wire EXCEPT ![l] = frame]
Becomes(l, g) == guard' = [guard EXCEPT ![l] = g]

acquire_wakelock(l) ==
  /\ guard[l] = "none" /\ runtime
  /\ Becomes(l, "asking") /\ Sends(l, "acquire")
  /\ UNCHANGED <<held, releases, runtime>>

\* The platform sees the Cancel of an abandoned call in time, or does not.
PlatformAcquires(l) ==
  /\ wire[l] = "acquire"
  /\ \/ held' = held \cup {l} /\ Sends(l, "granted")
     \/ Sends(l, "denied") /\ UNCHANGED held
  /\ UNCHANGED <<guard, releases, runtime>>

\* The answer makes the guard, if somebody still waits for it.
AcquireAnswered(l) ==
  /\ wire[l] \in {"granted", "denied"}
  /\ Sends(l, "none")
  /\ guard' = [guard EXCEPT ![l] =
                 IF @ # "asking" THEN @ ELSE IF wire[l] = "granted" THEN "held" ELSE "gone"]
  /\ UNCHANGED <<held, releases, runtime>>

\* The future of acquire or of release is dropped: its call is cancelled.
Abandon(l) ==
  /\ guard[l] \in {"asking", "releasing"}
  /\ Becomes(l, "lost")
  /\ UNCHANGED <<wire, held, releases, runtime>>

\* release forgets the runtime first, so the guard's own drop does nothing more.
release(l) ==
  /\ guard[l] = "held"
  /\ IF runtime THEN Becomes(l, "releasing") /\ Sends(l, "release")
                ELSE Becomes(l, "lost") /\ UNCHANGED wire
  /\ UNCHANGED <<held, releases, runtime>>

drop(l) ==
  /\ guard[l] = "held"
  /\ IF runtime THEN Becomes(l, "gone") /\ Sends(l, "notify")
                ELSE Becomes(l, "lost") /\ UNCHANGED wire
  /\ UNCHANGED <<held, releases, runtime>>

\* A notification is always run, a cancelled call perhaps not.
PlatformReleases(l) ==
  /\ wire[l] \in {"release", "notify"}
  /\ Sends(l, "none")
  /\ \/ held' = held \ {l} /\ releases' = [releases EXCEPT ![l] = @ + 1]
     \/ guard[l] = "lost" /\ UNCHANGED <<held, releases>>
  /\ guard' = [guard EXCEPT ![l] = IF @ = "releasing" THEN "gone" ELSE @]
  /\ UNCHANGED runtime

\* The guards keep a weak reference only.
RuntimeDropped == runtime /\ runtime' = FALSE /\ UNCHANGED <<guard, wire, held, releases>>

Next ==
  \/ \E l \in Locks :
       \/ acquire_wakelock(l) \/ AcquireAnswered(l) \/ Abandon(l) \/ release(l) \/ drop(l)
       \/ PlatformAcquires(l) \/ PlatformReleases(l)
  \/ RuntimeDropped

Fairness ==
  \A l \in Locks : WF_vars(PlatformAcquires(l) \/ AcquireAnswered(l) \/ PlatformReleases(l))

Spec == Init /\ [][Next]_vars /\ Fairness

\* A lock the platform holds has a guard, or a frame that will give it one or
\* release it, or belongs to a guard that was lost: the future that asked for it
\* or released it was dropped, or the runtime was gone.  Nobody is asked twice.
LocksTracked ==
  \A l \in Locks :
    /\ l \in held => guard[l] \in {"asking", "held", "releasing", "lost"} \/ wire[l] = "notify"
    /\ releases[l] <= 1

\* A guard that is dropped is given back by the platform in the end.
LocksReturned == \A l \in Locks : guard[l] = "gone" ~> l \notin held
=============================================================================
