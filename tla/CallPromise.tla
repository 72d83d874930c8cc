---------------------------- MODULE CallPromise ----------------------------
(***************************************************************************)
(* What Runtime::call promises whoever makes a call: it is accepted at     *)
(* most once by a side that serves it, and it ends at most once, either    *)
(* with the answer to this very call or, without one, by being given up    *)
(* (handle dropped, runtime shut down).                                    *)
(***************************************************************************)
CONSTANTS Calls, None

VARIABLES
  status,    \* call -> "idle", "open" or "over"
  accepted,  \* the calls some side has started to serve
  answer     \* call -> the call whose answer it received

vars == <<status, accepted, answer>>

Init ==
  /\ status = [c \in Calls |-> "idle"]
  /\ accepted = {}
  /\ answer = [c \in Calls |-> None]

\* A call served on the caller's own thread is accepted as it is made.
Open(c) ==
  /\ status[c] = "idle"
  /\ status' = [status EXCEPT ![c] = "open"]
  /\ accepted' \in {accepted, accepted \cup {c}}
  /\ UNCHANGED answer

Accept(c) ==
  /\ status[c] # "idle"
  /\ c \notin accepted
  /\ accepted' = accepted \cup {c}
  /\ UNCHANGED <<status, answer>>

Answer(c) ==
  /\ status[c] = "open"
  /\ c \in accepted
  /\ status' = [status EXCEPT ![c] = "over"]
  /\ answer' = [answer EXCEPT ![c] = c]
  /\ UNCHANGED accepted

\* Shutdown gives up many calls at once.
GiveUp(cs) ==
  /\ cs # {}
  /\ \A c \in cs : status[c] = "open"
  /\ status' = [c \in Calls |-> IF c \in cs THEN "over" ELSE status[c]]
  /\ UNCHANGED <<accepted, answer>>

Next ==
  \/ \E c \in Calls : Open(c) \/ Accept(c) \/ Answer(c)
  \/ \E cs \in SUBSET Calls : GiveUp(cs)

Spec == Init /\ [][Next]_vars
=============================================================================
