--------------------------- MODULE InstanceRouting ---------------------------
(***************************************************************************)
(* Instances of stateful plugins: Runtime::create_instance and the client  *)
(* that #[istmo::plugin(init = ...)] generates, the host that it generates *)
(* with its map of instances, RoutingTables.instances, and the two ways an *)
(* instance is destroyed (by the drop of a client here, by a frame of the  *)
(* peer).                                                                  *)
(*                                                                         *)
(* The call that creates an instance is reduced to what its caller can     *)
(* see of it; CallRouting has the details.                                 *)
(***************************************************************************)
EXTENDS Naturals, Sequences, FiniteSets

CONSTANTS
  Clients,      \* clients in this process
  PeerClients,  \* clients of the peer
  Hosted,       \* plugins hosted here
  Remote,       \* plugins of the peer
  OutboundCap,  \* RuntimeConfig.outbound_capacity
  None

AllClients == Clients \cup PeerClients
Plugins == Hosted \cup Remote

ASSUME InstanceRoutingAssumption ==
  /\ IsFiniteSet(AllClients) /\ Clients \cap PeerClients = {}
  /\ Hosted \cap Remote = {}
  /\ OutboundCap \in Nat \ {0}
  /\ None \notin AllClients \cup Plugins

VARIABLES
  client,        \* client -> its progress
  plugin,        \* client -> the plugin it is a client of
  instance_id,   \* client -> its instance, once created
  found,         \* client -> what destroy_instance found in the registry
  host,          \* client -> progress of the creation at the plugin's host
  tripped,       \* clients whose creation's token is tripped
  instances,     \* plugin -> its host's map from instances to their client
  next_instance, \* plugin -> the number of its next instance
  routing,       \* RoutingTables.instances
  outbound,      \* frames in the outbound channel
  released       \* instances the peer was told to destroy

hostVars == <<host, instances, next_instance>>
vars == <<client, plugin, instance_id, found, hostVars, tripped, routing,
          outbound, released>>

\* Every creation takes a number of its plugin, each plugin counts from 1.
InstanceIds == 1..(1 + Cardinality(AllClients))

Frame == [kind : {"Create", "Cancel", "Respond", "Failed", "Destroy"},
          client : AllClients, id : InstanceIds \cup {0}]

ClientPhase == {"idle", "creating", "answered", "live", "failed", "abandoned",
                "destroy", "lookup", "remove", "reap", "send", "gone"}
HostPhase == {"none", "running", "created", "refused", "register", "respond",
              "respond_error", "done", "discarded"}

TypeOK ==
  /\ client \in [AllClients -> ClientPhase]
  /\ plugin \in [AllClients -> Plugins]
  /\ instance_id \in [AllClients -> InstanceIds \cup {0}]
  /\ found \in [AllClients -> Plugins \cup {None}]
  /\ host \in [AllClients -> HostPhase]
  /\ tripped \subseteq AllClients
  /\ instances \in [Plugins -> [InstanceIds -> AllClients \cup {None}]]
  /\ next_instance \in [Plugins -> InstanceIds]
  /\ routing \in [InstanceIds -> Plugins \cup {None}]
  /\ outbound \in Seq(Frame)
  /\ Len(outbound) <= OutboundCap
  /\ released \subseteq InstanceIds

Init ==
  /\ client = [c \in AllClients |-> "idle"]
  /\ plugin \in {f \in [AllClients -> Plugins] : \A c \in PeerClients : f[c] \in Hosted}
  /\ instance_id = [c \in AllClients |-> 0]
  /\ found = [c \in AllClients |-> None]
  /\ host = [c \in AllClients |-> "none"]
  /\ tripped = {}
  /\ instances = [p \in Plugins |-> [n \in InstanceIds |-> None]]
  /\ next_instance = [p \in Plugins |-> 1]
  /\ routing = [n \in InstanceIds |-> None]
  /\ outbound = <<>>
  /\ released = {}

\* A blocking send into the outbound channel.
send_outbound(kind, c, n) ==
  /\ Len(outbound) < OutboundCap
  /\ outbound' = Append(outbound, [kind |-> kind, client |-> c, id |-> n])
-----------------------------------------------------------------------------
(* Creation.                                                               *)

\* Runtime::create_instance: a thread here, or a frame to the peer.
CreateInstance(c) ==
  /\ client[c] = "idle"
  /\ client' = [client EXCEPT ![c] = "creating"]
  /\ \/ /\ plugin[c] \in Hosted
        /\ host' = [host EXCEPT ![c] = "running"]
        /\ UNCHANGED outbound
     \/ /\ plugin[c] \in Remote
        /\ send_outbound("Create", c, 0)
        /\ UNCHANGED host
  /\ UNCHANGED <<plugin, instance_id, found, tripped, instances, next_instance,
                 routing, released>>

\* An inbound CreateInstance of the peer.
PeerCreateInstance(c) ==
  /\ client[c] = "idle"
  /\ client' = [client EXCEPT ![c] = "creating"]
  /\ host' = [host EXCEPT ![c] = "running"]
  /\ UNCHANGED <<plugin, instance_id, found, tripped, instances, next_instance,
                 routing, outbound, released>>

\* Variant: the number is the size of the map.
HostCreatesBySize(c) ==
  LET p == plugin[c]
      n == 1 + Cardinality({k \in InstanceIds : instances[p][k] # None}) IN
  /\ host[c] = "running"
  /\ instances' = [instances EXCEPT ![p][n] = c]
  /\ instance_id' = [instance_id EXCEPT ![c] = n]
  /\ host' = [host EXCEPT ![c] = "created"]
  /\ UNCHANGED <<client, plugin, found, next_instance, tripped, routing, outbound,
                 released>>

\* The generated Dispatch::create_instance, here or at the peer: a number and
\* an entry in the host's map, or an error (a payload it cannot decode).
HostCreates(c) ==
  LET p == plugin[c] IN
  /\ host[c] = "running"
  /\ \/ /\ instances' = [instances EXCEPT ![p][next_instance[p]] = c]
        /\ instance_id' = [instance_id EXCEPT ![c] = next_instance[p]]
        /\ next_instance' = [next_instance EXCEPT ![p] = @ + 1]
        /\ host' = [host EXCEPT ![c] = "created"]
     \/ /\ host' = [host EXCEPT ![c] = "refused"]
        /\ UNCHANGED <<instances, instance_id, next_instance>>
  /\ UNCHANGED <<client, plugin, found, tripped, routing, outbound, released>>

\* dispatch_hosted_create_instance, after the host returned: the token leaves
\* the table and a cancelled creation is discarded, instance and all.
FinishCreate(c) ==
  /\ host[c] \in {"created", "refused"}
  /\ plugin[c] \in Hosted
  /\ host' = [host EXCEPT ![c] =
                IF c \in tripped THEN "discarded"
                ELSE IF host[c] = "created" THEN "register" ELSE "respond_error"]
  /\ UNCHANGED <<client, plugin, instance_id, found, tripped, instances,
                 next_instance, routing, outbound, released>>

\* ... the instance is registered ...
RegisterHosted(c) ==
  /\ host[c] = "register"
  /\ host' = [host EXCEPT ![c] = "respond"]
  /\ routing' = [routing EXCEPT ![instance_id[c]] = plugin[c]]
  /\ UNCHANGED <<client, plugin, instance_id, found, tripped, instances,
                 next_instance, outbound, released>>

\* ... and the caller is answered: here if it still waits, over the wire if
\* it does not, or is the peer.
RespondCreated(c) ==
  /\ host[c] \in {"respond", "respond_error"}
  /\ host' = [host EXCEPT ![c] = "done"]
  /\ \/ /\ client[c] = "creating" /\ c \in Clients
        /\ client' = [client EXCEPT ![c] = IF host[c] = "respond" THEN "answered" ELSE "failed"]
        /\ UNCHANGED outbound
     \/ /\ client[c] # "creating" \/ c \in PeerClients
        /\ send_outbound(IF host[c] = "respond" THEN "Respond" ELSE "Failed", c, instance_id[c])
        /\ UNCHANGED client
  /\ UNCHANGED <<plugin, instance_id, found, tripped, instances, next_instance,
                 routing, released>>

\* The peer's host answers a creation of ours (onCreateInstance).
PeerResponds(c) ==
  /\ host[c] \in {"created", "refused"}
  /\ plugin[c] \in Remote
  /\ host' = [host EXCEPT ![c] = "done"]
  /\ client' = [client EXCEPT ![c] =
                  CASE @ # "creating" -> @
                    [] @ = "creating" /\ host[c] = "created" -> "answered"
                    [] OTHER -> "failed"]
  /\ UNCHANGED <<plugin, instance_id, found, tripped, instances, next_instance,
                 routing, outbound, released>>

\* from_runtime_with, after its await: the client registers its instance too.
AcquireClient(c) ==
  /\ client[c] = "answered"
  /\ client' = [client EXCEPT ![c] = "live"]
  /\ routing' = [routing EXCEPT ![instance_id[c]] = plugin[c]]
  /\ UNCHANGED <<plugin, instance_id, found, hostVars, tripped, outbound, released>>

\* The future of from_runtime_with is dropped while it awaits; if the answer
\* has not come, its CallHandle cancels: a hosted creation's token, which the
\* dispatch holds until FinishCreate, or the peer's, by a Cancel.
Abandon(c) ==
  /\ client[c] \in {"creating", "answered"}
  /\ client' = [client EXCEPT ![c] = "abandoned"]
  /\ \/ /\ client[c] = "creating" /\ plugin[c] \in Hosted
        /\ tripped' = IF host[c] \in {"running", "created", "refused"}
                      THEN tripped \cup {c} ELSE tripped
        /\ UNCHANGED outbound
     \/ /\ client[c] = "creating" /\ plugin[c] \in Remote
        /\ send_outbound("Cancel", c, 0)
        /\ UNCHANGED tripped
     \/ /\ client[c] = "answered"
        /\ UNCHANGED <<tripped, outbound>>
  /\ UNCHANGED <<plugin, instance_id, found, hostVars, routing, released>>
-----------------------------------------------------------------------------
(* Destruction.                                                            *)

\* Dropping a client calls Runtime::destroy_instance, which asks the registry
\* who has the instance and whether that plugin is hosted here.
DropClient(c) ==
  /\ client[c] = "live"
  /\ c \in Clients
  /\ found' = [found EXCEPT ![c] = routing[instance_id[c]]]
  /\ client' = [client EXCEPT ![c] =
                  IF routing[instance_id[c]] \in Hosted THEN "lookup" ELSE "destroy"]
  /\ UNCHANGED <<plugin, instance_id, hostVars, tripped, routing, outbound, released>>

\* Not hosted: the entry is removed ...
ForgetRemote(c) ==
  /\ client[c] = "destroy"
  /\ client' = [client EXCEPT ![c] = "send"]
  /\ routing' = [routing EXCEPT ![instance_id[c]] = None]
  /\ UNCHANGED <<plugin, instance_id, found, hostVars, tripped, outbound, released>>

\* Variant: try_send.
SendDestroyOrDrop(c) ==
  /\ client[c] = "send"
  /\ client' = [client EXCEPT ![c] = "gone"]
  /\ \/ send_outbound("Destroy", c, instance_id[c])
     \/ Len(outbound) = OutboundCap /\ UNCHANGED outbound
  /\ UNCHANGED <<plugin, instance_id, found, hostVars, tripped, routing, released>>

\* ... and the peer told.
SendDestroy(c) ==
  /\ client[c] = "send"
  /\ client' = [client EXCEPT ![c] = "gone"]
  /\ send_outbound("Destroy", c, instance_id[c])
  /\ UNCHANGED <<plugin, instance_id, found, hostVars, tripped, routing, released>>

\* An inbound DestroyInstance of the peer.
PeerDestroyInstance(c) ==
  /\ client[c] = "live"
  /\ c \in PeerClients
  /\ client' = [client EXCEPT ![c] = "lookup"]
  /\ UNCHANGED <<plugin, instance_id, found, hostVars, tripped, routing, outbound, released>>

\* dispatch_hosted_destroy_instance: who has the instance ...
LookUpOwner(c) ==
  /\ client[c] = "lookup"
  /\ client' = [client EXCEPT ![c] = "remove"]
  /\ found' = [found EXCEPT ![c] = routing[instance_id[c]]]
  /\ UNCHANGED <<plugin, instance_id, hostVars, tripped, routing, outbound, released>>

\* ... forget it ...
RemoveInstance(c) ==
  /\ client[c] = "remove"
  /\ client' = [client EXCEPT ![c] = IF found[c] \in Hosted THEN "reap" ELSE "gone"]
  /\ routing' = [routing EXCEPT ![instance_id[c]] = None]
  /\ UNCHANGED <<plugin, instance_id, found, hostVars, tripped, outbound, released>>

\* ... and let its host drop it.
Reap(c) ==
  /\ client[c] = "reap"
  /\ client' = [client EXCEPT ![c] = "gone"]
  /\ instances' = [instances EXCEPT ![found[c]][instance_id[c]] = None]
  /\ UNCHANGED <<plugin, instance_id, found, host, next_instance, tripped,
                 routing, outbound, released>>
-----------------------------------------------------------------------------
\* What the peer does with a frame.  Its onDestroyInstance gets the number and
\* no plugin; the runtimes in runtime/ drop nothing then.
PeerReceives(frame) ==
  LET c == frame.client IN
  \/ /\ frame.kind = "Create"
     /\ host' = [host EXCEPT ![c] = "running"]
     /\ UNCHANGED <<client, released>>
  \/ /\ frame.kind = "Cancel"
     /\ \E p \in {host[c], "discarded"} :
          host' = [host EXCEPT ![c] = IF @ = "running" THEN p ELSE @]
     /\ UNCHANGED <<client, released>>
  \/ /\ frame.kind \in {"Respond", "Failed"}
     /\ client' = [client EXCEPT ![c] =
                     IF c \in Clients THEN @
                     ELSE IF frame.kind = "Respond" THEN "live" ELSE "failed"]
     /\ UNCHANGED <<host, released>>
  \/ /\ frame.kind = "Destroy"
     /\ released' = released \cup {frame.id}
     /\ UNCHANGED <<client, host>>

Pump ==
  /\ outbound # <<>>
  /\ PeerReceives(Head(outbound))
  /\ outbound' = Tail(outbound)
  /\ UNCHANGED <<plugin, instance_id, found, instances, next_instance, tripped, routing>>

HostStep(c) ==
  \/ HostCreates(c) \/ FinishCreate(c) \/ RegisterHosted(c) \/ RespondCreated(c)
  \/ PeerResponds(c)

DestroyStep(c) ==
  \/ ForgetRemote(c) \/ SendDestroy(c) \/ LookUpOwner(c) \/ RemoveInstance(c)
  \/ Reap(c)

Next ==
  \/ \E c \in Clients :
       CreateInstance(c) \/ AcquireClient(c) \/ Abandon(c) \/ DropClient(c)
  \/ \E c \in PeerClients : PeerCreateInstance(c) \/ PeerDestroyInstance(c)
  \/ \E c \in AllClients : HostStep(c) \/ DestroyStep(c)
  \/ Pump

Spec == Init /\ [][Next]_vars

\* The threads of both sides run and the pump turns; creating, abandoning and
\* dropping a client is up to the program.
\* Of each client these are finitely many steps: none can be put off for ever by
\* the others, and one condition does for all.
GoesOn == Pump \/ \E c \in AllClients : HostStep(c) \/ DestroyStep(c)
Fairness == WF_vars(GoesOn)

FairSpec == Spec /\ Fairness
-----------------------------------------------------------------------------
(* Properties.                                                             *)

\* Clients of other plugins whose instance has the same number: the registry
\* has one entry for all of them.
Namesakes(c) ==
  {d \in AllClients : /\ plugin[d] # plugin[c]
                      /\ instance_id[d] = instance_id[c] /\ instance_id[d] # 0}

\* A live client of a hosted plugin has its instance in its host's map,
\* whatever other clients do with theirs, but for the drop of a namesake, which
\* may have taken it.  (hosts.rs: "A second instance is independent.")
InstancesIndependent ==
  \A c \in AllClients :
    client[c] = "live" /\ plugin[c] \in Hosted =>
      \/ instances[plugin[c]][instance_id[c]] = c
      \/ \E d \in Namesakes(c) : client[d] = "gone" /\ found[d] = plugin[c]

\* A namesake has registered itself under the number, or has removed it.
Overridden(c) ==
  \E d \in Namesakes(c) :
    \/ routing[instance_id[c]] = plugin[d]
    \/ routing[instance_id[c]] = None /\ client[d] \in {"reap", "send", "gone"}

\* As soon as a caller can know the number of an instance hosted here, and
\* for any plugin as long as the client lives, the registry routes the number
\* to its plugin, unless a namesake overrode it.  (dispatch.rs: "wires it into
\* the routing tables so subsequent dispatch calls carry Some(instance_id)".)
KnownIsRouted ==
  \A c \in AllClients :
    client[c] = "live" \/ (client[c] = "answered" /\ plugin[c] \in Hosted) =>
      \/ routing[instance_id[c]] = plugin[c]
      \/ Overridden(c)

\* The registry had a namesake under the number of a client that is dropped, or
\* nothing after a namesake's drop.
Mistaken(c) == \E d \in Namesakes(c) : found[c] \in {plugin[d], None}

\* A client that is gone leaves nothing: its number is out of the registry, for
\* good, and its instance out of its host's map, unless a namesake was taken
\* for it.
GoneLeavesNothing ==
  \A c \in AllClients :
    client[c] = "gone" =>
      /\ plugin[c] \in Hosted =>
           instances[plugin[c]][instance_id[c]] # c \/ Mistaken(c)
      /\ routing[instance_id[c]] # plugin[c]

\* The peer is only told to destroy instances whose client was dropped here,
\* and only those of its own plugins, or of clients taken for one of those.
OnlyDroppedReleased ==
  \A n \in released :
    \E c \in Clients :
      /\ instance_id[c] = n
      /\ client[c] = "gone"
      /\ plugin[c] \in Remote \/ Mistaken(c)

\* A client that is dropped lets go of its instance: the peer hears of it, or
\* the host here drops it, unless a namesake was taken for it.
DroppedIsReleased ==
  \A c \in AllClients :
    client[c] \in {"destroy", "lookup"} ~>
      \/ plugin[c] \in Remote /\ instance_id[c] \in released
      \/ plugin[c] \in Hosted /\ \A n \in InstanceIds : instances[plugin[c]][n] # c
      \/ Mistaken(c)

\* Numbers that are known are routed to their plugin, and no client lives
\* without its instance, whatever other clients of its plugin do with theirs.
Consistent == TypeOK /\ KnownIsRouted /\ InstancesIndependent

\* A drop takes the whole instance, and no more than what was dropped.
DropsAreExact == GoneLeavesNothing /\ OnlyDroppedReleased

\* Numbers are routed to their plugin and their instance, and a drop takes the
\* whole instance and no more; but for namesakes of another plugin.
InstancesAreExact == Consistent /\ DropsAreExact

\* What does not hold: that it is so whatever clients of other plugins do.
\* (macros/src/plugin.rs:268: every host counts from 1.)
PluginsApart ==
  \A c \in AllClients :
    client[c] = "live" =>
      /\ routing[instance_id[c]] = plugin[c]
      /\ plugin[c] \in Hosted => instances[plugin[c]][instance_id[c]] = c
=============================================================================
