------------------------ MODULE InstanceRouting_proofs ------------------------
(***************************************************************************)
(* Whatever the number of clients, plugins and frames, numbers are routed  *)
(* to their plugin and a drop takes one instance and the whole of it, but  *)
(* for namesakes: every plugin counts from 1, and the registry has one     *)
(* entry for each number.                                                  *)
(***************************************************************************)
EXTENDS InstanceRouting, FiniteSetTheorems, TLAPS

\* The instances a plugin has made, each for the client that asked for it.
Created(p) == {c \in AllClients : plugin[c] = p /\ instance_id[c] # 0}

\* A plugin counts its instances ...
Counted == \A p \in Plugins : next_instance[p] = 1 + Cardinality(Created(p))

\* ... and no two of its clients have the same.
Distinct ==
  \A c, d \in AllClients :
    c # d /\ plugin[c] = plugin[d] /\ instance_id[c] = instance_id[d] => instance_id[c] = 0

\* What the progress of a client says of its host, the registry and the map.
HasNumber(c) ==
  /\ plugin[c] \in Plugins
  /\ instance_id[c] # 0 => instance_id[c] \in 1..(next_instance[plugin[c]] - 1)
  /\ host[c] \in {"none", "running", "refused", "respond_error"} => instance_id[c] = 0
  /\ host[c] \in {"created", "register", "respond"} => instance_id[c] # 0
  /\ client[c] \in {"answered", "live", "destroy", "lookup", "remove", "reap", "send", "gone"} =>
       host[c] = "done" /\ instance_id[c] # 0
  /\ client[c] = "idle" => host[c] = "none"
  /\ client[c] = "failed" => host[c] = "done"

Sides(c) ==
  /\ c \in PeerClients =>
       plugin[c] \in Hosted /\ client[c] \notin {"answered", "abandoned", "destroy", "send"}
  /\ host[c] \in {"register", "respond", "respond_error"} => plugin[c] \in Hosted
  /\ client[c] \in {"destroy", "send"} => plugin[c] \in Remote \/ Mistaken(c)
  /\ client[c] \in {"remove", "reap"} => found[c] = plugin[c] \/ Mistaken(c)

IsRouted(c) == routing[instance_id[c]] = plugin[c]

Routed(c) ==
  /\ host[c] = "respond" \/ (client[c] = "answered" /\ plugin[c] \in Hosted)
       \/ client[c] \in {"live", "destroy", "lookup", "remove"} => IsRouted(c) \/ Overridden(c)
  /\ client[c] \in {"reap", "send", "gone"} => ~IsRouted(c)

\* The drop of a namesake took the instance of c.
Taken(c) == \E d \in Namesakes(c) : client[d] = "gone" /\ found[d] = plugin[c]

Stored(c) ==
  plugin[c] \in Hosted /\ instance_id[c] # 0 =>
    /\ client[c] # "gone" => instances[plugin[c]][instance_id[c]] = c \/ Taken(c)
    /\ client[c] = "gone" => instances[plugin[c]][instance_id[c]] # c \/ Mistaken(c)

Tracked(c) == HasNumber(c) /\ Sides(c) /\ Routed(c) /\ Stored(c)

\* A frame in the channel tells the truth about its client ...
Answers == {"Respond", "Failed"}

Truthful(f) ==
  LET c == f.client IN
  /\ f.kind \in {"Create", "Cancel"} => c \in Clients /\ plugin[c] \in Remote
  /\ f.kind = "Create" => host[c] = "none" /\ client[c] # "idle"
  /\ f.kind \in Answers => host[c] = "done" /\ plugin[c] \in Hosted
  /\ f.kind \in Answers /\ c \in PeerClients => client[c] = "creating"
  /\ f.kind = "Respond" /\ c \in PeerClients => instance_id[c] # 0 /\ (IsRouted(c) \/ Overridden(c))
  /\ f.kind = "Destroy" =>
       /\ c \in Clients /\ client[c] = "gone" /\ f.id = instance_id[c]
       /\ plugin[c] \in Remote \/ Mistaken(c)

\* ... and its creation is asked for and answered once.
Once(f, g) ==
  {f.kind, g.kind} \subseteq {"Create"} \cup Answers => f.client # g.client

Channel ==
  /\ \A k \in DOMAIN outbound : Truthful(outbound[k])
  /\ \A j, k \in DOMAIN outbound : j # k => Once(outbound[j], outbound[k])

InstanceInv ==
  /\ TypeOK /\ Counted /\ Distinct /\ Channel /\ OnlyDroppedReleased
  /\ \A c \in AllClients : Tracked(c)
-----------------------------------------------------------------------------
(* Numbers.                                                                *)

LEMMA Sizes ==
  /\ IsFiniteSet(AllClients) /\ Cardinality(AllClients) \in Nat
  /\ InstanceIds = 1..(1 + Cardinality(AllClients)) /\ InstanceIds \subseteq Nat \ {0}
BY FS_CardinalityType, InstanceRoutingAssumption DEF InstanceIds

\* A plugin has a number left for a client that has none yet.
LEMMA RoomForOne ==
  ASSUME Counted, NEW c \in AllClients, plugin[c] \in Plugins, instance_id[c] = 0
  PROVE  next_instance[plugin[c]] \in InstanceIds /\ next_instance[plugin[c]] + 1 \in InstanceIds
<1> DEFINE p == plugin[c]
<1>1. Created(p) \subseteq AllClients \ {c}
  BY DEF Created
<1>2. /\ IsFiniteSet(AllClients \ {c})
      /\ Cardinality(AllClients \ {c}) = Cardinality(AllClients) - 1
  BY Sizes, FS_RemoveElement
<1>3. /\ IsFiniteSet(Created(p)) /\ Cardinality(Created(p)) \in Nat
      /\ Cardinality(Created(p)) <= Cardinality(AllClients) - 1
  BY <1>1, <1>2, FS_Subset, FS_CardinalityType
<1>4. next_instance[p] = 1 + Cardinality(Created(p))
  BY DEF Counted
<1> HIDE DEF p
<1> QED BY <1>3, <1>4, Sizes DEF p

\* Numbers in use are below the next one of their plugin.
LEMMA InUse ==
  ASSUME TypeOK, NEW c \in AllClients, HasNumber(c), instance_id[c] # 0
  PROVE  instance_id[c] # next_instance[plugin[c]]
<1>1. plugin[c] \in Plugins /\ next_instance[plugin[c]] \in Nat
  BY Sizes DEF HasNumber, TypeOK
<1> QED BY <1>1 DEF HasNumber

-----------------------------------------------------------------------------
(* The variables have their types.                                         *)

LEMMA NextTypeOK == InstanceInv /\ [Next]_vars => TypeOK'
<1> SUFFICES ASSUME InstanceInv, [Next]_vars PROVE TypeOK'
  OBVIOUS
<1> USE DEF TypeOK, ClientPhase, HostPhase
<1>0. TypeOK /\ \A c \in AllClients : Tracked(c)
  BY DEF InstanceInv
<1>c. Clients \subseteq AllClients /\ PeerClients \subseteq AllClients
  BY DEF AllClients
<1>1. ASSUME NEW kind \in {"Create", "Cancel", "Respond", "Failed", "Destroy"}, NEW c \in AllClients,
             NEW n \in InstanceIds \cup {0}, send_outbound(kind, c, n)
      PROVE  outbound' \in Seq(Frame) /\ Len(outbound') <= OutboundCap
  <2>1. [kind |-> kind, client |-> c, id |-> n] \in Frame
    BY DEF Frame
  <2> DEFINE f == [kind |-> kind, client |-> c, id |-> n]
  <2>2. f \in Frame /\ outbound' = Append(outbound, f) /\ Len(outbound) < OutboundCap
    BY <1>1, <2>1 DEF send_outbound
  <2> HIDE DEF f
  <2> QED BY <1>0, <2>2, InstanceRoutingAssumption
<1>2. ASSUME NEW c \in AllClients, HostCreates(c) PROVE TypeOK'
  <2>1. instance_id[c] = 0 /\ plugin[c] \in Plugins
    BY <1>0, <1>2 DEF HostCreates, Tracked, HasNumber
  <2>2. next_instance[plugin[c]] \in InstanceIds /\ next_instance[plugin[c]] + 1 \in InstanceIds
    BY <2>1, RoomForOne DEF InstanceInv
  <2>3. CASE host' = [host EXCEPT ![c] = "refused"]
             /\ UNCHANGED <<instances, instance_id, next_instance>>
    BY <1>0, <1>2, <2>3 DEF HostCreates
  <2>4. CASE /\ instances' = [instances EXCEPT ![plugin[c]][next_instance[plugin[c]]] = c]
             /\ instance_id' = [instance_id EXCEPT ![c] = next_instance[plugin[c]]]
             /\ next_instance' = [next_instance EXCEPT ![plugin[c]] = @ + 1]
             /\ host' = [host EXCEPT ![c] = "created"]
    <3>1. /\ instance_id' \in [AllClients -> InstanceIds \cup {0}]
          /\ next_instance' \in [Plugins -> InstanceIds]
          /\ host' \in [AllClients -> HostPhase]
      BY <1>0, <2>1, <2>2, <2>4
    <3>2. instances' \in [Plugins -> [InstanceIds -> AllClients \cup {None}]]
      <4> DEFINE p == plugin[c]
                 n == next_instance[p]
                 row == [instances[p] EXCEPT ![n] = c]
      <4>1. row \in [InstanceIds -> AllClients \cup {None}]
        BY <1>0, <2>1
      <4>2. instances' = [instances EXCEPT ![p] = row]
        BY <2>4
      <4> HIDE DEF row, p
      <4> QED BY <1>0, <4>1, <4>2
    <3> QED BY <1>0, <1>2, <3>1, <3>2 DEF HostCreates
  <2> QED BY <1>2, <2>3, <2>4 DEF HostCreates
<1>3. CASE Pump
  <2> DEFINE f == Head(outbound)
  <2>1. f \in Frame /\ f = outbound[1] /\ 1 \in DOMAIN outbound
    BY <1>0, <1>3 DEF Pump
  <2>2. f.kind = "Destroy" => f.id \in InstanceIds
    BY <1>0, <2>1 DEF InstanceInv, Channel, Truthful, Tracked, HasNumber, Frame
  <2>3. outbound' \in Seq(Frame) /\ Len(outbound') <= OutboundCap
    BY <1>0, <1>3, InstanceRoutingAssumption DEF Pump
  <2>4. PeerReceives(f) /\ UNCHANGED <<plugin, instance_id, found, instances, next_instance, tripped, routing>>
    BY <1>3 DEF Pump
  <2>5. f.client \in AllClients
    BY <2>1 DEF Frame
  <2> HIDE DEF f
  <2>6. /\ client' \in [AllClients -> ClientPhase] /\ host' \in [AllClients -> HostPhase]
        /\ released' \subseteq InstanceIds
    <3>1. \A p \in {host[f.client], "discarded"} : p \in HostPhase
      BY <1>0, <2>5
    <3>2. host' \in [AllClients -> HostPhase]
      BY <1>0, <2>4, <2>5, <3>1 DEF PeerReceives
    <3>3. client' \in [AllClients -> ClientPhase]
      BY <1>0, <2>4, <2>5 DEF PeerReceives
    <3>4. released' \subseteq InstanceIds
      BY <1>0, <2>2, <2>4 DEF PeerReceives
    <3> QED BY <3>2, <3>3, <3>4
  <2> QED BY <1>0, <2>3, <2>4, <2>6
<1>4. ASSUME NEW c \in Clients, CreateInstance(c) PROVE TypeOK'
  BY <1>0, <1>1, <1>4, <1>c DEF CreateInstance
<1>r. ASSUME NEW c \in AllClients, NEW v \in Plugins \cup {None},
             routing' = [routing EXCEPT ![instance_id[c]] = v]
      PROVE  routing' \in [InstanceIds -> Plugins \cup {None}]
  BY <1>0, <1>r
<1>5. ASSUME NEW c \in Clients, AcquireClient(c) PROVE TypeOK'
  <2>1. plugin[c] \in Plugins
    BY <1>0, <1>c
  <2>2. routing' \in [InstanceIds -> Plugins \cup {None}]
    BY <1>5, <1>r, <1>c, <2>1 DEF AcquireClient
  <2> QED BY <1>0, <1>5, <1>c, <2>2 DEF AcquireClient, hostVars
<1>15. ASSUME NEW c \in AllClients, client[c] \in {"live", "lookup"} PROVE instance_id[c] \in InstanceIds
  BY <1>0, <1>15 DEF Tracked, HasNumber
<1>16. ASSUME NEW c \in Clients, DropClient(c) PROVE TypeOK'
  <2>1. routing[instance_id[c]] \in Plugins \cup {None}
    BY <1>0, <1>15, <1>16, <1>c DEF DropClient
  <2> QED BY <1>0, <1>16, <1>c, <2>1 DEF DropClient, hostVars
<1>6. ASSUME NEW c \in Clients, Abandon(c) PROVE TypeOK'
  BY <1>0, <1>1, <1>6, <1>c DEF Abandon, hostVars
<1>7. ASSUME NEW c \in PeerClients, PeerCreateInstance(c) \/ PeerDestroyInstance(c) PROVE TypeOK'
  BY <1>0, <1>7, <1>c DEF PeerCreateInstance, PeerDestroyInstance, hostVars
<1>8. ASSUME NEW c \in AllClients, FinishCreate(c) PROVE TypeOK'
  BY <1>0, <1>8 DEF FinishCreate
<1>17. ASSUME NEW c \in AllClients, RegisterHosted(c) PROVE TypeOK'
  <2>1. routing' \in [InstanceIds -> Plugins \cup {None}]
    BY <1>0, <1>17, <1>r DEF RegisterHosted
  <2> QED BY <1>0, <1>17, <2>1 DEF RegisterHosted
<1>9. ASSUME NEW c \in AllClients, RespondCreated(c) PROVE TypeOK'
  BY <1>0, <1>1, <1>9 DEF RespondCreated
<1>10. ASSUME NEW c \in AllClients, PeerResponds(c) PROVE TypeOK'
  BY <1>0, <1>10 DEF PeerResponds
<1>11. ASSUME NEW c \in AllClients, ForgetRemote(c) \/ RemoveInstance(c) PROVE TypeOK'
  <2>1. routing' \in [InstanceIds -> Plugins \cup {None}]
    BY <1>0, <1>11, <1>r DEF ForgetRemote, RemoveInstance
  <2> QED BY <1>0, <1>11, <2>1 DEF ForgetRemote, RemoveInstance, hostVars
<1>18. ASSUME NEW c \in AllClients, LookUpOwner(c) PROVE TypeOK'
  <2>1. routing[instance_id[c]] \in Plugins \cup {None}
    BY <1>0, <1>15, <1>18 DEF LookUpOwner
  <2> QED BY <1>0, <1>18, <2>1 DEF LookUpOwner, hostVars
<1>12. ASSUME NEW c \in AllClients, SendDestroy(c) PROVE TypeOK'
  BY <1>0, <1>1, <1>12 DEF SendDestroy, hostVars
<1>13. ASSUME NEW c \in AllClients, Reap(c) PROVE TypeOK'
  BY <1>0, <1>13 DEF Reap
<1>14. CASE UNCHANGED vars
  BY <1>0, <1>14 DEF vars, hostVars
<1> QED
  BY <1>2, <1>3, <1>4, <1>5, <1>6, <1>7, <1>8, <1>9, <1>10, <1>11, <1>12, <1>13, <1>14, <1>16,
     <1>17, <1>18
  DEF Next, HostStep, DestroyStep
-----------------------------------------------------------------------------
(* A step of one client, and what it leaves alone.                         *)

Past == {"reap", "send", "gone"}

\* c may override what the registry has for a namesake d, or reap its instance.
Overrides(c, d) ==
  /\ c \in Namesakes(d)'
  /\ \/ routing'[instance_id[d]] = plugin[c]
     \/ routing'[instance_id[d]] = None /\ client'[c] \in Past

Reaps(c, d) ==
  /\ c \in Namesakes(d)'
  /\ client'[c] = "gone" /\ found'[c] = plugin[d]
  /\ instances'[plugin[d]][instance_id[d]] = None

OnlyTouches(c) ==
  /\ plugin' = plugin
  /\ \A d \in AllClients \ {c} :
       /\ client'[d] = client[d] /\ host'[d] = host[d]
       /\ instance_id'[d] = instance_id[d] /\ found'[d] = found[d]
       /\ next_instance'[plugin[d]] >= next_instance[plugin[d]]
       /\ instance_id[d] # 0 =>
            /\ routing'[instance_id[d]] = routing[instance_id[d]] \/ Overrides(c, d)
            /\ \/ instances'[plugin[d]][instance_id[d]] = instances[plugin[d]][instance_id[d]]
               \/ Reaps(c, d)

\* The frames about c stay true.
KeepsTruth(c) == \A f \in Frame : f.client = c /\ Truthful(f) => Truthful(f)'

\* What c has it keeps, and once its drop is past it stays so.
Keeps(c) ==
  /\ instance_id[c] # 0 => instance_id'[c] = instance_id[c]
  /\ client[c] \in Past => client'[c] \in Past
  /\ client[c] = "gone" => client'[c] = "gone" /\ found'[c] = found[c]

\* What namesakes did to d does not change.
Lasting(d) ==
  /\ Namesakes(d) \subseteq Namesakes(d)'
  /\ Mistaken(d) /\ found'[d] = found[d] => Mistaken(d)'
  /\ Overridden(d) /\ routing'[instance_id[d]] = routing[instance_id[d]] => Overridden(d)'
  /\ Taken(d) => Taken(d)'

LEMMA NamesakesLast ==
  ASSUME NEW c \in AllClients, OnlyTouches(c), Keeps(c)
  PROVE  \A d \in AllClients : Lasting(d)
<1>1. plugin' = plugin /\ \A e \in AllClients : instance_id[e] # 0 => instance_id'[e] = instance_id[e]
  BY DEF OnlyTouches, Keeps
<1>2. \A e \in AllClients :
        /\ client[e] \in Past => client'[e] \in Past
        /\ client[e] = "gone" => client'[e] = "gone" /\ found'[e] = found[e]
  BY DEF OnlyTouches, Keeps
<1> SUFFICES ASSUME NEW d \in AllClients PROVE Lasting(d)
  OBVIOUS
<1>3. Namesakes(d) \subseteq Namesakes(d)'
  BY <1>1 DEF Namesakes
<1>4. \A e \in Namesakes(d) : e \in AllClients /\ instance_id[d] # 0
  BY DEF Namesakes
<1>5. Mistaken(d) /\ found'[d] = found[d] => Mistaken(d)'
  BY <1>1, <1>3 DEF Mistaken
<1>6. Overridden(d) /\ routing'[instance_id[d]] = routing[instance_id[d]] => Overridden(d)'
  BY <1>1, <1>2, <1>3, <1>4 DEF Overridden, Past
<1>7. Taken(d) => Taken(d)'
  BY <1>1, <1>2, <1>3, <1>4 DEF Taken
<1> QED BY <1>3, <1>5, <1>6, <1>7 DEF Lasting

LEMMA OthersTracked ==
  ASSUME TypeOK, TypeOK', NEW c \in AllClients, OnlyTouches(c), Keeps(c),
         NEW d \in AllClients \ {c}, Tracked(d)
  PROVE  Tracked(d)'
<1>1. /\ plugin' = plugin /\ client'[d] = client[d] /\ host'[d] = host[d]
      /\ instance_id'[d] = instance_id[d] /\ found'[d] = found[d]
      /\ next_instance'[plugin[d]] >= next_instance[plugin[d]]
      /\ instance_id[d] # 0 =>
            /\ routing'[instance_id[d]] = routing[instance_id[d]] \/ Overrides(c, d)
            /\ \/ instances'[plugin[d]][instance_id[d]] = instances[plugin[d]][instance_id[d]]
               \/ Reaps(c, d)
  BY DEF OnlyTouches
<1>2. Lasting(d)
  BY NamesakesLast
<1>3. plugin[d] \in Plugins /\ None \notin AllClients \cup Plugins
  BY InstanceRoutingAssumption DEF Tracked, HasNumber
<1>4. Overrides(c, d) => Overridden(d)' /\ ~IsRouted(d)'
  <2> HAVE Overrides(c, d)
  <2>1. /\ c \in Namesakes(d)' /\ plugin'[c] # plugin'[d]
        /\ \/ routing'[instance_id'[d]] = plugin'[c]
           \/ routing'[instance_id'[d]] = None /\ client'[c] \in Past
    BY <1>1 DEF Overrides, Namesakes
  <2>2. Overridden(d)'
    BY <2>1 DEF Overridden, Past
  <2> QED BY <1>1, <1>3, <2>1, <2>2 DEF IsRouted
<1>5. Reaps(c, d) => Taken(d)' /\ instances'[plugin[d]][instance_id[d]] # d
  BY <1>1, <1>3 DEF Reaps, Taken
<1>6. HasNumber(d)'
  <2>1. /\ next_instance[plugin[d]] \in Nat /\ next_instance'[plugin[d]] \in Nat
    BY <1>3, Sizes DEF TypeOK
  <2>2. instance_id[d] # 0 => instance_id[d] \in 1..(next_instance'[plugin[d]] - 1)
    BY <1>1, <2>1 DEF Tracked, HasNumber
  <2> QED BY <1>1, <2>2 DEF Tracked, HasNumber
<1>7. Sides(d)'
  BY <1>1, <1>2 DEF Tracked, Sides, Lasting
<1>8. Routed(d)'
  <2>1. instance_id[d] # 0 /\ (IsRouted(d) \/ Overridden(d)) => IsRouted(d)' \/ Overridden(d)'
    BY <1>1, <1>2, <1>4 DEF Lasting, IsRouted
  <2>2. instance_id[d] # 0 /\ ~IsRouted(d) => ~IsRouted(d)'
    BY <1>1, <1>4 DEF IsRouted
  <2>3. /\ host[d] = "respond" \/ (client[d] = "answered" /\ plugin[d] \in Hosted)
             \/ client[d] \in {"live", "destroy", "lookup", "remove"} => instance_id[d] # 0
        /\ client[d] \in {"reap", "send", "gone"} => instance_id[d] # 0
    BY DEF Tracked, HasNumber
  <2> QED BY <1>1, <2>1, <2>2, <2>3 DEF Tracked, Routed
<1>9. Stored(d)'
  BY <1>1, <1>2, <1>5 DEF Tracked, Stored, Lasting
<1> QED BY <1>6, <1>7, <1>8, <1>9 DEF Tracked

LEMMA OthersTruthful ==
  ASSUME TypeOK, NEW c \in AllClients, OnlyTouches(c), Keeps(c),
         NEW f \in Frame, f.client # c, Truthful(f)
  PROVE  Truthful(f)'
<1> PICK d \in AllClients \ {c} : d = f.client
  BY DEF Frame
<1>1. /\ plugin' = plugin /\ client'[d] = client[d] /\ host'[d] = host[d]
      /\ instance_id'[d] = instance_id[d] /\ found'[d] = found[d]
      /\ instance_id[d] # 0 =>
           routing'[instance_id[d]] = routing[instance_id[d]] \/ Overrides(c, d)
  BY DEF OnlyTouches
<1>2. Lasting(d)
  BY NamesakesLast
<1>3. Overrides(c, d) => Overridden(d)'
  BY <1>1 DEF Overrides, Overridden, Past
<1>4. instance_id[d] # 0 /\ (IsRouted(d) \/ Overridden(d)) => IsRouted(d)' \/ Overridden(d)'
  BY <1>1, <1>2, <1>3 DEF Lasting, IsRouted
<1> QED BY <1>1, <1>2, <1>4 DEF Truthful, Lasting

LEMMA FramesTruthful ==
  ASSUME InstanceInv, NEW c \in AllClients, OnlyTouches(c), Keeps(c), KeepsTruth(c),
         NEW k \in DOMAIN outbound
  PROVE  \E f \in Frame : f = outbound[k] /\ Truthful(f)'
<1>1. TypeOK
  BY DEF InstanceInv
<1>2. outbound[k] \in Frame /\ Truthful(outbound[k])
  BY <1>1 DEF InstanceInv, Channel, TypeOK
<1> PICK f \in Frame : f = outbound[k] /\ Truthful(f)
  BY <1>2
<1>3. Truthful(f)'
  BY <1>1, OthersTruthful DEF KeepsTruth
<1> QED BY <1>3

\* What such a step must see to: its own client, and the frame it may send.
LEMMA OwnStep ==
  ASSUME InstanceInv, TypeOK', NEW c \in AllClients, OnlyTouches(c), Keeps(c), KeepsTruth(c),
         Tracked(c)', Counted', Distinct', released' = released,
         \/ outbound' = outbound
         \/ \E f \in Frame : /\ outbound' = Append(outbound, f) /\ Truthful(f)'
                             /\ \A k \in DOMAIN outbound : Once(outbound[k], f)
  PROVE  InstanceInv'
<1>0. TypeOK /\ outbound \in Seq(Frame)
  BY DEF InstanceInv, TypeOK
<1>1. \A d \in AllClients : Tracked(d)'
  BY <1>0, OthersTracked DEF InstanceInv
<1>2. Channel'
  <2>1. CASE outbound' = outbound
    <3>1. \A k \in DOMAIN outbound' : \E f \in Frame : f = outbound'[k] /\ Truthful(f)'
      BY <2>1, FramesTruthful
    <3> QED BY <2>1, <3>1 DEF Channel, InstanceInv, Truthful, Once
  <2>2. ASSUME NEW f \in Frame, outbound' = Append(outbound, f), Truthful(f)',
               \A k \in DOMAIN outbound : Once(outbound[k], f)
        PROVE  Channel'
    <3>1. \A k \in DOMAIN outbound' : k \in DOMAIN outbound \/ (k = Len(outbound) + 1
          /\ outbound'[k] = f)
      BY <1>0, <2>2
    <3>2. \A k \in DOMAIN outbound : k # Len(outbound) + 1 /\ outbound'[k] = outbound[k]
      BY <1>0, <2>2
    <3>3. \A k \in DOMAIN outbound' : \E g \in Frame : g = outbound'[k] /\ Truthful(g)'
      BY <2>2, <3>1, <3>2, FramesTruthful
    <3>4. \A k \in DOMAIN outbound : Once(f, outbound[k])
      BY <2>2 DEF Once
    <3>5. \A j, k \in DOMAIN outbound' : j # k => Once(outbound'[j], outbound'[k])
      BY <2>2, <3>1, <3>2, <3>4 DEF Channel, InstanceInv
    <3> QED BY <3>3, <3>5 DEF Channel, Truthful, Once
  <2> QED BY <2>1, <2>2
<1>3. OnlyDroppedReleased'
  <2>1. \A d \in AllClients :
          client[d] = "gone" => /\ client'[d] = "gone" /\ found'[d] = found[d]
                                /\ instance_id'[d] = instance_id[d]
    BY DEF OnlyTouches, Keeps, InstanceInv, Tracked, HasNumber
  <2>2. plugin' = plugin /\ \A d \in AllClients : Lasting(d)
    BY NamesakesLast DEF OnlyTouches
  <2> QED BY <2>1, <2>2 DEF InstanceInv, OnlyDroppedReleased, AllClients, Lasting
<1> QED BY <1>1, <1>2, <1>3 DEF InstanceInv
-----------------------------------------------------------------------------
(* Every step keeps the invariant.                                         *)

LEMMA NumbersStay ==
  ASSUME Counted, Distinct, UNCHANGED <<plugin, instance_id, next_instance>>
  PROVE  Counted' /\ Distinct'
BY DEF Counted, Distinct, Created

\* What InstanceInv says of one client.
View(c) ==
  /\ TypeOK /\ Counted /\ Distinct
  /\ client \in [AllClients -> ClientPhase] /\ host \in [AllClients -> HostPhase]
  /\ plugin \in [AllClients -> Plugins]
  /\ instance_id \in [AllClients -> InstanceIds \cup {0}]
  /\ found \in [AllClients -> Plugins \cup {None}]
  /\ routing \in [InstanceIds -> Plugins \cup {None}]
  /\ instances \in [Plugins -> [InstanceIds -> AllClients \cup {None}]]
  /\ next_instance \in [Plugins -> InstanceIds]
  /\ \A q \in Plugins : next_instance[q] \in Nat
  /\ outbound \in Seq(Frame)
  /\ HasNumber(c) /\ Sides(c) /\ Routed(c) /\ Stored(c)
  /\ \A d \in AllClients \ {c} :
       plugin[d] = plugin[c] /\ instance_id[d] = instance_id[c] => instance_id[d] = 0
  /\ None \notin AllClients \cup Plugins

LEMMA OfOne == InstanceInv => \A c \in AllClients : View(c)
BY Sizes, InstanceRoutingAssumption DEF InstanceInv, TypeOK, Tracked, Distinct, View

\* A step that writes the registry's entry of its own client.
LEMMA WritesEntry ==
  ASSUME NEW c \in AllClients, View(c), instance_id[c] # 0, NEW v \in {plugin[c], None},
         routing' = [routing EXCEPT ![instance_id[c]] = v],
         v = None => client'[c] \in Past,
         UNCHANGED <<instances, plugin, instance_id, next_instance, found>>,
         \A d \in AllClients \ {c} : client'[d] = client[d] /\ host'[d] = host[d]
  PROVE  OnlyTouches(c)
<1> SUFFICES ASSUME NEW d \in AllClients \ {c}, instance_id[d] # 0
             PROVE  routing'[instance_id[d]] = routing[instance_id[d]] \/ Overrides(c, d)
  BY DEF OnlyTouches, View
<1>1. CASE instance_id[d] # instance_id[c]
  BY <1>1 DEF View
<1>2. CASE instance_id[d] = instance_id[c]
  <2>1. plugin[d] # plugin[c]
    BY <1>2 DEF View
  <2>2. c \in Namesakes(d)'
    BY <1>2, <2>1 DEF Namesakes
  <2>3. routing'[instance_id[d]] = v
    BY <1>2 DEF View
  <2> QED BY <2>2, <2>3 DEF Overrides
<1> QED BY <1>1, <1>2

\* What the registry has for c when it is asked.
LEMMA FindsOwner ==
  ASSUME NEW c \in AllClients, Lasting(c), plugin' = plugin, Overridden(c),
         found'[c] = routing[instance_id[c]]
  PROVE  Mistaken(c)'
<1> PICK d \in Namesakes(c) : routing[instance_id[c]] \in {plugin[d], None}
  BY DEF Overridden
<1> QED BY DEF Lasting, Mistaken

LEMMA NextFinish ==
  ASSUME InstanceInv, TypeOK', NEW c \in AllClients, FinishCreate(c)
  PROVE  InstanceInv'
<1>c. c \in AllClients
  BY DEF AllClients
<1>0. View(c)
  BY <1>c, OfOne
<1>1. /\ host[c] \in {"created", "refused"} /\ plugin[c] \in Hosted
      /\ \E h \in {"discarded", "register", "respond_error"} :
           /\ host' = [host EXCEPT ![c] = h]
           /\ h = "register" => host[c] = "created"
           /\ h = "respond_error" => host[c] = "refused"
      /\ UNCHANGED <<client, found, routing, instances, outbound, plugin, instance_id, next_instance, released>>
  BY <1>0 DEF View, FinishCreate
<1>2. OnlyTouches(c)
  BY <1>c, <1>0, <1>1 DEF OnlyTouches, View
<1>3. Keeps(c)
  BY <1>c, <1>0, <1>1 DEF Keeps, View, Past
<1>m. Lasting(c)
  BY <1>c, <1>2, <1>3, NamesakesLast
<1>4. KeepsTruth(c)
  BY <1>c, <1>0, <1>1, <1>m
  DEF KeepsTruth, View, Truthful, IsRouted, Frame, Answers, HasNumber, Sides, Lasting
<1>5. HasNumber(c)'
  BY <1>c, <1>0, <1>1 DEF View, HasNumber, Sides
<1>6. Sides(c)'
  BY <1>c, <1>0, <1>1, <1>m DEF View, Sides, HasNumber, Lasting
<1>7. Routed(c)'
  BY <1>c, <1>0, <1>1, <1>m DEF View, Routed, IsRouted, HasNumber, Sides, Lasting
<1>8. Stored(c)'
  BY <1>c, <1>0, <1>1, <1>m DEF View, Stored, HasNumber, Sides, Lasting
<1>9. Tracked(c)'
  BY <1>5, <1>6, <1>7, <1>8 DEF Tracked
<1>10. Counted' /\ Distinct'
  BY <1>0, <1>1, NumbersStay DEF View
<1>11. \/ outbound' = outbound
       \/ \E f \in Frame : /\ outbound' = Append(outbound, f) /\ Truthful(f)'
                           /\ \A k \in DOMAIN outbound : Once(outbound[k], f)
BY <1>1
<1> QED BY <1>c, <1>1, <1>2, <1>3, <1>4, <1>9, <1>10, <1>11, OwnStep

LEMMA NextRegister ==
  ASSUME InstanceInv, TypeOK', NEW c \in AllClients, RegisterHosted(c)
  PROVE  InstanceInv'
<1>c. c \in AllClients
  BY DEF AllClients
<1>0. View(c)
  BY <1>c, OfOne
<1>1. /\ host[c] = "register" /\ host' = [host EXCEPT ![c] = "respond"]
      /\ routing' = [routing EXCEPT ![instance_id[c]] = plugin[c]]
      /\ UNCHANGED <<client, found, instances, outbound, plugin, instance_id, next_instance, released>>
  BY DEF RegisterHosted
<1>2. OnlyTouches(c)
  BY <1>c, <1>0, <1>1, WritesEntry DEF View, HasNumber
<1>3. Keeps(c)
  BY <1>c, <1>0, <1>1 DEF Keeps, View, Past
<1>m. Lasting(c)
  BY <1>c, <1>2, <1>3, NamesakesLast
<1>4. KeepsTruth(c)
  BY <1>c, <1>0, <1>1, <1>m
  DEF KeepsTruth, View, Truthful, IsRouted, Frame, Answers, HasNumber, Sides, Lasting
<1>5. HasNumber(c)'
  BY <1>c, <1>0, <1>1 DEF View, HasNumber, Sides
<1>6. Sides(c)'
  BY <1>c, <1>0, <1>1, <1>m DEF View, Sides, HasNumber, Lasting
<1>7. Routed(c)'
  BY <1>c, <1>0, <1>1, <1>m DEF View, Routed, IsRouted, HasNumber, Sides, Lasting
<1>8. Stored(c)'
  BY <1>c, <1>0, <1>1, <1>m DEF View, Stored, HasNumber, Sides, Lasting
<1>9. Tracked(c)'
  BY <1>5, <1>6, <1>7, <1>8 DEF Tracked
<1>10. Counted' /\ Distinct'
  BY <1>0, <1>1, NumbersStay DEF View
<1>11. \/ outbound' = outbound
       \/ \E f \in Frame : /\ outbound' = Append(outbound, f) /\ Truthful(f)'
                           /\ \A k \in DOMAIN outbound : Once(outbound[k], f)
BY <1>1
<1> QED BY <1>c, <1>1, <1>2, <1>3, <1>4, <1>9, <1>10, <1>11, OwnStep

LEMMA NextPeerResponds ==
  ASSUME InstanceInv, TypeOK', NEW c \in AllClients, PeerResponds(c)
  PROVE  InstanceInv'
<1>c. c \in AllClients
  BY DEF AllClients
<1>0. View(c)
  BY <1>c, OfOne
<1>1. /\ host[c] \in {"created", "refused"} /\ plugin[c] \in Remote
      /\ host' = [host EXCEPT ![c] = "done"]
      /\ \E x \in ClientPhase :
           /\ client' = [client EXCEPT ![c] = x]
           /\ x = client[c] \/ (client[c] = "creating" /\ x \in {"answered", "failed"})
           /\ x = "answered" => host[c] = "created"
      /\ UNCHANGED <<found, routing, instances, outbound, plugin, instance_id, next_instance, released>>
      /\ Hosted \cap Remote = {}
  BY <1>c, <1>0, InstanceRoutingAssumption DEF View, PeerResponds, ClientPhase, HasNumber
<1>2. OnlyTouches(c)
  BY <1>c, <1>0, <1>1 DEF OnlyTouches, View
<1>3. Keeps(c)
  BY <1>c, <1>0, <1>1 DEF Keeps, View, Past
<1>m. Lasting(c)
  BY <1>c, <1>2, <1>3, NamesakesLast
<1>4. KeepsTruth(c)
  BY <1>c, <1>0, <1>1, <1>m
  DEF KeepsTruth, View, Truthful, IsRouted, Frame, Answers, HasNumber, Sides, Lasting
<1>5. HasNumber(c)'
  BY <1>c, <1>0, <1>1 DEF View, HasNumber, Sides
<1>6. Sides(c)'
  BY <1>c, <1>0, <1>1, <1>m DEF View, Sides, HasNumber, Lasting
<1>7. Routed(c)'
  BY <1>c, <1>0, <1>1, <1>m DEF View, Routed, IsRouted, HasNumber, Sides, Lasting
<1>8. Stored(c)'
  BY <1>c, <1>0, <1>1, <1>m DEF View, Stored, HasNumber, Sides, Lasting
<1>9. Tracked(c)'
  BY <1>5, <1>6, <1>7, <1>8 DEF Tracked
<1>10. Counted' /\ Distinct'
  BY <1>0, <1>1, NumbersStay DEF View
<1>11. \/ outbound' = outbound
       \/ \E f \in Frame : /\ outbound' = Append(outbound, f) /\ Truthful(f)'
                           /\ \A k \in DOMAIN outbound : Once(outbound[k], f)
BY <1>1
<1> QED BY <1>c, <1>1, <1>2, <1>3, <1>4, <1>9, <1>10, <1>11, OwnStep

LEMMA NextAcquire ==
  ASSUME InstanceInv, TypeOK', NEW c \in Clients, AcquireClient(c)
  PROVE  InstanceInv'
<1>c. c \in AllClients
  BY DEF AllClients
<1>0. View(c)
  BY <1>c, OfOne
<1>1. /\ client[c] = "answered" /\ client' = [client EXCEPT ![c] = "live"]
      /\ routing' = [routing EXCEPT ![instance_id[c]] = plugin[c]]
      /\ UNCHANGED <<host, found, instances, outbound, plugin, instance_id, next_instance, released>>
  BY DEF AcquireClient, hostVars
<1>2. OnlyTouches(c)
  BY <1>c, <1>0, <1>1, WritesEntry DEF View, HasNumber
<1>3. Keeps(c)
  BY <1>c, <1>0, <1>1 DEF Keeps, View, Past
<1>m. Lasting(c)
  BY <1>c, <1>2, <1>3, NamesakesLast
<1>4. KeepsTruth(c)
  BY <1>c, <1>0, <1>1, <1>m
  DEF KeepsTruth, View, Truthful, IsRouted, Frame, Answers, HasNumber, Sides, Lasting
<1>5. HasNumber(c)'
  BY <1>c, <1>0, <1>1 DEF View, HasNumber, Sides
<1>6. Sides(c)'
  BY <1>c, <1>0, <1>1, <1>m DEF View, Sides, HasNumber, Lasting
<1>7. Routed(c)'
  BY <1>c, <1>0, <1>1, <1>m DEF View, Routed, IsRouted, HasNumber, Sides, Lasting
<1>8. Stored(c)'
  BY <1>c, <1>0, <1>1, <1>m DEF View, Stored, HasNumber, Sides, Lasting
<1>9. Tracked(c)'
  BY <1>5, <1>6, <1>7, <1>8 DEF Tracked
<1>10. Counted' /\ Distinct'
  BY <1>0, <1>1, NumbersStay DEF View
<1>11. \/ outbound' = outbound
       \/ \E f \in Frame : /\ outbound' = Append(outbound, f) /\ Truthful(f)'
                           /\ \A k \in DOMAIN outbound : Once(outbound[k], f)
BY <1>1
<1> QED BY <1>c, <1>1, <1>2, <1>3, <1>4, <1>9, <1>10, <1>11, OwnStep

LEMMA NextDrop ==
  ASSUME InstanceInv, TypeOK', NEW c \in Clients, DropClient(c)
  PROVE  InstanceInv'
<1>c. c \in AllClients
  BY DEF AllClients
<1>0. View(c)
  BY <1>c, OfOne
<1>1. /\ client[c] = "live"
      /\ client' = [client EXCEPT ![c] =
                      IF routing[instance_id[c]] \in Hosted THEN "lookup" ELSE "destroy"]
      /\ found' = [found EXCEPT ![c] = routing[instance_id[c]]]
      /\ UNCHANGED <<host, routing, instances, outbound, plugin, instance_id, next_instance, released>>
      /\ plugin[c] \in Hosted \cup Remote /\ Hosted \cap Remote = {} /\ c \notin PeerClients
  BY <1>c, <1>0, InstanceRoutingAssumption DEF View, DropClient, hostVars, Plugins
<1>2. OnlyTouches(c)
  BY <1>c, <1>0, <1>1 DEF OnlyTouches, View
<1>3. Keeps(c)
  BY <1>c, <1>0, <1>1 DEF Keeps, View, Past
<1>m. Lasting(c)
  BY <1>c, <1>2, <1>3, NamesakesLast
<1>4. KeepsTruth(c)
  BY <1>c, <1>0, <1>1, <1>m
  DEF KeepsTruth, View, Truthful, IsRouted, Frame, Answers, HasNumber, Sides, Lasting
<1>f. (IsRouted(c) /\ found'[c] = plugin[c]) \/ Mistaken(c)'
  <2>1. IsRouted(c) \/ Overridden(c)
    BY <1>0, <1>1 DEF View, Routed
  <2>2. found'[c] = routing[instance_id[c]]
    BY <1>c, <1>0, <1>1 DEF View
  <2> QED BY <1>c, <1>1, <1>m, <2>1, <2>2, FindsOwner DEF IsRouted
<1>5. HasNumber(c)'
  BY <1>c, <1>0, <1>1 DEF View, HasNumber, Sides
<1>6. Sides(c)'
  BY <1>c, <1>0, <1>1, <1>f DEF View, Sides, HasNumber, IsRouted
<1>7. Routed(c)'
  BY <1>c, <1>0, <1>1, <1>m DEF View, Routed, IsRouted, HasNumber, Sides, Lasting
<1>8. Stored(c)'
  BY <1>c, <1>0, <1>1, <1>m DEF View, Stored, HasNumber, Sides, Lasting
<1>9. Tracked(c)'
  BY <1>5, <1>6, <1>7, <1>8 DEF Tracked
<1>10. Counted' /\ Distinct'
  BY <1>0, <1>1, NumbersStay DEF View
<1>11. \/ outbound' = outbound
       \/ \E f \in Frame : /\ outbound' = Append(outbound, f) /\ Truthful(f)'
                           /\ \A k \in DOMAIN outbound : Once(outbound[k], f)
BY <1>1
<1> QED BY <1>c, <1>1, <1>2, <1>3, <1>4, <1>9, <1>10, <1>11, OwnStep

LEMMA NextForget ==
  ASSUME InstanceInv, TypeOK', NEW c \in AllClients, ForgetRemote(c)
  PROVE  InstanceInv'
<1>c. c \in AllClients
  BY DEF AllClients
<1>0. View(c)
  BY <1>c, OfOne
<1>1. /\ client[c] = "destroy" /\ client' = [client EXCEPT ![c] = "send"]
      /\ routing' = [routing EXCEPT ![instance_id[c]] = None]
      /\ UNCHANGED <<host, found, instances, outbound, plugin, instance_id, next_instance, released>>
      /\ None \notin Plugins
  BY InstanceRoutingAssumption DEF ForgetRemote, hostVars
<1>2. OnlyTouches(c)
  BY <1>c, <1>0, <1>1, WritesEntry DEF View, HasNumber, Past
<1>3. Keeps(c)
  BY <1>c, <1>0, <1>1 DEF Keeps, View, Past
<1>m. Lasting(c)
  BY <1>c, <1>2, <1>3, NamesakesLast
<1>4. KeepsTruth(c)
  BY <1>c, <1>0, <1>1, <1>m
  DEF KeepsTruth, View, Truthful, IsRouted, Frame, Answers, HasNumber, Sides, Lasting
<1>5. HasNumber(c)'
  BY <1>c, <1>0, <1>1 DEF View, HasNumber, Sides
<1>6. Sides(c)'
  BY <1>c, <1>0, <1>1, <1>m DEF View, Sides, HasNumber, Lasting
<1>7. Routed(c)'
  BY <1>c, <1>0, <1>1, <1>m DEF View, Routed, IsRouted, HasNumber, Sides, Lasting
<1>8. Stored(c)'
  BY <1>c, <1>0, <1>1, <1>m DEF View, Stored, HasNumber, Sides, Lasting
<1>9. Tracked(c)'
  BY <1>5, <1>6, <1>7, <1>8 DEF Tracked
<1>10. Counted' /\ Distinct'
  BY <1>0, <1>1, NumbersStay DEF View
<1>11. \/ outbound' = outbound
       \/ \E f \in Frame : /\ outbound' = Append(outbound, f) /\ Truthful(f)'
                           /\ \A k \in DOMAIN outbound : Once(outbound[k], f)
BY <1>1
<1> QED BY <1>c, <1>1, <1>2, <1>3, <1>4, <1>9, <1>10, <1>11, OwnStep

LEMMA NextLookUp ==
  ASSUME InstanceInv, TypeOK', NEW c \in AllClients, LookUpOwner(c)
  PROVE  InstanceInv'
<1>c. c \in AllClients
  BY DEF AllClients
<1>0. View(c)
  BY <1>c, OfOne
<1>1. /\ client[c] = "lookup" /\ client' = [client EXCEPT ![c] = "remove"]
      /\ found' = [found EXCEPT ![c] = routing[instance_id[c]]]
      /\ UNCHANGED <<host, routing, instances, outbound, plugin, instance_id, next_instance, released>>
  BY DEF LookUpOwner, hostVars
<1>2. OnlyTouches(c)
  BY <1>c, <1>0, <1>1 DEF OnlyTouches, View
<1>3. Keeps(c)
  BY <1>c, <1>0, <1>1 DEF Keeps, View, Past
<1>m. Lasting(c)
  BY <1>c, <1>2, <1>3, NamesakesLast
<1>4. KeepsTruth(c)
  BY <1>c, <1>0, <1>1, <1>m
  DEF KeepsTruth, View, Truthful, IsRouted, Frame, Answers, HasNumber, Sides, Lasting
<1>f. (IsRouted(c) /\ found'[c] = plugin[c]) \/ Mistaken(c)'
  <2>1. IsRouted(c) \/ Overridden(c)
    BY <1>0, <1>1 DEF View, Routed
  <2>2. found'[c] = routing[instance_id[c]]
    BY <1>0, <1>1 DEF View
  <2> QED BY <1>c, <1>1, <1>m, <2>1, <2>2, FindsOwner DEF IsRouted
<1>5. HasNumber(c)'
  BY <1>c, <1>0, <1>1 DEF View, HasNumber, Sides
<1>6. Sides(c)'
  BY <1>c, <1>0, <1>1, <1>f DEF View, Sides, HasNumber, IsRouted
<1>7. Routed(c)'
  BY <1>c, <1>0, <1>1, <1>m DEF View, Routed, IsRouted, HasNumber, Sides, Lasting
<1>8. Stored(c)'
  BY <1>c, <1>0, <1>1, <1>m DEF View, Stored, HasNumber, Sides, Lasting
<1>9. Tracked(c)'
  BY <1>5, <1>6, <1>7, <1>8 DEF Tracked
<1>10. Counted' /\ Distinct'
  BY <1>0, <1>1, NumbersStay DEF View
<1>11. \/ outbound' = outbound
       \/ \E f \in Frame : /\ outbound' = Append(outbound, f) /\ Truthful(f)'
                           /\ \A k \in DOMAIN outbound : Once(outbound[k], f)
BY <1>1
<1> QED BY <1>c, <1>1, <1>2, <1>3, <1>4, <1>9, <1>10, <1>11, OwnStep

LEMMA NextRemove ==
  ASSUME InstanceInv, TypeOK', NEW c \in AllClients, RemoveInstance(c)
  PROVE  InstanceInv'
<1>c. c \in AllClients
  BY DEF AllClients
<1>0. View(c)
  BY <1>c, OfOne
<1>1. /\ client[c] = "remove" 
      /\ client' = [client EXCEPT ![c] = IF found[c] \in Hosted THEN "reap" ELSE "gone"]
      /\ routing' = [routing EXCEPT ![instance_id[c]] = None]
      /\ UNCHANGED <<host, found, instances, outbound, plugin, instance_id, next_instance, released>>
      /\ None \notin Plugins
  BY InstanceRoutingAssumption DEF RemoveInstance, hostVars
<1>2. OnlyTouches(c)
  BY <1>c, <1>0, <1>1, WritesEntry DEF View, HasNumber, Past
<1>3. Keeps(c)
  BY <1>c, <1>0, <1>1 DEF Keeps, View, Past
<1>m. Lasting(c)
  BY <1>c, <1>2, <1>3, NamesakesLast
<1>4. KeepsTruth(c)
  BY <1>c, <1>0, <1>1, <1>m
  DEF KeepsTruth, View, Truthful, IsRouted, Frame, Answers, HasNumber, Sides, Lasting
<1>5. HasNumber(c)'
  BY <1>c, <1>0, <1>1 DEF View, HasNumber, Sides
<1>6. Sides(c)'
  BY <1>c, <1>0, <1>1, <1>m DEF View, Sides, HasNumber, Lasting
<1>7. Routed(c)'
  BY <1>c, <1>0, <1>1, <1>m DEF View, Routed, IsRouted, HasNumber, Sides, Lasting
<1>8. Stored(c)'
  BY <1>c, <1>0, <1>1, <1>m DEF View, Stored, HasNumber, Sides, Lasting
<1>9. Tracked(c)'
  BY <1>5, <1>6, <1>7, <1>8 DEF Tracked
<1>10. Counted' /\ Distinct'
  BY <1>0, <1>1, NumbersStay DEF View
<1>11. \/ outbound' = outbound
       \/ \E f \in Frame : /\ outbound' = Append(outbound, f) /\ Truthful(f)'
                           /\ \A k \in DOMAIN outbound : Once(outbound[k], f)
BY <1>1
<1> QED BY <1>c, <1>1, <1>2, <1>3, <1>4, <1>9, <1>10, <1>11, OwnStep

LEMMA NextReap ==
  ASSUME InstanceInv, TypeOK', NEW c \in AllClients, Reap(c)
  PROVE  InstanceInv'
<1>c. c \in AllClients
  BY DEF AllClients
<1>0. View(c)
  BY <1>c, OfOne
<1>1. /\ client[c] = "reap" /\ client' = [client EXCEPT ![c] = "gone"]
      /\ instances' = [instances EXCEPT ![found[c]][instance_id[c]] = None]
      /\ UNCHANGED <<host, found, routing, outbound, plugin, instance_id, next_instance, released>>
      /\ None \notin AllClients
  BY InstanceRoutingAssumption DEF Reap
<1>2. OnlyTouches(c)
  <2> SUFFICES ASSUME NEW d \in AllClients \ {c}, instance_id[d] # 0
               PROVE  \/ instances'[plugin[d]][instance_id[d]] = instances[plugin[d]][instance_id[d]]
                      \/ Reaps(c, d)
    BY <1>c, <1>0, <1>1 DEF OnlyTouches, View
  <2>1. CASE plugin[d] = found[c] /\ instance_id[d] = instance_id[c]
    <3>1. CASE plugin[d] = plugin[c]
      BY <1>0, <2>1, <3>1 DEF View
    <3>2. CASE plugin[d] # plugin[c]
      <4>1. c \in Namesakes(d)'
        BY <1>c, <1>1, <2>1, <3>2 DEF Namesakes
      <4>2. client'[c] = "gone" /\ found'[c] = plugin[d]
        BY <1>c, <1>0, <1>1, <2>1 DEF View
      <4>3. instances'[plugin[d]][instance_id[d]] = None
        BY <1>c, <1>0, <1>1, <2>1 DEF View
      <4> QED BY <4>1, <4>2, <4>3 DEF Reaps
    <3> QED BY <3>1, <3>2
  <2>2. CASE ~(plugin[d] = found[c] /\ instance_id[d] = instance_id[c])
    BY <1>c, <1>0, <1>1, <2>2 DEF View
  <2> QED BY <2>1, <2>2
<1>3. Keeps(c)
  BY <1>c, <1>0, <1>1 DEF Keeps, View, Past
<1>m. Lasting(c)
  BY <1>c, <1>2, <1>3, NamesakesLast
<1>4. KeepsTruth(c)
  BY <1>c, <1>0, <1>1, <1>m
  DEF KeepsTruth, View, Truthful, IsRouted, Frame, Answers, HasNumber, Sides, Lasting
<1>5. HasNumber(c)'
  BY <1>c, <1>0, <1>1 DEF View, HasNumber, Sides
<1>6. Sides(c)'
  BY <1>c, <1>0, <1>1, <1>m DEF View, Sides, HasNumber, Lasting
<1>7. Routed(c)'
  BY <1>c, <1>0, <1>1, <1>m DEF View, Routed, IsRouted, HasNumber, Sides, Lasting
<1>8. Stored(c)'
  BY <1>c, <1>0, <1>1, <1>m DEF View, Stored, HasNumber, Sides, Lasting
<1>9. Tracked(c)'
  BY <1>5, <1>6, <1>7, <1>8 DEF Tracked
<1>10. Counted' /\ Distinct'
  BY <1>0, <1>1, NumbersStay DEF View
<1>11. \/ outbound' = outbound
       \/ \E f \in Frame : /\ outbound' = Append(outbound, f) /\ Truthful(f)'
                           /\ \A k \in DOMAIN outbound : Once(outbound[k], f)
BY <1>1
<1> QED BY <1>c, <1>1, <1>2, <1>3, <1>4, <1>9, <1>10, <1>11, OwnStep

LEMMA NextPeerCreate ==
  ASSUME InstanceInv, TypeOK', NEW c \in PeerClients, PeerCreateInstance(c)
  PROVE  InstanceInv'
<1>c. c \in AllClients
  BY DEF AllClients
<1>0. View(c)
  BY <1>c, OfOne
<1>1. /\ client[c] = "idle" /\ client' = [client EXCEPT ![c] = "creating"]
      /\ host' = [host EXCEPT ![c] = "running"]
      /\ UNCHANGED <<found, routing, instances, outbound, plugin, instance_id, next_instance, released>>
      /\ Clients \cap PeerClients = {}
  BY InstanceRoutingAssumption DEF PeerCreateInstance
<1>2. OnlyTouches(c)
  BY <1>c, <1>0, <1>1 DEF OnlyTouches, View
<1>3. Keeps(c)
  BY <1>c, <1>0, <1>1 DEF Keeps, View, Past
<1>m. Lasting(c)
  BY <1>c, <1>2, <1>3, NamesakesLast
<1>4. KeepsTruth(c)
  BY <1>c, <1>0, <1>1, <1>m
  DEF KeepsTruth, View, Truthful, IsRouted, Frame, Answers, HasNumber, Sides, Lasting
<1>5. HasNumber(c)'
  BY <1>c, <1>0, <1>1 DEF View, HasNumber, Sides
<1>6. Sides(c)'
  BY <1>c, <1>0, <1>1, <1>m DEF View, Sides, HasNumber, Lasting
<1>7. Routed(c)'
  BY <1>c, <1>0, <1>1, <1>m DEF View, Routed, IsRouted, HasNumber, Sides, Lasting
<1>8. Stored(c)'
  BY <1>c, <1>0, <1>1, <1>m DEF View, Stored, HasNumber, Sides, Lasting
<1>9. Tracked(c)'
  BY <1>5, <1>6, <1>7, <1>8 DEF Tracked
<1>10. Counted' /\ Distinct'
  BY <1>0, <1>1, NumbersStay DEF View
<1>11. \/ outbound' = outbound
       \/ \E f \in Frame : /\ outbound' = Append(outbound, f) /\ Truthful(f)'
                           /\ \A k \in DOMAIN outbound : Once(outbound[k], f)
BY <1>1
<1> QED BY <1>c, <1>1, <1>2, <1>3, <1>4, <1>9, <1>10, <1>11, OwnStep

LEMMA NextPeerDestroy ==
  ASSUME InstanceInv, TypeOK', NEW c \in PeerClients, PeerDestroyInstance(c)
  PROVE  InstanceInv'
<1>c. c \in AllClients
  BY DEF AllClients
<1>0. View(c)
  BY <1>c, OfOne
<1>1. /\ client[c] = "live" /\ client' = [client EXCEPT ![c] = "lookup"]
      /\ UNCHANGED <<host, found, routing, instances, outbound, plugin, instance_id, next_instance, released>>
  BY DEF PeerDestroyInstance, hostVars
<1>2. OnlyTouches(c)
  BY <1>c, <1>0, <1>1 DEF OnlyTouches, View
<1>3. Keeps(c)
  BY <1>c, <1>0, <1>1 DEF Keeps, View, Past
<1>m. Lasting(c)
  BY <1>c, <1>2, <1>3, NamesakesLast
<1>4. KeepsTruth(c)
  BY <1>c, <1>0, <1>1, <1>m
  DEF KeepsTruth, View, Truthful, IsRouted, Frame, Answers, HasNumber, Sides, Lasting
<1>5. HasNumber(c)'
  BY <1>c, <1>0, <1>1 DEF View, HasNumber, Sides
<1>6. Sides(c)'
  BY <1>c, <1>0, <1>1, <1>m DEF View, Sides, HasNumber, Lasting
<1>7. Routed(c)'
  BY <1>c, <1>0, <1>1, <1>m DEF View, Routed, IsRouted, HasNumber, Sides, Lasting
<1>8. Stored(c)'
  BY <1>c, <1>0, <1>1, <1>m DEF View, Stored, HasNumber, Sides, Lasting
<1>9. Tracked(c)'
  BY <1>5, <1>6, <1>7, <1>8 DEF Tracked
<1>10. Counted' /\ Distinct'
  BY <1>0, <1>1, NumbersStay DEF View
<1>11. \/ outbound' = outbound
       \/ \E f \in Frame : /\ outbound' = Append(outbound, f) /\ Truthful(f)'
                           /\ \A k \in DOMAIN outbound : Once(outbound[k], f)
BY <1>1
<1> QED BY <1>c, <1>1, <1>2, <1>3, <1>4, <1>9, <1>10, <1>11, OwnStep

LEMMA InChannel ==
  InstanceInv => \A k \in DOMAIN outbound : outbound[k] \in Frame /\ Truthful(outbound[k])
BY DEF InstanceInv, Channel, TypeOK

LEMMA NextSendDestroy ==
  ASSUME InstanceInv, TypeOK', NEW c \in AllClients, SendDestroy(c)
  PROVE  InstanceInv'
<1>c. c \in AllClients
  BY DEF AllClients
<1>0. View(c)
  BY <1>c, OfOne
<1>1. /\ client[c] = "send" /\ client' = [client EXCEPT ![c] = "gone"]
      /\ outbound' = Append(outbound, [kind |-> "Destroy", client |-> c, id |-> instance_id[c]])
      /\ UNCHANGED <<host, found, routing, instances, plugin, instance_id, next_instance, released>>
      /\ c \in Clients /\ Hosted \cap Remote = {}
  BY <1>0, InstanceRoutingAssumption DEF SendDestroy, hostVars, send_outbound, View, Sides,
     AllClients
<1>2. OnlyTouches(c)
  BY <1>c, <1>0, <1>1 DEF OnlyTouches, View
<1>3. Keeps(c)
  BY <1>c, <1>0, <1>1 DEF Keeps, View, Past
<1>m. Lasting(c)
  BY <1>c, <1>2, <1>3, NamesakesLast
<1>4. KeepsTruth(c)
  BY <1>c, <1>0, <1>1, <1>m
  DEF KeepsTruth, View, Truthful, IsRouted, Frame, Answers, HasNumber, Sides, Lasting
<1>5. HasNumber(c)'
  BY <1>c, <1>0, <1>1 DEF View, HasNumber, Sides
<1>6. Sides(c)'
  BY <1>c, <1>0, <1>1, <1>m DEF View, Sides, HasNumber, Lasting
<1>7. Routed(c)'
  BY <1>c, <1>0, <1>1, <1>m DEF View, Routed, IsRouted, HasNumber, Sides, Lasting
<1>8. Stored(c)'
  BY <1>c, <1>0, <1>1, <1>m DEF View, Stored, HasNumber, Sides, Lasting
<1>9. Tracked(c)'
  BY <1>5, <1>6, <1>7, <1>8 DEF Tracked
<1>10. Counted' /\ Distinct'
  BY <1>0, <1>1, NumbersStay DEF View
<1>11. \/ outbound' = outbound
       \/ \E f \in Frame : /\ outbound' = Append(outbound, f) /\ Truthful(f)'
                           /\ \A k \in DOMAIN outbound : Once(outbound[k], f)
  <2>1. CASE outbound' = outbound
    BY <2>1
  <2>2. CASE TRUE /\ outbound' = Append(outbound, [kind |-> "Destroy", client |-> c, id |-> instance_id[c]])
    <3> DEFINE kd == "Destroy"
               n == instance_id[c]
               g == [kind |-> kd, client |-> c, id |-> n]
    <3>1. g \in Frame /\ g.kind = kd /\ g.client = c /\ g.id = n /\ kd = "Destroy"
          /\ n = instance_id[c]
      BY <1>c, <1>0, <1>1, <2>2 DEF View, Frame
    <3>2. outbound' = Append(outbound, g)
      BY <2>2
    <3> HIDE DEF kd, n, g
    <3> PICK f \in Frame : f = g
      BY <3>1
    <3>3. Truthful(f)'
      BY <1>c, <1>0, <1>1, <2>2, <3>1, <1>m DEF View, Truthful, Answers, Sides, Lasting
    <3>4. \A k \in DOMAIN outbound : Once(outbound[k], f)
      BY <1>c, <1>0, <1>1, <2>2, <3>1, InChannel DEF View, Once, Answers
    <3> QED BY <3>2, <3>3, <3>4
  <2> QED BY <1>1, <2>1, <2>2
<1> QED BY <1>c, <1>1, <1>2, <1>3, <1>4, <1>9, <1>10, <1>11, OwnStep

LEMMA NextAbandon ==
  ASSUME InstanceInv, TypeOK', NEW c \in Clients, Abandon(c)
  PROVE  InstanceInv'
<1>c. c \in AllClients
  BY DEF AllClients
<1>0. View(c)
  BY <1>c, OfOne
<1>1. /\ client[c] \in {"creating", "answered"} /\ client' = [client EXCEPT ![c] = "abandoned"]
      /\ \/ outbound' = outbound
         \/ plugin[c] \in Remote /\ outbound' = Append(outbound, [kind |-> "Cancel", client |-> c, id |-> 0])
      /\ UNCHANGED <<host, found, routing, instances, plugin, instance_id, next_instance, released>>
      /\ c \notin PeerClients /\ Hosted \cap Remote = {}
  BY InstanceRoutingAssumption DEF Abandon, hostVars, send_outbound
<1>2. OnlyTouches(c)
  BY <1>c, <1>0, <1>1 DEF OnlyTouches, View
<1>3. Keeps(c)
  BY <1>c, <1>0, <1>1 DEF Keeps, View, Past
<1>m. Lasting(c)
  BY <1>c, <1>2, <1>3, NamesakesLast
<1>4. KeepsTruth(c)
  BY <1>c, <1>0, <1>1, <1>m
  DEF KeepsTruth, View, Truthful, IsRouted, Frame, Answers, HasNumber, Sides, Lasting
<1>5. HasNumber(c)'
  BY <1>c, <1>0, <1>1 DEF View, HasNumber, Sides
<1>6. Sides(c)'
  BY <1>c, <1>0, <1>1, <1>m DEF View, Sides, HasNumber, Lasting
<1>7. Routed(c)'
  BY <1>c, <1>0, <1>1, <1>m DEF View, Routed, IsRouted, HasNumber, Sides, Lasting
<1>8. Stored(c)'
  BY <1>c, <1>0, <1>1, <1>m DEF View, Stored, HasNumber, Sides, Lasting
<1>9. Tracked(c)'
  BY <1>5, <1>6, <1>7, <1>8 DEF Tracked
<1>10. Counted' /\ Distinct'
  BY <1>0, <1>1, NumbersStay DEF View
<1>11. \/ outbound' = outbound
       \/ \E f \in Frame : /\ outbound' = Append(outbound, f) /\ Truthful(f)'
                           /\ \A k \in DOMAIN outbound : Once(outbound[k], f)
  <2>1. CASE outbound' = outbound
    BY <2>1
  <2>2. CASE plugin[c] \in Remote
             /\ outbound' = Append(outbound, [kind |-> "Cancel", client |-> c, id |-> 0])
    <3> DEFINE kd == "Cancel"
               n == 0
               g == [kind |-> kd, client |-> c, id |-> n]
    <3>1. g \in Frame /\ g.kind = kd /\ g.client = c /\ g.id = n /\ kd = "Cancel" /\ n = 0
      BY <1>c, <1>0, <1>1, <2>2 DEF View, Frame
    <3>2. outbound' = Append(outbound, g)
      BY <2>2
    <3> HIDE DEF kd, n, g
    <3> PICK f \in Frame : f = g
      BY <3>1
    <3>3. Truthful(f)'
      BY <1>c, <1>0, <1>1, <2>2, <3>1, <1>5, <1>7 DEF View, Truthful, Answers
    <3>4. \A k \in DOMAIN outbound : Once(outbound[k], f)
      BY <1>c, <1>0, <1>1, <2>2, <3>1, InChannel DEF View, Once, Answers
    <3> QED BY <3>2, <3>3, <3>4
  <2> QED BY <1>1, <2>1, <2>2
<1> QED BY <1>c, <1>1, <1>2, <1>3, <1>4, <1>9, <1>10, <1>11, OwnStep

LEMMA NextCreate ==
  ASSUME InstanceInv, TypeOK', NEW c \in Clients, CreateInstance(c)
  PROVE  InstanceInv'
<1>c. c \in AllClients
  BY DEF AllClients
<1>0. View(c)
  BY <1>c, OfOne
<1>1. /\ client[c] = "idle" /\ client' = [client EXCEPT ![c] = "creating"]
      /\ \/ /\ plugin[c] \in Hosted /\ outbound' = outbound
            /\ host' = [host EXCEPT ![c] = "running"]
         \/ /\ plugin[c] \in Remote /\ host' = host
            /\ outbound' = Append(outbound, [kind |-> "Create", client |-> c, id |-> 0])
      /\ UNCHANGED <<found, routing, instances, plugin, instance_id, next_instance, released>>
      /\ c \notin PeerClients /\ Hosted \cap Remote = {}
  BY InstanceRoutingAssumption DEF CreateInstance, send_outbound
<1>2. OnlyTouches(c)
  BY <1>c, <1>0, <1>1 DEF OnlyTouches, View
<1>3. Keeps(c)
  BY <1>c, <1>0, <1>1 DEF Keeps, View, Past
<1>m. Lasting(c)
  BY <1>c, <1>2, <1>3, NamesakesLast
<1>4. KeepsTruth(c)
  BY <1>c, <1>0, <1>1, <1>m
  DEF KeepsTruth, View, Truthful, IsRouted, Frame, Answers, HasNumber, Sides, Lasting
<1>5. HasNumber(c)'
  BY <1>c, <1>0, <1>1 DEF View, HasNumber, Sides
<1>6. Sides(c)'
  BY <1>c, <1>0, <1>1, <1>m DEF View, Sides, HasNumber, Lasting
<1>7. Routed(c)'
  BY <1>c, <1>0, <1>1, <1>m DEF View, Routed, IsRouted, HasNumber, Sides, Lasting
<1>8. Stored(c)'
  BY <1>c, <1>0, <1>1, <1>m DEF View, Stored, HasNumber, Sides, Lasting
<1>9. Tracked(c)'
  BY <1>5, <1>6, <1>7, <1>8 DEF Tracked
<1>10. Counted' /\ Distinct'
  BY <1>0, <1>1, NumbersStay DEF View
<1>11. \/ outbound' = outbound
       \/ \E f \in Frame : /\ outbound' = Append(outbound, f) /\ Truthful(f)'
                           /\ \A k \in DOMAIN outbound : Once(outbound[k], f)
  <2>1. CASE outbound' = outbound
    BY <2>1
  <2>2. CASE host' = host /\ plugin[c] \in Remote
             /\ outbound' = Append(outbound, [kind |-> "Create", client |-> c, id |-> 0])
    <3> DEFINE kd == "Create"
               n == 0
               g == [kind |-> kd, client |-> c, id |-> n]
    <3>1. g \in Frame /\ g.kind = kd /\ g.client = c /\ g.id = n /\ kd = "Create" /\ n = 0
      BY <1>c, <1>0, <1>1, <2>2 DEF View, Frame
    <3>2. outbound' = Append(outbound, g)
      BY <2>2
    <3> HIDE DEF kd, n, g
    <3> PICK f \in Frame : f = g
      BY <3>1
    <3>3. Truthful(f)'
      BY <1>c, <1>0, <1>1, <2>2, <3>1, <1>5, <1>7 DEF View, Truthful, Answers, HasNumber
    <3>4. \A k \in DOMAIN outbound : Once(outbound[k], f)
      BY <1>c, <1>0, <1>1, <2>2, <3>1, InChannel DEF View, Once, Answers, Truthful, HasNumber
    <3> QED BY <3>2, <3>3, <3>4
  <2> QED BY <1>1, <2>1, <2>2
<1> QED BY <1>c, <1>1, <1>2, <1>3, <1>4, <1>9, <1>10, <1>11, OwnStep

LEMMA NextRespond ==
  ASSUME InstanceInv, TypeOK', NEW c \in AllClients, RespondCreated(c)
  PROVE  InstanceInv'
<1>c. c \in AllClients
  BY DEF AllClients
<1>0. View(c)
  BY <1>c, OfOne
<1>1. /\ host[c] \in {"respond", "respond_error"} /\ host' = [host EXCEPT ![c] = "done"]
      /\ plugin[c] \in Hosted
      /\ \/ /\ client[c] = "creating" /\ c \in Clients /\ outbound' = outbound
            /\ client' = [client EXCEPT ![c] = IF host[c] = "respond" THEN "answered" ELSE "failed"]
         \/ /\ client[c] # "creating" \/ c \in PeerClients
            /\ client' = client
            /\ outbound' = Append(outbound, [kind |-> IF host[c] = "respond" THEN "Respond" ELSE "Failed",
                                            client |-> c, id |-> instance_id[c]])
      /\ UNCHANGED <<found, routing, instances, plugin, instance_id, next_instance, released>>
      /\ Clients \cap PeerClients = {} /\ Hosted \cap Remote = {}
  BY <1>0, InstanceRoutingAssumption DEF RespondCreated, send_outbound, View, Sides
<1>2. OnlyTouches(c)
  BY <1>c, <1>0, <1>1 DEF OnlyTouches, View
<1>3. Keeps(c)
  BY <1>c, <1>0, <1>1 DEF Keeps, View, Past
<1>m. Lasting(c)
  BY <1>c, <1>2, <1>3, NamesakesLast
<1>4. KeepsTruth(c)
  BY <1>c, <1>0, <1>1, <1>m
  DEF KeepsTruth, View, Truthful, IsRouted, Frame, Answers, HasNumber, Sides, Lasting
<1>5. HasNumber(c)'
  BY <1>c, <1>0, <1>1 DEF View, HasNumber, Sides
<1>6. Sides(c)'
  BY <1>c, <1>0, <1>1, <1>m DEF View, Sides, HasNumber, Lasting
<1>7. Routed(c)'
  BY <1>c, <1>0, <1>1, <1>m DEF View, Routed, IsRouted, HasNumber, Sides, Lasting
<1>8. Stored(c)'
  BY <1>c, <1>0, <1>1, <1>m DEF View, Stored, HasNumber, Sides, Lasting
<1>9. Tracked(c)'
  BY <1>5, <1>6, <1>7, <1>8 DEF Tracked
<1>10. Counted' /\ Distinct'
  BY <1>0, <1>1, NumbersStay DEF View
<1>11. \/ outbound' = outbound
       \/ \E f \in Frame : /\ outbound' = Append(outbound, f) /\ Truthful(f)'
                           /\ \A k \in DOMAIN outbound : Once(outbound[k], f)
  <2>1. CASE outbound' = outbound
    BY <2>1
  <2>2. ASSUME NEW kd \in Answers, kd = "Respond" => host[c] = "respond",
               client' = client, client[c] # "creating" \/ c \in PeerClients,
               outbound' = Append(outbound, [kind |-> kd, client |-> c, id |-> instance_id[c]])
        PROVE  \E f \in Frame : /\ outbound' = Append(outbound, f) /\ Truthful(f)'
                                /\ \A k \in DOMAIN outbound : Once(outbound[k], f)
    <3>1. instance_id[c] \in InstanceIds \cup {0}
      BY <1>c, <1>0 DEF View
    <3> PICK n \in InstanceIds \cup {0} : n = instance_id[c]
      BY <3>1
    <3> DEFINE g == [kind |-> kd, client |-> c, id |-> n]
    <3>2. g \in Frame /\ g.kind = kd /\ g.client = c /\ outbound' = Append(outbound, g)
      BY <1>c, <2>2 DEF Frame, Answers
    <3> HIDE DEF g
    <3> PICK f \in Frame : f = g
      BY <3>2
    <3>3. host'[c] = "done" /\ plugin'[c] \in Hosted
      BY <1>c, <1>0, <1>1 DEF View
    <3>4. c \in PeerClients => client'[c] = "creating"
      BY <1>c, <1>0, <1>1, <2>2 DEF View, HasNumber, Sides, ClientPhase
    <3>5. kd = "Respond" => instance_id'[c] # 0 /\ (IsRouted(c)' \/ Overridden(c)')
      BY <1>c, <1>0, <1>1, <1>m, <2>2 DEF View, HasNumber, Routed, IsRouted, Lasting
    <3>6. Truthful(f)'
      BY <2>2, <3>2, <3>3, <3>4, <3>5 DEF Truthful, Answers
    <3>7. \A k \in DOMAIN outbound : Once(outbound[k], f)
      BY <1>c, <1>0, <1>1, <3>2, InChannel DEF View, Once, Answers, Truthful, HasNumber, Sides
    <3> QED BY <3>2, <3>6, <3>7
  <2>3. CASE host[c] = "respond"
    BY <1>1, <2>1, <2>2, <2>3 DEF Answers
  <2>4. CASE host[c] # "respond"
    BY <1>1, <2>1, <2>2, <2>4 DEF Answers
  <2> QED BY <2>3, <2>4
<1> QED BY <1>c, <1>1, <1>2, <1>3, <1>4, <1>9, <1>10, <1>11, OwnStep

LEMMA NextHostCreates ==
  ASSUME InstanceInv, TypeOK', NEW c \in AllClients, HostCreates(c)
  PROVE  InstanceInv'
<1>0. View(c)
  BY OfOne
<1>a. /\ host[c] = "running" /\ instance_id[c] = 0 /\ plugin[c] \in Plugins
      /\ client[c] \notin {"answered", "live", "destroy", "lookup", "remove", "reap", "send", "gone", "idle", "failed"}
  BY <1>0 DEF HostCreates, View, HasNumber
<1>b. CASE host' = [host EXCEPT ![c] = "refused"] /\ UNCHANGED <<instances, instance_id, next_instance>>
  <2>1. UNCHANGED <<client, plugin, found, tripped, routing, outbound, released, instances, instance_id, next_instance>>
    BY <1>b DEF HostCreates
  <2>2. OnlyTouches(c)
    BY <1>0, <1>b, <2>1 DEF OnlyTouches, View
  <2>3. Keeps(c)
    BY <2>1 DEF Keeps
  <2>m. Lasting(c)
    BY <2>2, <2>3, NamesakesLast
  <2>4. KeepsTruth(c)
    BY <1>0, <1>a, <1>b, <2>1 DEF KeepsTruth, View, Truthful, Answers, Frame
  <2>5. Tracked(c)'
    BY <1>0, <1>a, <1>b, <2>1, <2>m DEF View, Tracked, HasNumber, Sides, Routed, IsRouted, Stored, Lasting
  <2>6. Counted' /\ Distinct'
    BY <1>0, <2>1, NumbersStay DEF View
  <2> QED BY <2>1, <2>2, <2>3, <2>4, <2>5, <2>6, OwnStep
<1>d. CASE /\ instances' = [instances EXCEPT ![plugin[c]][next_instance[plugin[c]]] = c]
           /\ instance_id' = [instance_id EXCEPT ![c] = next_instance[plugin[c]]]
           /\ next_instance' = [next_instance EXCEPT ![plugin[c]] = @ + 1]
           /\ host' = [host EXCEPT ![c] = "created"]
  <2> PICK p \in Plugins : p = plugin[c]
    BY <1>a
  <2> PICK n \in InstanceIds : n = next_instance[p]
    BY <1>0 DEF View
  <2>1. /\ UNCHANGED <<client, plugin, found, tripped, routing, outbound, released>>
        /\ instances' = [instances EXCEPT ![p][n] = c]
        /\ instance_id' = [instance_id EXCEPT ![c] = n]
        /\ next_instance' = [next_instance EXCEPT ![p] = n + 1]
        /\ host' = [host EXCEPT ![c] = "created"]
    BY <1>0, <1>d DEF HostCreates, View
  <2>2. /\ n \in Nat \ {0} /\ n + 1 \in InstanceIds /\ next_instance[p] = n
    BY <1>0, <1>a, RoomForOne, Sizes DEF View
  <2>3. \A d \in AllClients : plugin[d] = p => instance_id[d] # n
    <3> SUFFICES ASSUME NEW d \in AllClients, plugin[d] = p, instance_id[d] = n PROVE FALSE
      OBVIOUS
    <3>1. HasNumber(d) /\ instance_id[d] # 0
      BY <2>2, OfOne DEF View
    <3> QED BY <1>0, <2>2, <3>1, InUse DEF View
  <2>4. OnlyTouches(c)
    <3> SUFFICES ASSUME NEW d \in AllClients \ {c}
                 PROVE  /\ client'[d] = client[d] /\ host'[d] = host[d]
                        /\ instance_id'[d] = instance_id[d] /\ found'[d] = found[d]
                        /\ next_instance'[plugin[d]] >= next_instance[plugin[d]]
                        /\ routing'[instance_id[d]] = routing[instance_id[d]]
                        /\ instances'[plugin[d]][instance_id[d]] = instances[plugin[d]][instance_id[d]]
      BY <2>1 DEF OnlyTouches
    <3>1. plugin[d] \in Plugins /\ next_instance[plugin[d]] \in Nat
      BY <1>0 DEF View
    <3>2. next_instance'[plugin[d]] >= next_instance[plugin[d]]
      BY <1>0, <2>1, <2>2, <3>1 DEF View
    <3>3. plugin[d] = p => instance_id[d] # n
      BY <2>3
    <3>4. instances'[plugin[d]][instance_id[d]] = instances[plugin[d]][instance_id[d]]
      BY <1>0, <2>1, <3>1, <3>3 DEF View
    <3> QED BY <1>0, <2>1, <3>2, <3>4 DEF View
  <2>5. Keeps(c)
    BY <1>a, <2>1 DEF Keeps
  <2>6. KeepsTruth(c)
    BY <1>0, <1>a, <2>1 DEF KeepsTruth, View, Truthful, Answers, Frame
  <2>7. /\ instance_id'[c] = n /\ next_instance'[p] = n + 1 /\ host'[c] = "created"
        /\ client'[c] = client[c] /\ plugin'[c] = p /\ instances'[p][n] = c
    BY <1>0, <2>1 DEF View
  <2>8. HasNumber(c)'
    BY <1>a, <2>2, <2>7 DEF HasNumber
  <2>9. Sides(c)' /\ Routed(c)' /\ Stored(c)'
    BY <1>0, <1>a, <2>1, <2>7 DEF View, Sides, Routed, Stored
  <2>10. Counted'
    <3> SUFFICES ASSUME NEW q \in Plugins
                 PROVE  next_instance'[q] = 1 + Cardinality(Created(q)')
      BY DEF Counted
    <3>1. next_instance[q] = 1 + Cardinality(Created(q))
      BY <1>0 DEF View, Counted
    <3>2. CASE q # p
      <4>1. Created(q)' = Created(q)
        BY <1>0, <2>1, <3>2 DEF Created, View
      <4> QED BY <1>0, <2>1, <3>1, <3>2, <4>1 DEF View
    <3>3. CASE q = p
      <4>1. Created(p)' = Created(p) \cup {c} /\ c \notin Created(p)
        BY <1>0, <1>a, <2>1, <2>2 DEF Created, View
      <4>2. IsFiniteSet(Created(p)) /\ Cardinality(Created(p)) \in Nat
        BY Sizes, FS_Subset, FS_CardinalityType DEF Created
      <4>3. Cardinality(Created(p)') = Cardinality(Created(p)) + 1
        BY <4>1, <4>2, FS_AddElement
      <4> QED BY <2>2, <2>7, <3>1, <3>3, <4>2, <4>3
    <3> QED BY <3>2, <3>3
  <2>11. Distinct'
    BY <1>0, <2>1, <2>3 DEF Distinct, View
  <2> QED BY <2>1, <2>4, <2>5, <2>6, <2>8, <2>9, <2>10, <2>11, OwnStep DEF Tracked
<1> QED BY <1>b, <1>d DEF HostCreates

LEMMA NextPump ==
  ASSUME InstanceInv, TypeOK', Pump
  PROVE  InstanceInv'
<1>1. TypeOK /\ outbound \in Seq(Frame) /\ outbound # <<>> /\ outbound' = Tail(outbound)
  BY DEF InstanceInv, TypeOK, Pump
<1>2. 1 \in DOMAIN outbound /\ Head(outbound) = outbound[1]
  BY <1>1
<1> PICK f \in Frame : f = outbound[1] /\ Truthful(f)
  BY <1>2, InChannel
<1>3. PeerReceives(f)
  BY <1>2 DEF Pump
<1> PICK c \in AllClients : c = f.client
  BY DEF Frame
<1>0. View(c) /\ Hosted \cap Remote = {} /\ Clients \cap PeerClients = {}
  BY OfOne, InstanceRoutingAssumption
<1>4. UNCHANGED <<plugin, instance_id, found, instances, next_instance, tripped, routing>>
  BY DEF Pump
<1>5. OnlyTouches(c)
  BY <1>0, <1>3, <1>4 DEF OnlyTouches, PeerReceives, View
<1>k. Keeps(c)
  BY <1>0, <1>3, <1>4 DEF Keeps, PeerReceives, View, Truthful, Answers, Past, Frame, AllClients
<1>m. \A d \in AllClients : Lasting(d)
  BY <1>5, <1>k, NamesakesLast
\* What becomes of the client the frame is about.
<1>6. \/ /\ f.kind = "Create" /\ c \in Clients /\ plugin[c] \in Remote
         /\ host[c] = "none" /\ client[c] # "idle"
         /\ host'[c] = "running" /\ UNCHANGED <<client, released>>
      \/ /\ f.kind = "Cancel" /\ c \in Clients /\ plugin[c] \in Remote
         /\ host'[c] = host[c] \/ (host[c] = "running" /\ host'[c] = "discarded")
         /\ UNCHANGED <<client, released>>
      \/ f.kind \in Answers /\ c \in Clients /\ UNCHANGED <<host, client, released>>
      \/ /\ f.kind \in Answers /\ c \in PeerClients /\ client[c] = "creating" /\ host[c] = "done"
         /\ plugin[c] \in Hosted
         /\ \/ client'[c] = "live" /\ instance_id[c] # 0 /\ (IsRouted(c) \/ Overridden(c))
            \/ client'[c] = "failed"
         /\ UNCHANGED <<host, released>>
      \/ /\ f.kind = "Destroy" /\ c \in Clients /\ (plugin[c] \in Remote \/ Mistaken(c))
         /\ client[c] = "gone" /\ f.id = instance_id[c]
         /\ released' = released \cup {f.id} /\ UNCHANGED <<client, host>>
  <2>1. CASE f.kind = "Create"
    BY <1>0, <1>3, <2>1 DEF PeerReceives, Truthful, View
  <2>2. CASE f.kind = "Cancel"
    BY <1>0, <1>3, <2>2 DEF PeerReceives, Truthful, View
  <2>3. CASE f.kind \in Answers /\ c \in Clients
    <3>1. client' = [client EXCEPT ![c] = client[c]] /\ UNCHANGED <<host, released>>
      BY <1>0, <1>3, <2>3 DEF PeerReceives, Answers
    <3>2. client' = client
      BY <1>0, <3>1 DEF View
    <3> QED BY <2>3, <3>1, <3>2
  <2>4. CASE f.kind \in Answers /\ c \in PeerClients
    BY <1>0, <1>3, <2>4 DEF PeerReceives, Truthful, View, Answers
  <2>5. CASE f.kind = "Destroy"
    BY <1>0, <1>3, <2>5 DEF PeerReceives, Truthful, View
  <2> QED BY <2>1, <2>2, <2>3, <2>4, <2>5 DEF Frame, Answers, AllClients
<1>7. Tracked(c)'
  <2>1. HasNumber(c)'
    BY <1>0, <1>4, <1>6 DEF View, HasNumber
  <2>2. Sides(c)'
    BY <1>0, <1>4, <1>6, <1>m DEF View, Sides, Lasting
  <2>3. Routed(c)'
    BY <1>0, <1>4, <1>6, <1>m DEF View, Routed, IsRouted, HasNumber, Lasting
  <2>4. Stored(c)'
    BY <1>0, <1>4, <1>6, <1>m DEF View, Stored, Lasting
  <2> QED BY <2>1, <2>2, <2>3, <2>4 DEF Tracked
<1>8. \A d \in AllClients : Tracked(d)'
  BY <1>1, <1>5, <1>7, <1>k, OthersTracked DEF InstanceInv
<1>9. Channel'
  <2>1. ASSUME NEW k \in DOMAIN outbound' PROVE k + 1 \in DOMAIN outbound
               /\ outbound'[k] = outbound[k + 1] /\ k + 1 # 1
    BY <1>1, <2>1
  <2>2. ASSUME NEW k \in DOMAIN outbound' PROVE \E g \in Frame : g = outbound'[k] /\ Truthful(g)'
    <3>1. outbound[k + 1] \in Frame /\ Truthful(outbound[k + 1]) /\ Once(f, outbound[k + 1])
      BY <1>2, <2>1, <2>2, InChannel DEF InstanceInv, Channel
    <3> PICK g \in Frame : g = outbound[k + 1] /\ Truthful(g) /\ Once(f, g)
      BY <3>1
    <3>2. CASE g.client # c
      BY <1>1, <1>5, <1>k, <2>1, <3>2, OthersTruthful
    <3>3. CASE g.client = c
      <4>1. f.kind \in {"Create", "Respond", "Failed"} => g.kind \in {"Cancel", "Destroy"}
        BY <3>3 DEF Once, Answers, Frame
      <4>2. Truthful(g)'
        BY <1>0, <1>4, <1>6, <1>m, <3>3, <4>1 DEF Truthful, Answers, Frame, Lasting
      <4> QED BY <2>1, <4>2
    <3> QED BY <3>2, <3>3
  <2>3. \A j, k \in DOMAIN outbound' : j # k => Once(outbound'[j], outbound'[k])
    <3> SUFFICES ASSUME NEW j \in DOMAIN outbound', NEW k \in DOMAIN outbound', j # k
                 PROVE  Once(outbound'[j], outbound'[k])
      OBVIOUS
    <3>1. j + 1 # k + 1
      BY <1>1
    <3> QED BY <2>1, <3>1 DEF InstanceInv, Channel
  <2> QED BY <2>2, <2>3 DEF Channel, Truthful, Once
<1>10. OnlyDroppedReleased'
  <2>1. \A d \in AllClients : client[d] = "gone" => client'[d] = "gone"
    BY <1>5, <1>6 DEF OnlyTouches
  <2> QED BY <1>4, <1>6, <1>m, <2>1 DEF InstanceInv, OnlyDroppedReleased, AllClients, Lasting
<1>11. Counted' /\ Distinct'
  BY <1>0, <1>4, NumbersStay DEF View
<1> QED BY <1>8, <1>9, <1>10, <1>11 DEF InstanceInv

LEMMA NextInstanceInv ==
  ASSUME InstanceInv, [Next]_vars
  PROVE  InstanceInv'
<1>1. TypeOK'
  BY NextTypeOK
<1>2. CASE UNCHANGED vars
  <2>1. /\ UNCHANGED <<client, plugin, instance_id, found, host, instances, next_instance>>
        /\ UNCHANGED <<tripped, routing, outbound, released>>
    BY <1>2 DEF vars, hostVars
  <2>2. Counted' /\ Distinct'
    BY <2>1, NumbersStay DEF InstanceInv
  <2>m. \A c \in AllClients : /\ Mistaken(c)' = Mistaken(c) /\ Overridden(c)' = Overridden(c)
                              /\ Taken(c)' = Taken(c)
    BY <2>1 DEF Mistaken, Overridden, Taken, Namesakes
  <2>3. Channel'
    <3>1. \A k \in DOMAIN outbound : outbound[k].client \in AllClients
      BY InChannel DEF Frame
    <3> QED BY <2>1, <2>m, <3>1 DEF InstanceInv, Channel, Truthful, Once, IsRouted
  <2>4. OnlyDroppedReleased'
    BY <2>1, <2>m DEF InstanceInv, OnlyDroppedReleased, AllClients
  <2>5. \A c \in AllClients : Tracked(c)'
    BY <2>1, <2>m DEF InstanceInv, Tracked, HasNumber, Sides, Routed, IsRouted, Stored
  <2> QED BY <1>1, <2>2, <2>3, <2>4, <2>5 DEF InstanceInv
<1> QED
  BY <1>1, <1>2, NextCreate, NextAcquire, NextAbandon, NextDrop, NextPeerCreate, NextPeerDestroy,
     NextHostCreates, NextFinish, NextRegister, NextRespond, NextPeerResponds,
     NextForget, NextSendDestroy, NextLookUp, NextRemove, NextReap, NextPump
  DEF Next, HostStep, DestroyStep

LEMMA InitInstanceInv == Init => InstanceInv
<1> SUFFICES ASSUME Init PROVE InstanceInv
  OBVIOUS
<1>1. TypeOK
  <2>1. 1 \in InstanceIds
    BY Sizes
  <2>2. <<>> \in Seq(Frame) /\ Len(<<>>) <= OutboundCap
    BY InstanceRoutingAssumption
  <2> QED BY <2>1, <2>2 DEF Init, TypeOK, ClientPhase, HostPhase
<1>2. Counted
  <2> SUFFICES ASSUME NEW p \in Plugins
               PROVE  next_instance[p] = 1 + Cardinality(Created(p))
    BY DEF Counted
  <2>1. Created(p) = {}
    BY DEF Init, Created
  <2>2. Cardinality(Created(p)) = 0
    BY <2>1, FS_EmptySet
  <2> QED BY <2>2, Sizes DEF Init
<1>3. \A c \in AllClients : Tracked(c)
  <2>1. \A c \in AllClients : plugin[c] \in Plugins /\ (c \in PeerClients => plugin[c] \in Hosted)
    BY DEF Init
  <2> QED BY <2>1 DEF Init, Tracked, HasNumber, Sides, Routed, Stored
<1> QED BY <1>1, <1>2, <1>3 DEF Init, InstanceInv, Distinct, Channel, OnlyDroppedReleased

-----------------------------------------------------------------------------
\* Every number a caller can know is routed to its plugin, a client that lives
\* has its instance in its host's map, one that is gone has left neither, and the
\* peer was told to destroy no instance but those dropped here: each unless a
\* client of another plugin with the same number came in between.
THEOREM InstancesStayExact == Spec => []InstancesAreExact
<1>1. InstanceInv => InstancesAreExact
  <2> SUFFICES ASSUME InstanceInv PROVE InstancesAreExact
    OBVIOUS
  <2>1. KnownIsRouted
    BY DEF InstanceInv, Tracked, Routed, IsRouted, KnownIsRouted
  <2>2. InstancesIndependent
    BY DEF InstanceInv, Tracked, HasNumber, Stored, Taken, InstancesIndependent
  <2>3. GoneLeavesNothing
    BY DEF InstanceInv, Tracked, HasNumber, Routed, IsRouted, Stored, GoneLeavesNothing
  <2> QED BY <2>1, <2>2, <2>3 DEF InstanceInv, InstancesAreExact, Consistent, DropsAreExact
<1>2. InstanceInv /\ [Next]_vars => InstanceInv'
  BY NextInstanceInv
<1> QED BY InitInstanceInv, <1>1, <1>2, PTL DEF Spec
=============================================================================
