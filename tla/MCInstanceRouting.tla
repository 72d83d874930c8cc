-------------------------- MODULE MCInstanceRouting --------------------------
\* Instances of stateful plugins in the registry and at their hosts; and the
\* generated clients and hosts by themselves: part says which.
EXTENDS InstanceRouting

CONSTANTS k1, k2

VARIABLES part, trait, stage, users, table, next_number, call
-----------------------------------------------------------------------------
(* Declarations.                                                           *)

T(head) == [head |-> head, args |-> <<>>]
G(head, args) == [head |-> head, args |-> args]
A(ty) == [ty |-> ty, plain |-> TRUE]
Fails(ty) == G("Result", <<ty, T("Fault")>>)

ArgLists ==
  {<<>>, <<A(T("Item"))>>, <<A(T("CancelToken"))>>, <<A(T("CancelToken")), A(T("Item"))>>,
   <<A(T("Item")), A(T("CancelToken")), A(T("Note"))>>, <<A(T("File")), A(T("Item"))>>,
   <<[ty |-> T("Item"), plain |-> FALSE]>>}

Outputs ==
  {T("()"), T("Item"), T("File"), T("Photo"), T("Pair"), T("Result"),
   G("tuple", <<T("Item"), T("Note")>>), G("Option", <<T("Photo")>>),
   G("Vec", <<T("Photo")>>), G("Vec", <<G("Vec", <<T("Note")>>)>>),
   Fails(T("Item")), Fails(T("Photo")), Fails(T("File")), Fails(G("Vec", <<T("Photo")>>)),
   G("Result", <<T("Item")>>), G("Result", <<T("Item"), T("Item")>>),
   G("Result", <<T("Item"), T("()")>>)}

Method(args, output, stream, owned, async) ==
  [args |-> args, output |-> output, stream |-> stream, owned |-> owned, async |-> async]
Trait(kind, methods, init) ==
  [kind |-> kind, generic |-> FALSE, supertrait |-> FALSE, init |-> init, methods |-> methods,
   keys |-> {"name"} \cup (IF init = None THEN {} ELSE {"init"})]

Shapes ==
  {Method(args, Fails(T("Item")), stream, FALSE, TRUE) : args \in ArgLists, stream \in BOOLEAN}
  \cup {Method(<<A(T("Item"))>>, output, stream, owned, TRUE) :
          output \in Outputs, stream \in BOOLEAN, owned \in BOOLEAN}
  \cup {Method(<<A(T("Note"))>>, T("Item"), stream, FALSE, FALSE) : stream \in BOOLEAN}

Worker(output) == Trait("worker", [run |-> Method(<<A(T("Context"))>>, output, FALSE, FALSE, TRUE)], None)

\* Two clients with two instances and two methods.
BusyTrait ==
  Trait("plugin", [one |-> Method(<<A(T("CancelToken")), A(T("Note"))>>, Fails(T("Item")), FALSE, FALSE, TRUE),
                   two |-> Method(<<>>, T("Note"), FALSE, FALSE, TRUE)], T("Item"))

TraitsMC ==
  {Trait("plugin", [one |-> m], None) : m \in Shapes}
  \cup {Trait("plugin", [one |-> Method(args, T("Photo"), stream, ~stream, TRUE)], T("File")) :
          args \in ArgLists, stream \in BOOLEAN}
  \cup {Worker(output) : output \in {T("Item"), Fails(T("Item")), G("Result", <<T("Item")>>)}}
  \cup {BusyTrait, [BusyTrait EXCEPT !.generic = TRUE], [BusyTrait EXCEPT !.supertrait = TRUE],
        [BusyTrait EXCEPT !.kind = "worker", !.keys = {"name"}], [BusyTrait EXCEPT !.keys = {"init"}],
        [BusyTrait EXCEPT !.keys = {"id", "name"}]}

P == INSTANCE PluginMacro WITH
       client <- users, instances <- table, next_instance <- next_number,
       Traits <- TraitsMC, Busy <- {BusyTrait}, Calls <- {k1, k2}, MaxItems <- 2

macroVars == <<trait, stage, users, table, next_number, call>>
bothVars == <<part, vars, macroVars>>

BothInit ==
  /\ part \in {"instances", "generated"}
  /\ Init /\ P!Init
  /\ part = "instances" => trait = BusyTrait
  /\ part = "generated" => plugin = CHOOSE f \in [AllClients -> Hosted] : TRUE

BothNext ==
  \/ part = "instances" /\ Next /\ UNCHANGED <<part, macroVars>>
  \/ part = "generated" /\ P!Next /\ UNCHANGED <<part, vars>>

\* The calls of the generated code are not asked to end here.
BothSpec == BothInit /\ [][BothNext]_bothVars /\ Fairness
-----------------------------------------------------------------------------
\* The generated client and the generated host mean the same by a declaration.
GeneratedEndsAgree == part = "generated" => P!EndsAgree
=============================================================================
