------------------------------ MODULE PluginMacro ------------------------------
(***************************************************************************)
(* The code that #[istmo::plugin], #[istmo::worker] and #[istmo::message]  *)
(* generate: which declarations are refused, and for one that is taken the *)
(* client and the host, which are expanded separately from the same trait  *)
(* and meet only in bytes.  A call goes from the client's method (or from  *)
(* the platform, which writes its own bytes) to the arm of the host, to    *)
(* the implementation, and back through the codec.                         *)
(*                                                                         *)
(* A type is what the macro sees, a name with its arguments.  A value has  *)
(* what its encoding begins with, `own`, and the values inside it.         *)
(***************************************************************************)
EXTENDS Integers, Sequences, FiniteSets, SequencesExt

CONSTANTS
  Traits,    \* declarations to expand
  Busy,      \* those of them that all clients use at once, with all calls
  Clients,
  Calls,
  MaxItems,  \* items an implementation sends on a stream, at most
  None

VARIABLES
  trait,       \* the declaration
  stage,       \* "source", "refused", "built"
  client,      \* client -> its state, instance and configuration
  instances,   \* the stateful host's map: instance -> configuration
  next_instance,
  call         \* call -> its progress

vars == <<trait, stage, client, instances, next_instance, call>>
-----------------------------------------------------------------------------
(* Types and values.                                                       *)

Ty(head) == [head |-> head, args |-> <<>>]
TyOf(head, args) == [head |-> head, args |-> args]
Unit == Ty("()")

\* A value that bincode refuses to write: a path that is not UTF-8.
Unwritable == -1

Leaves ==
  [Item |-> {0, 1}, Note |-> {3}, Handle |-> {7, 8}, File |-> {2, Unwritable},
   Fault |-> {1}, Text |-> {4, 5}]

\* The #[message] structs: fields in order, and those marked #[handle].  The
\* second is a tuple struct.
Messages ==
  [Photo |-> [fields |-> <<Ty("Note"), Ty("Handle")>>, marked |-> {2}, named |-> TRUE],
   Pair |-> [fields |-> <<Ty("Item"), Ty("Item")>>, marked |-> {}, named |-> FALSE]]

\* Errors that implement std::error::Error.
ErrorTypes == {Ty("Fault")}

\* A type alias `Result<T>` or `Result` of the crate, as rustc resolves it.
Meaning(ty) ==
  IF ty.head # "Result" \/ Len(ty.args) = 2 THEN ty
  ELSE TyOf("Result", <<IF ty.args = <<>> THEN Ty("Item") ELSE ty.args[1], Ty("Fault")>>)

Val(own, parts) == [own |-> own, parts |-> parts]

\* What an implementation gets as its CancelToken.
Token == Val(<<-2>>, <<>>)

RECURSIVE encode(_)
encode(v) == v.own \o FlattenSeq([i \in DOMAIN v.parts |-> encode(v.parts[i])])

Writable(v) == ~Contains(encode(v), Unwritable)

NotRead == [ok |-> FALSE, value |-> Val(<<>>, <<>>), rest |-> <<>>]
Read(v, rest) == [ok |-> TRUE, value |-> v, rest |-> rest]

\* bincode reads a type off the front; codec::decode's callers ignore the rest.
RECURSIVE decode(_, _), DecodeAll(_, _)
DecodeAll(types, bytes) ==
  IF types = <<>> THEN Read(Val(<<>>, <<>>), bytes)
  ELSE LET first == decode(Head(types), bytes)
           others == DecodeAll(Tail(types), first.rest)
       IN IF first.ok /\ others.ok
          THEN Read(Val(<<>>, <<first.value>> \o others.value.parts), others.rest)
          ELSE NotRead

decode(written, bytes) ==
  LET ty == Meaning(written)
      Under(n, types) ==
        LET inner == DecodeAll(types, Tail(bytes)) IN
        IF inner.ok THEN Read(Val(<<n>>, inner.value.parts), inner.rest) ELSE NotRead
  IN CASE ty.head = "()" -> Read(Val(<<>>, <<>>), bytes)
       [] ty.head = "tuple" -> DecodeAll(ty.args, bytes)
       [] ty.head \in DOMAIN Messages -> DecodeAll(Messages[ty.head].fields, bytes)
       [] ty.head \in DOMAIN Leaves /\ bytes # <<>> ->
            IF bytes[1] \in Leaves[ty.head] THEN Read(Val(<<bytes[1]>>, <<>>), Tail(bytes))
            ELSE NotRead
       [] ty.head = "Vec" /\ bytes # <<>> -> Under(bytes[1], [i \in 1..bytes[1] |-> ty.args[1]])
       [] ty.head = "Option" /\ bytes # <<>> /\ bytes[1] \in {0, 1} ->
            Under(bytes[1], SubSeq(ty.args, 1, bytes[1]))
       [] ty.head = "Result" /\ bytes # <<>> /\ bytes[1] \in {0, 1} ->
            Under(bytes[1], <<ty.args[bytes[1] + 1]>>)
       [] OTHER -> NotRead

\* The values of a type, lists of two at most.
RECURSIVE ValuesOf(_), ValuesOfAll(_)
ValuesOfAll(types) ==
  IF types = <<>> THEN {<<>>}
  ELSE {<<v>> \o vs : v \in ValuesOf(Head(types)), vs \in ValuesOfAll(Tail(types))}

ValuesOf(written) ==
  LET ty == Meaning(written)
      Under(n, types) == {Val(<<n>>, vs) : vs \in ValuesOfAll(types)}
  IN CASE ty.head \in DOMAIN Leaves -> {Val(<<n>>, <<>>) : n \in Leaves[ty.head]}
       [] ty.head \in DOMAIN Messages ->
            {Val(<<>>, vs) : vs \in ValuesOfAll(Messages[ty.head].fields)}
       [] ty.head = "Vec" -> UNION {Under(n, [i \in 1..n |-> ty.args[1]]) : n \in 0..2}
       [] ty.head = "Option" -> Under(0, <<>>) \cup Under(1, ty.args)
       [] ty.head = "Result" -> Under(0, <<ty.args[1]>>) \cup Under(1, <<ty.args[2]>>)
       [] OTHER -> {Val(<<>>, vs) : vs \in ValuesOfAll(ty.args)}
-----------------------------------------------------------------------------
(* Expansion.                                                              *)

\* Type::Path, whose last segment is compared by name.
IsPath(ty) == ty.head \notin {"()", "tuple"}
is_cancel_token(ty) == IsPath(ty) /\ ty.head = "CancelToken"

\* The types inside `Result<..>`, as far as they are written.
extract_result(ty) == IF IsPath(ty) /\ ty.head = "Result" THEN ty.args ELSE <<>>
ok_ty(ty) == IF extract_result(ty) = <<>> THEN ty ELSE extract_result(ty)[1]
err_ty(ty) == IF Len(extract_result(ty)) < 2 THEN Unit ELSE extract_result(ty)[2]

\* Both expansions leave out the token and keep the rest in order.
wire_args(m) == SelectSeq(m.args, LAMBDA a : ~is_cancel_token(a.ty))
wire_arg_tuple_type(m) ==
  IF wire_args(m) = <<>> THEN Unit
  ELSE TyOf("tuple", [i \in DOMAIN wire_args(m) |-> wire_args(m)[i].ty])

as_bare_ident(ty) == IsPath(ty) /\ ty.args = <<>>
OwnedInner(ty) == IF ty.head \in {"Option", "Vec"} /\ ty.args # <<>> THEN ty.args[1] ELSE ty

\* build_owned_return knows `T`, `Option<T>` and `Vec<T>`.
OwnedShape(ty) == as_bare_ident(ty) \/ (IsPath(ty) /\ as_bare_ident(OwnedInner(ty)) /\ ty # OwnedInner(ty))

MethodRefused(m) ==
  \/ \E i \in DOMAIN m.args : ~m.args[i].plain
  \/ m.stream /\ m.owned
  \/ ~m.stream /\ ~m.async
  \/ ~m.stream /\ m.owned /\ ~OwnedShape(ok_ty(m.output))

\* The arguments of the attribute: a name, and no key it does not know.
Keys(t) ==
  {"name", "crate"} \cup (IF t.kind = "worker" THEN {"plugins"} ELSE {"init"})
ArgsRefused(t) == ~(t.keys \subseteq Keys(t)) \/ "name" \notin t.keys

\* classify_run_method: one method, `run`, async, with one argument.
WorkerRefused(t) ==
  \/ DOMAIN t.methods # {"run"}
  \/ ~t.methods["run"].async
  \/ Len(t.methods["run"].args) # 1

\* What the macro refuses with an error of its own.
Refused(t) ==
  \/ ArgsRefused(t) \/ t.generic \/ t.supertrait
  \/ t.kind = "plugin" /\ \E n \in DOMAIN t.methods : MethodRefused(t.methods[n])
  \/ t.kind = "worker" /\ WorkerRefused(t)

\* The error types that expand_error_bounds makes rustc check.
ErrorBounds(t) ==
  {err_ty(t.methods[n].output) : n \in DOMAIN t.methods} \ {Unit}

\* A message has an `Owned` twin when it has named fields with a handle.
HasOwned(ty) ==
  ty.head \in DOMAIN Messages /\ Messages[ty.head].named /\ Messages[ty.head].marked # {}

\* What rustc refuses in the code that was generated.
Compiles(t) ==
  \/ t.kind = "worker"
  \/ /\ ErrorBounds(t) \subseteq ErrorTypes
     /\ \A n \in DOMAIN t.methods :
          t.methods[n].owned => HasOwned(OwnedInner(ok_ty(t.methods[n].output)))

\* The worker's arm reads a triple: task, unique name, input.
RunArgs == TyOf("tuple", <<Ty("Text"), Ty("Note"), Ty("Item")>>)
ArgTypes(t, m) == IF t.kind = "worker" THEN RunArgs ELSE wire_arg_tuple_type(m)

\* The worker's arm goes by the name alone, the plugin's by the two types.
is_result_type(ty) == IsPath(ty) /\ ty.head = "Result"
TakesApart(t, m) ==
  IF t.kind = "worker" THEN is_result_type(m.output) ELSE Len(extract_result(m.output)) = 2

\* The handles of a message that into_owned adopts, in the order of the fields.
HandlesOf(ty, v) ==
  [i \in 1..Cardinality(Messages[ty.head].marked) |->
     v.parts[SetToSortSeq(Messages[ty.head].marked, <)[i]].own[1]]
Adopted(ty, v) ==
  IF as_bare_ident(ty) THEN HandlesOf(ty, v)
  ELSE FlattenSeq([i \in DOMAIN v.parts |-> HandlesOf(OwnedInner(ty), v.parts[i])])
-----------------------------------------------------------------------------
(* The program.                                                            *)

Stateful == trait.init # None
Method(k) == trait.methods[call[k].method]
Of(all) == IF trait \in Busy THEN all ELSE {CHOOSE x \in all : TRUE}

NoClient == [state |-> "none", instance |-> 0, config |-> Val(<<>>, <<>>), bytes |-> <<>>]
Nothing == [kind |-> "none", value |-> Val(<<>>, <<>>), bytes |-> <<>>]
NoCall ==
  [state |-> "idle", client |-> None, method |-> None, owned |-> FALSE, args |-> <<>>,
   instance |-> 0, bytes |-> <<>>, seen |-> <<>>, config |-> Val(<<>>, <<>>),
   returned |-> Nothing, answer |-> Nothing, result |-> Nothing, adopted |-> <<>>,
   sent |-> <<>>, source |-> <<>>, open |-> FALSE, wire |-> <<>>, got |-> <<>>]

Init ==
  /\ trait \in Traits
  /\ stage = "source"
  /\ client = [c \in Clients |-> NoClient]
  /\ instances = <<>>
  /\ next_instance = 1
  /\ call = [k \in Calls |-> NoCall]

\* plugin::expand, worker::expand, and the compiler after them.
expand ==
  /\ stage = "source"
  /\ stage' = IF ~Refused(trait) /\ Compiles(trait) THEN "built" ELSE "refused"
  /\ UNCHANGED <<trait, client, instances, next_instance, call>>

\* A stateless client is its runtime alone.
from_runtime(c) ==
  /\ stage = "built" /\ trait.kind = "plugin" /\ ~Stateful
  /\ client[c].state = "none"
  /\ client' = [client EXCEPT ![c].state = "ready"]
  /\ UNCHANGED <<trait, stage, instances, next_instance, call>>

\* A stateful one sends its configuration ...
from_runtime_with(c, config) ==
  /\ stage = "built" /\ trait.kind = "plugin" /\ Stateful
  /\ client[c].state = "none"
  /\ client' = [client EXCEPT ![c].config = config, ![c].bytes = encode(config),
                              ![c].state = IF Writable(config) THEN "creating" ELSE "failed"]
  /\ UNCHANGED <<trait, stage, instances, next_instance, call>>

\* ... from which the host's factory builds an instance ...
create_instance(c) ==
  /\ client[c].state = "creating"
  /\ instances' = [n \in DOMAIN instances \cup {next_instance} |->
                     IF n = next_instance THEN decode(trait.init, client[c].bytes).value
                     ELSE instances[n]]
  /\ next_instance' = next_instance + 1
  /\ client' = [client EXCEPT ![c].state = "created", ![c].bytes = <<next_instance>>]
  /\ UNCHANGED <<trait, stage, call>>

\* ... whose number is the client's.
Acquired(c) ==
  /\ client[c].state = "created"
  /\ client' = [client EXCEPT ![c].state = "ready", ![c].instance = client[c].bytes[1],
                              ![c].bytes = <<>>]
  /\ UNCHANGED <<trait, stage, instances, next_instance, call>>

\* The future of a unary method borrows the client, a stream does not.
Borrowed(c) ==
  \E k \in Calls :
    /\ call[k].client = c /\ call[k].state \in {"sent", "running", "answered"}
    /\ ~Method(k).stream

DropClient(c) ==
  /\ client[c].state = "ready" /\ ~Borrowed(c)
  /\ client' = [client EXCEPT ![c].state = IF Stateful THEN "dropped" ELSE "gone"]
  /\ UNCHANGED <<trait, stage, instances, next_instance, call>>

\* The destruction reaches the host, on its own way.
destroy_instance(c) ==
  /\ client[c].state = "dropped"
  /\ client' = [client EXCEPT ![c].state = "gone"]
  /\ instances' = [n \in DOMAIN instances \ {client[c].instance} |-> instances[n]]
  /\ UNCHANGED <<trait, stage, next_instance, call>>
-----------------------------------------------------------------------------
(* Calls.                                                                  *)

\* build_payload_expr: a tuple of the arguments, or a unit for none.
Payload(args) == encode(Val(<<>>, args))

\* A call goes out under the method's name, with the client's instance; what
\* cannot be encoded is not sent.
Submit(k, c, n, owned, args) ==
  LET fits == Writable(Val(<<>>, args)) IN
  /\ client[c].state = "ready"
  /\ call[k].state = "idle"
  /\ call' = [call EXCEPT ![k] =
       [NoCall EXCEPT !.client = c, !.method = n, !.owned = owned, !.args = args,
                      !.instance = client[c].instance, !.bytes = Payload(args),
                      !.state = IF fits THEN "sent" ELSE "done",
                      !.result.kind = IF fits THEN "none" ELSE "Codec"]]
  /\ UNCHANGED <<trait, stage, client, instances, next_instance>>

\* The client's unary method, and the one beside it that owns the handles.
CallMethod(k, c, n, args) == ~trait.methods[n].stream /\ Submit(k, c, n, FALSE, args)
CallOwned(k, c, n, args) == trait.methods[n].owned /\ Submit(k, c, n, TRUE, args)

\* The client's stream method.
StreamMethod(k, c, n, args) == trait.methods[n].stream /\ Submit(k, c, n, FALSE, args)

\* A call the platform makes: its own name for the method, its own bytes.
PlatformCall(k, name, instance, args, bytes) ==
  /\ stage = "built"
  /\ call[k].state = "idle"
  /\ call' = [call EXCEPT ![k] =
       [NoCall EXCEPT !.method = name, !.instance = instance, !.args = args, !.bytes = bytes,
                      !.state = "sent"]]
  /\ UNCHANGED <<trait, stage, client, instances, next_instance>>

\* A host that fails answers with the text of its error.
DispatchError(k) ==
  call' = [call EXCEPT ![k].state = "answered", ![k].answer.kind = "DispatchError"]

\* The arguments of the implementation, in the order of the declaration.
CallArgs(m, values) ==
  IF trait.kind = "worker" THEN values
  ELSE LET Before(i) == Len(SelectSeq(SubSeq(m.args, 1, i), LAMBDA a : ~is_cancel_token(a.ty)))
       IN [i \in DOMAIN m.args |->
             IF is_cancel_token(m.args[i].ty) THEN Token ELSE values[Before(i)]]

\* The arm of the method decodes the arguments and calls the implementation.
Arm(k) ==
  LET args == decode(ArgTypes(trait, Method(k)), call[k].bytes) IN
  \/ ~args.ok /\ DispatchError(k)
  \/ /\ args.ok
     /\ call' = [call EXCEPT
          ![k].state = IF Method(k).stream THEN "streaming" ELSE "running",
          ![k].open = Method(k).stream,
          ![k].seen = CallArgs(Method(k), args.value.parts),
          ![k].config = IF Stateful THEN instances[call[k].instance] ELSE @]

\* A stateful host looks the instance up before anything else.
Known(k) == Stateful => call[k].instance \in DOMAIN instances

dispatch(k) ==
  /\ call[k].state = "sent"
  /\ \/ Known(k) /\ call[k].method \in DOMAIN trait.methods /\ Arm(k)
     \/ Known(k) /\ call[k].method \notin DOMAIN trait.methods /\ DispatchError(k)
     \/ ~Known(k) /\ DispatchError(k)
  /\ UNCHANGED <<trait, stage, client, instances, next_instance>>

\* Variant: what is inside the Result goes out, its error as well, as a value.
OutcomeOfValue(m, v) ==
  LET out == IF extract_result(m.output) # <<>> THEN v.parts[1] ELSE v IN
  IF ~Writable(out) THEN [Nothing EXCEPT !.kind = "DispatchError"]
  ELSE [Nothing EXCEPT !.kind = "Ok", !.bytes = encode(out)]

\* The arm takes a Result apart when it has seen both of its types (a worker's
\* arm, whenever it is a Result); anything else goes out whole.
OutcomeOf(m, v) ==
  LET apart == TakesApart(trait, m)
      out == IF apart THEN v.parts[1] ELSE v
  IN CASE ~Writable(out) -> [Nothing EXCEPT !.kind = "DispatchError"]
       [] Writable(out) /\ apart /\ v.own = <<1>> ->
            [Nothing EXCEPT !.kind = "DomainError", !.bytes = encode(out)]
       [] OTHER -> [Nothing EXCEPT !.kind = "Ok", !.bytes = encode(out)]

\* The implementation returns a value of the declared type.
Returns(k, v) ==
  /\ call[k].state = "running"
  /\ call' = [call EXCEPT ![k].state = "answered",
                          ![k].returned = [Nothing EXCEPT !.kind = "value", !.value = v],
                          ![k].answer = OutcomeOf(Method(k), v)]
  /\ UNCHANGED <<trait, stage, client, instances, next_instance>>

\* The client's method, after its await.  An error's bytes are the caller's
\* to decode; an _owned method adopts the handles of what it got.  Refused, a
\* stream finds its channel closed.
Receive(k) ==
  LET m == Method(k)
      value == decode(ok_ty(m.output), call[k].answer.bytes)
      c == call[k]
  IN /\ c.state = "answered" /\ c.client # None
     /\ call' = [call EXCEPT
          ![k].state = "done",
          ![k].result =
             CASE m.stream -> [Nothing EXCEPT !.kind = "ChannelClosed"]
               [] ~m.stream /\ c.answer.kind # "Ok" ->
                    [Nothing EXCEPT !.kind = "PluginError", !.bytes = c.answer.bytes]
               [] OTHER ->
                    IF value.ok THEN [Nothing EXCEPT !.kind = "value", !.value = value.value]
                    ELSE [Nothing EXCEPT !.kind = "Codec"],
          ![k].adopted =
             IF c.owned /\ c.answer.kind = "Ok" /\ value.ok
             THEN Adopted(ok_ty(m.output), value.value) ELSE @]
     /\ UNCHANGED <<trait, stage, client, instances, next_instance>>
-----------------------------------------------------------------------------
(* Streams: the implementation has the sending end of a channel, a thread  *)
(* of the arm encodes what comes, and TypedStream decodes it.              *)

Send(k, v) ==
  /\ call[k].state = "streaming" /\ call[k].open
  /\ Len(call[k].sent) < MaxItems
  /\ call' = [call EXCEPT ![k].sent = Append(@, v), ![k].source = Append(@, v)]
  /\ UNCHANGED <<trait, stage, client, instances, next_instance>>

CloseSource(k) ==
  /\ call[k].state = "streaming" /\ call[k].open
  /\ call' = [call EXCEPT ![k].open = FALSE]
  /\ UNCHANGED <<trait, stage, client, instances, next_instance>>

\* The thread ends with its source, and at the first item it cannot write.
EncodeItem(k) ==
  LET c == call[k]
      fits == c.source # <<>> /\ Writable(Head(c.source))
  IN /\ c.state = "streaming"
     /\ c.source # <<>> \/ ~c.open
     /\ call' = [call EXCEPT
          ![k].source = IF fits THEN Tail(@) ELSE <<>>,
          ![k].wire = IF fits THEN Append(@, encode(Head(c.source))) ELSE @,
          ![k].open = @ /\ fits,
          ![k].state = IF fits THEN @ ELSE "ended"]
     /\ UNCHANGED <<trait, stage, client, instances, next_instance>>

\* TypedStream::recv: an event is decoded as the item's type; with the events
\* gone and the thread ended, the stream has completed.
recv(k) ==
  LET c == call[k]
      item == decode(ok_ty(Method(k).output), Head(c.wire))
  IN /\ c.state \in {"streaming", "ended"} /\ c.client # None
     /\ \/ /\ c.wire # <<>>
           /\ call' = [call EXCEPT
                ![k].wire = Tail(@),
                ![k].got = Append(@, IF item.ok THEN [Nothing EXCEPT !.kind = "Event", !.value = item.value]
                                     ELSE [Nothing EXCEPT !.kind = "Codec"])]
        \/ /\ c.wire = <<>> /\ c.state = "ended"
           /\ call' = [call EXCEPT ![k].state = "done", ![k].result.kind = "Completed"]
     /\ UNCHANGED <<trait, stage, client, instances, next_instance>>
-----------------------------------------------------------------------------
ArgsOf(n) == ValuesOfAll(ArgTypes(trait, trait.methods[n]).args)

\* The platform writes what the declaration of a worker says, nothing at all,
\* or a method that is not there.
PlatformStep(k) ==
  \/ \E n \in DOMAIN trait.methods : trait.kind = "worker" /\ \E args \in ArgsOf(n) :
       PlatformCall(k, n, next_instance - 1, args, Payload(args))
  \/ \E n \in DOMAIN trait.methods \cup {"missing"} : PlatformCall(k, n, 0, <<>>, <<>>)

UserStep(c) ==
  \/ from_runtime(c) \/ create_instance(c) \/ Acquired(c) \/ DropClient(c)
  \/ destroy_instance(c)
  \/ Stateful /\ \E config \in ValuesOf(trait.init) : from_runtime_with(c, config)
  \/ \E k \in Of(Calls) : \E n \in DOMAIN trait.methods : \E args \in ArgsOf(n) :
       CallMethod(k, c, n, args) \/ CallOwned(k, c, n, args) \/ StreamMethod(k, c, n, args)

CallStep(k) ==
  \/ dispatch(k) \/ Receive(k) \/ CloseSource(k) \/ EncodeItem(k) \/ recv(k)
  \/ call[k].state = "running" /\ \E v \in ValuesOf(Method(k).output) : Returns(k, v)
  \/ call[k].state = "streaming" /\ \E v \in ValuesOf(Method(k).output) : Send(k, v)

Next ==
  \/ expand
  \/ \E c \in Of(Clients) : UserStep(c)
  \/ \E k \in Of(Calls) : CallStep(k) \/ PlatformStep(k)

Spec == Init /\ [][Next]_vars
-----------------------------------------------------------------------------
(* Properties.                                                             *)

\* The two shapes whose client and host disagree: a unary method that returns
\* an alias `Result<T>`, and a stream whose items are a Result.
Disagrees(m) ==
  IF m.stream THEN extract_result(m.output) # <<>> ELSE Len(extract_result(m.output)) = 1

\* The implementation that runs is the one the client was built with, and gets
\* what the caller passed, with the token where it is declared.
ArgumentsArrive ==
  \A k \in Calls :
    LET c == call[k] IN
    c.state \in {"running", "streaming"} =>
      /\ SelectSeq(c.seen, LAMBDA v : v # Token) = c.args
      /\ trait.kind = "plugin" => \A i \in DOMAIN Method(k).args :
           c.seen[i] = Token <=> is_cancel_token(Method(k).args[i].ty)
      /\ Stateful /\ c.client # None => c.config = client[c.client].config

\* What a result of a call must be, given what the implementation returned.
Faithful(m, returned, result) ==
  \/ result.kind = "value" /\ extract_result(m.output) = <<>> /\ returned = result.value
  \/ /\ result.kind = "value" /\ extract_result(m.output) # <<>>
     /\ returned = Val(<<0>>, <<result.value>>)
  \/ /\ result.kind = "PluginError" /\ extract_result(m.output) # <<>> /\ returned.own = <<1>>
     /\ result.bytes = encode(returned.parts[1])
  \/ result.kind = "PluginError" /\ ~Writable(returned)

\* The caller gets the value or the error that the implementation returned,
\* and owns exactly the handles in it that it asked to own.
ResultsReturn ==
  \A k \in Calls :
    LET c == call[k] IN
    c.client # None /\ c.state = "done" /\ ~Method(k).stream /\ ~Disagrees(Method(k)) =>
      /\ \/ c.result.kind = "Codec" /\ ~Writable(Val(<<>>, c.args))
         \/ c.returned.kind = "value" /\ Faithful(Method(k), c.returned.value, c.result)
      /\ c.adopted =
           IF c.owned /\ c.result.kind = "value"
           THEN SelectSeq(encode(c.result.value), LAMBDA b : b \in Leaves.Handle) ELSE <<>>

\* A worker that fails is told to the platform as a failure, and only then.
WorkersAnswer ==
  \A k \in Calls :
    LET c == call[k] IN
    trait.kind = "worker" /\ c.returned.kind = "value" /\ Writable(c.returned.value) =>
      (c.answer.kind = "DomainError"
        <=> Meaning(Method(k).output).head = "Result" /\ c.returned.value.own = <<1>>)

\* A stream brings the items in order, and completes with all of them, or at
\* the first that could not be written.
ItemsFollow ==
  \A k \in Calls :
    LET c == call[k]
        good == SubSeq(c.sent, 1, Cardinality({i \in DOMAIN c.sent :
                                                 \A j \in 1..i : Writable(c.sent[j])}))
    IN c.client # None /\ c.method # None /\ Method(k).stream /\ ~Disagrees(Method(k)) =>
         /\ IsPrefix(c.got, [i \in DOMAIN good |->
                               [Nothing EXCEPT !.kind = "Event", !.value = good[i]]])
         /\ c.result.kind = "Completed" => Len(c.got) = Len(good)

\* The generated client and the generated host, and so the caller and the
\* implementation, understand the same by the same declaration.
EndsAgree == ArgumentsArrive /\ ResultsReturn /\ WorkersAnswer /\ ItemsFollow
=============================================================================
