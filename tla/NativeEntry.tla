----------------------------- MODULE NativeEntry -----------------------------
(***************************************************************************)
(* How a frame crosses between Rust and the platform: the arguments the    *)
(* pumps call the platform with (crates/android/src/pump.rs and            *)
(* crates/ios/src/pump.rs), and the frames the native functions make of    *)
(* the arguments the platform calls them with (jni_exports.rs and          *)
(* cdecl_exports.rs).                                                      *)
(*                                                                         *)
(* A number has Width bits: Kotlin's are signed, Swift's are not.  What a  *)
(* frame carries besides its numbers and tags is its body.                 *)
(***************************************************************************)
EXTENDS Integers

CONSTANTS
  Width,      \* bits of a number, 64 in the code
  Bodies,     \* plugin, method and payload of a frame
  Empty,      \* the body that is empty
  None

Words == 0..(2^Width - 1)

NativeEntryAssumption ==
  /\ Width \in Nat \ {0} /\ 2^Width \in Nat \ {0}
  /\ Empty \in Bodies /\ None \notin Words \cup Bodies

AsSigned(word) == IF word < 2^(Width - 1) THEN word ELSE word - 2^Width
AsUnsigned(long) == long % 2^Width

\* The numbers of instances start at one.
Instances == {None} \cup (Words \ {0})

Frames ==
  [kind : {"call"}, id : Words, instance : Instances, body : Bodies]
    \cup [kind : {"notify"}, instance : Instances, body : Bodies]
    \cup [kind : {"respond"}, id : Words, ok : BOOLEAN, body : Bodies]
    \cup [kind : {"event"}, id : Words, body : Bodies]
    \cup [kind : {"end"}, id : Words, reason : {"complete", "cancelled"}, body : {Empty}]
    \cup [kind : {"end"}, id : Words, reason : {"error"}, body : Bodies]

\* Frames Rust only sends, and the early event, which it only receives.
SentFrames ==
  [kind : {"cancel", "destroy", "release"}, id : Words]
    \cup [kind : {"create"}, id : Words, body : Bodies]
EarlyFrames ==
  [kind : {"early"}, keeps : {"latest"}, body : Bodies]
    \cup [kind : {"early"}, keeps : {"queue"}, capacity : Words, body : Bodies]
-----------------------------------------------------------------------------
ReasonTag(reason) == CASE reason = "complete" -> 0 [] reason = "cancelled" -> 1 [] OTHER -> 2

\* The arguments of the method of IstmoRuntime, or the callback of Swift, that a
\* frame goes to; number is how the platform writes one.
Deliver(frame, signed) ==
  LET number(word) == IF signed THEN AsSigned(word) ELSE word IN
  CASE frame.kind = "call" ->
         [to |-> "onCall", id |-> number(frame.id), body |-> frame.body,
          instance |-> IF frame.instance = None THEN 0 ELSE number(frame.instance)]
    [] frame.kind = "notify" ->
         [to |-> "onNotify", body |-> frame.body,
          instance |-> IF frame.instance = None THEN 0 ELSE number(frame.instance)]
    [] frame.kind = "respond" ->
         [to |-> "onRespond", id |-> number(frame.id), ok |-> frame.ok, body |-> frame.body]
    [] frame.kind = "event" ->
         [to |-> "onEvent", id |-> number(frame.id), body |-> frame.body]
    [] frame.kind = "end" ->
         [to |-> "onStreamEnd", id |-> number(frame.id), tag |-> ReasonTag(frame.reason),
          body |-> frame.body]
    [] frame.kind = "create" ->
         [to |-> "onCreateInstance", id |-> number(frame.id), body |-> frame.body]
    [] frame.kind \in {"cancel", "destroy", "release"} ->
         [to |-> frame.kind, id |-> number(frame.id)]
    [] OTHER -> None

AndroidDeliver(frame) == Deliver(frame, TRUE)
IosDeliver(frame) == Deliver(frame, FALSE)
-----------------------------------------------------------------------------
\* Kotlin's native functions.

\* Variant: a zero is an instance like any other.
InstanceOfAsIs(instance) == instance

InstanceOf(instance) == IF instance = 0 THEN None ELSE instance

submit_response(call_id, ok, payload) ==
  [kind |-> "respond", id |-> AsUnsigned(call_id), ok |-> ok, body |-> payload]

submit_event(stream_id, payload) ==
  [kind |-> "event", id |-> AsUnsigned(stream_id), body |-> payload]

\* An unknown tag makes no frame; an error needs no payload.
submit_stream_end(stream_id, reason, payload) ==
  IF reason \notin 0..2 THEN None
  ELSE [kind |-> "end", id |-> AsUnsigned(stream_id),
        reason |-> CASE reason = 0 -> "complete" [] reason = 1 -> "cancelled" [] OTHER -> "error",
        body |-> IF reason = 2 /\ payload # None THEN payload ELSE Empty]

submit_call(call_id, instance_id, payload) ==
  [kind |-> "call", id |-> AsUnsigned(call_id),
   instance |-> InstanceOf(AsUnsigned(instance_id)), body |-> payload]

submit_notify(instance_id, payload) ==
  [kind |-> "notify", instance |-> InstanceOf(AsUnsigned(instance_id)), body |-> payload]

submit_early_latest(payload) == [kind |-> "early", keeps |-> "latest", body |-> payload]

submit_early_queue(capacity, payload) ==
  [kind |-> "early", keeps |-> "queue", body |-> payload,
   capacity |-> IF capacity <= 0 THEN 0 ELSE capacity]

\* The frame Kotlin's native function for what a method was called with makes.
AndroidEntry(args) ==
  CASE args.to = "onRespond" -> submit_response(args.id, args.ok, args.body)
    [] args.to = "onEvent" -> submit_event(args.id, args.body)
    [] args.to = "onStreamEnd" -> submit_stream_end(args.id, args.tag, args.body)
    [] args.to = "onCall" -> submit_call(args.id, args.instance, args.body)
    [] args.to = "onNotify" -> submit_notify(args.instance, args.body)
-----------------------------------------------------------------------------
\* Swift's functions: a null or empty buffer is the empty payload.
copy_bytes(payload) == IF payload = None THEN Empty ELSE payload

istmo_ios_submit_response(call_id, ok, payload) ==
  [kind |-> "respond", id |-> call_id, ok |-> ok, body |-> copy_bytes(payload)]

istmo_ios_submit_event(stream_id, payload) ==
  [kind |-> "event", id |-> stream_id, body |-> copy_bytes(payload)]

istmo_ios_submit_stream_end(stream_id, reason, payload) ==
  IF reason \notin 0..2 THEN None
  ELSE [kind |-> "end", id |-> stream_id,
        reason |-> CASE reason = 0 -> "complete" [] reason = 1 -> "cancelled" [] OTHER -> "error",
        body |-> IF reason = 2 THEN copy_bytes(payload) ELSE Empty]

istmo_ios_submit_call(call_id, instance_id, payload) ==
  [kind |-> "call", id |-> call_id, instance |-> InstanceOf(instance_id),
   body |-> copy_bytes(payload)]

istmo_ios_submit_notify(instance_id, payload) ==
  [kind |-> "notify", instance |-> InstanceOf(instance_id), body |-> copy_bytes(payload)]

istmo_ios_submit_early_latest(payload) ==
  [kind |-> "early", keeps |-> "latest", body |-> copy_bytes(payload)]

istmo_ios_submit_early_queue(capacity, payload) ==
  [kind |-> "early", keeps |-> "queue", capacity |-> capacity, body |-> copy_bytes(payload)]

IosEntry(args) ==
  CASE args.to = "onRespond" -> istmo_ios_submit_response(args.id, args.ok, args.body)
    [] args.to = "onEvent" -> istmo_ios_submit_event(args.id, args.body)
    [] args.to = "onStreamEnd" -> istmo_ios_submit_stream_end(args.id, args.tag, args.body)
    [] args.to = "onCall" -> istmo_ios_submit_call(args.id, args.instance, args.body)
    [] args.to = "onNotify" -> istmo_ios_submit_notify(args.instance, args.body)
=============================================================================
