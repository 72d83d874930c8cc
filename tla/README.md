# istmo in TLA+

istmo connects shared Rust code with the platform it runs on. Rust code calls
plugins through typed clients; a plugin is implemented in Rust (a *host*) or by
the platform, Kotlin on Android and Swift on iOS (the *peer*), or by another
process. The sides exchange frames: `Call`, `Respond`, `Cancel`, `Event`,
`StreamEnd`, `CreateInstance`, `DestroyInstance`, `Notify`, `EarlyEvent`,
`ReleaseNativeHandle`. At the centre is `istmo_core::Runtime`
(`crates/core/src/runtime.rs`, `routing.rs`): tables of what is outstanding, a
thread per hosted dispatch, one bounded outbound channel that a transport's pump
thread drains. Around it are macros that generate clients and hosts, the runtimes
of the two phones, and plugins with protocols of their own.

The modules model what several threads, processes, tasks and devices do to each
other, and what survives when one of them stops; payloads are model values.

1. [Inventory](#1-inventory)
2. [Modules and how they correspond to the code](#2-modules-and-how-they-correspond-to-the-code)
3. [Runs](#3-runs)
4. [Fairness](#4-fairness)
5. [Proofs](#5-proofs)
6. [Divergences](#6-divergences)
7. [Not modelled](#7-not-modelled)
8. [Plan](#8-plan)

Running it, in this directory: `tlc -config X.cfg M` for a row of the table in section 3,
`tlapm M_proofs.tla` for the proofs of section 5. `PROJECT.json` lists the components, the
runs, the lines of code behind every definition (`map`), the places in the code that are
hard to test (`hazards`), and for each property a mutation of the model, the kind of slip a
change to the code could make, under which the property fails (`mutants`). The mutated
operators sit in the modules beside what they replace, marked `Variant:`; no behaviour of
the specifications uses them.

## 1. Inventory

### Core runtime (`crates/core`)

| part | state it keeps | operations | what is hard | what makes it correct |
|---|---|---|---|---|
| unary calls | `pending` (id → oneshot), `next_id`, `cancelled_hosted` (id → token), outbound channel | `call`, `CallHandle` poll / `recv_blocking` / drop, `dispatch_hosted_call`, `send_respond`, `deliver_response`, `cancel_call`, `cancel_hosted`, `cancel_hosted_local_call`, `shutdown` | three parties (caller, dispatch thread, transport thread) touch each id under locks held for one statement at a time; bounded channel; shutdown | an answer reaches the call it answers; every awaited call ends; a cancellation reaches its host, however it races; nothing of a cancelled host is delivered |
| streams | `pending` (id → bounded sender), a pump thread per hosted stream | `stream`, `StreamHandle::recv`, drop, `spawn_stream_pump`, `send_event`, `send_stream_end`, `deliver_event`, `deliver_stream_end`, `cancel_stream` | two bounded channels in a row, the drop of a handle while a thread blocks in `send`, errors on a stream's id | items in order, none missing before `Complete`; the end is seen; no thread stays blocked on a handle that is gone |
| instances | `RoutingTables.instances` (number → plugin), each generated host's map and counter | `create_instance`, `register_instance`, `destroy_instance`, `dispatch_hosted_create_instance`, `dispatch_hosted_destroy_instance` | one table for the numbers of all plugins; look-up and removal under separate locks; abandoned creations | independent instances; whoever knows a number can use it; a dropped client leaves nothing behind |
| early events | `PRE_START_EARLY_EVENTS`, the store's `PreMainQueue`s and `LatestValueSlot`s, Kotlin's `pendingEarlyQueue` | `submit_early_event`, `Runtime::init`'s replay, `publish`, `subscribe`, `publishEarlyQueue` | published before the library, the runtime or a subscriber exists; three buffers in a row | nothing stranded, repeated or reordered, no gap between backlog and live values |
| remote bridge | `remote_plugins`, `remote_calls`, `remote_streams`, the sink | `install_remote_envelope_sink`, `send_outbound`, `classify_and_track`, `mark_call_remote` | tables filled and emptied by frames of both directions; each peer counts for itself | each frame goes to the process its call came from or went to |
| native handles | a number and a weak runtime | `adopt`, `drop`, `into_id`, release hooks | every hook hears every number | what is owned stays, what is let go is freed |
| start, registry | `GLOBAL`, `hosts`, declared plugins, the cells of paths, assets, app info | `Runtime::init`, `register_host`, `declare_plugin`, `finish`, `set_app_info`, `install_paths`, `install_backend` | two starters, hosts that read while they are constructed, an app that is faster than the platform | one runtime, whole when it is seen; directories and assets are the app's own |
| frames, codec | none | the arguments of native methods, bincode | signed and unsigned numbers, zero for none | a frame means the same on both sides |
| cancel token, notifications, main thread | a flag with a channel; a thread per notification; a posted closure | `cancel`, `cancelled`; `notify`; `run_on_main` | - | - |

### Macros (`crates/macros`)

`#[plugin]` expands one trait twice: into a client, which encodes arguments and
decodes answers, and into a host, which decodes, calls and encodes. The two meet
only in bytes. A stateful host (`init = ...`) also keeps a map of its instances
and a counter of its own that starts at 1; a client of it registers its instance
when it has it and calls `destroy_instance` when dropped. `#[worker]` generates a
host with one method, `#[message]` a type with its owned form, `#[service]` an
adapter that runs the body of a service on a thread of its own and lets calls
start and stop it, `runtime!` and `#[mobile_app]` the start of the process.

### Transports and peers

* **Android**: `crates/android` (outbound pump, JNI entry points), and the
  Kotlin runtime `runtime/android` (`IstmoRuntime.kt`: coroutine jobs of hosted
  calls, its own outbound calls, the early queue), observers, publishers.
* **iOS**: `crates/ios` (pump, C entry points), and the Swift runtime
  `runtime/ios` (a serial queue that guards continuations and hosted tasks; a
  shutdown that joins the pump).
* **another process**, over the sink of the remote bridge.

Hard: a peer's `Cancel` overtaking its `Call`, ids counted by both sides, the
table of jobs against jobs that end at once, shutdown holding what a callback
needs.

### Plugins (`crates/plugins`, `plugins/*`), and `crates/window`

| part | state | what is hard | what makes it correct |
|---|---|---|---|
| AdMob banner slot | status, rectangle, pending rectangle, tasks | a slot drawn on every frame over tasks still in flight | one banner, one updater, nothing pending without one |
| services, wake locks | the adapter's mutex, a stop channel, a token, body and watcher threads; a guard per lock | joins behind a mutex, a stop and a start at once, a release that is abandoned | a body that runs can be stopped, and a dropped lock is given back |
| data store | a map per instance, its file and a temporary one | crashes and failures between the steps of a write | an `Ok` means saved, a start finds the old or the new map |
| biometric vault | a sealed file and a Hello key, a keychain item, a keyring item, a fingerprint reader | dialogs, cancellation and crashes at every step | a secret is read by a verified user, and what is kept is what was stored last, or what a call beside it left |
| share hand-off | a directory shared by extension and app | either may die; drains overlap | no share is deleted unread, or read twice for no reason |
| share sheet | a busy flag, staged files, jobs for a window, `ACTIVE`, a pending continuation | a sheet is driven by a UI thread, outlives its call on some platforms, and may never report | a call hears of its own sheet, ends, and what can be closed is closed |
| state publishers | a publisher per plugin, a native observer, slots, streams | several publishers of one channel, several channels per tick | clients end up with the state the device is in |
| camera | a table of sessions, frame channels, the page's elements and tracks | a setup in several turns whose caller may be gone | nothing runs for a session that is not there |
| file picker | a map from numbers to paths, descriptors on the wire | owners that come and go over calls in flight | whoever owns a file can open it; a descriptor has one owner |
| windows and pens | a registry with listeners; a state with two channels per window; a row per tool | windows replaced and detached in several steps; five kinds of native events | clients hear what is bound, and see whole strokes |
| others: deep links, opener, sign-in, live activity, scanner, workers | - | - | contracts over calls, streams, instances and early events |

### Others

`crates/build` and `crates/plugins-schema` (batch code generation), `examples`,
`docs`. `PROJECT.json` gives each part its status.

## 2. Modules and how they correspond to the code

| module | models | uses |
|---|---|---|
| `CallPromise` | what `Runtime::call` promises its caller, abstractly | |
| `CallRouting` | unary calls of both sides: the whole path from `call` to the handle | refines `CallPromise` |
| `StreamRouting` | streams opened by Rust and by the peer | |
| `InstanceRouting` | creation and destruction of instances | |
| `PluginMacro` | what `#[plugin]`, `#[worker]`, `#[message]` refuse, and the clients and hosts they generate | |
| `EarlyEvents` | the three buffers in front of a subscriber, and the start of the runtime | |
| `AppDirectories` | where files and assets of the app are, per platform (operators) | |
| `NativeEntry` | how a frame crosses to the platform and back (operators) | |
| `Startup` | how a process comes up, and what the app finds meanwhile | `AppDirectories`, `NativeEntry` |
| `SwiftHost`, `KotlinHost` | the runtimes of the phones with their pumps | |
| `RemoteBridge` | a runtime between the platform and another process | |
| `NativeHandles` | handles, release hooks, camera sessions and files under them | |
| `CameraData` | what a camera is asked and answers, per host (operators) | |
| `CameraSessions` | sessions of the desktop or the browser host, from open to close | `CameraData` |
| `FilePicker` | dialogs, owners, readers and writers of the desktop picker | |
| `BannerSlot` | the AdMob slot, its tasks and the platform | |
| `ShareHandoff` | extension, directory and app | |
| `ShareSheet` | calls of `share()` on Windows, macOS, Linux, iOS and Android | |
| `DeviceSamples` | what each sampler makes of its readings, per platform (operators) | |
| `StatePublishers` | a publisher, an observer, the store, a client | `DeviceSamples` |
| `DurableMap` | what a data store promises, abstractly | |
| `DataStore` | the data store with its files, failures and crashes | refines `DurableMap` |
| `BiometricVault` | the vault on three desktops | |
| `PenWindows` | registry, publisher, clients of windows | |
| `PenStrokes` | what five backends make of the pens over one window | |
| `ServiceLifecycle`, `WakeLocks` | the generated service adapter and its context; its locks | |
| `CallRouting_proofs`, `StreamRouting_proofs`, `InstanceRouting_proofs` | theorems | extend their modules |
| `Startup_proofs` | theorems about `EarlyEvents`, `Startup`, `AppDirectories`, `NativeEntry` | extends `MCStartup` |
| `Hosts_proofs` | theorems about `RemoteBridge`, `SwiftHost`, `KotlinHost` | extends `MCHosts` |
| `NativeHandles_proofs` | theorems about `NativeHandles`, `CameraSessions`, `FilePicker` | extends `MCNativeHandles` |
| `Plugins_proofs` | theorems about `BannerSlot`, `StatePublishers`, `ServiceLifecycle`, `WakeLocks`, `PenWindows` | extends `MCPens`, which extends `MCPlugins` |
| `Stores_proofs` | theorems about `DataStore`, `BiometricVault`, `ShareHandoff`, `ShareSheet` | extends `MCShares` |
| `MC*` | sums for model checking, see section 3 | |

The same convention holds everywhere: an action is what one thread does between
two points where another thread can act. The code takes and releases a mutex
around single statements (`tables.lock()...` in one expression), so each such
statement is an action, and a function that looks something up and then acts on
it is two actions with the world free to move in between. An `await` cuts a task
in the same way. A send into a full flume channel blocks: its action is disabled
until there is room. Names are those of the source where it has one.

### CallRouting

A call is `<<o, i>>`: the side that made it and its id. The runtime keys its
tables by `i` alone, so the model does too; the owner is only visible in
messages, tokens and results so that properties can tell answers apart.

| state | code |
|---|---|
| `next_id`, `pending`, `cancelled_hosted` | `Runtime.next_id`, `RoutingTables.pending`, `Runtime.cancelled_hosted` |
| `tripped` | the flags inside `CancelToken`s; a token is named after who inserted it |
| `task`, `holds`, `waits` | the thread of `dispatch_hosted_call`, the token cloned into it, and whether the plugin's method awaits that token |
| `caller`, `hosted`, `result` | a `call()` in progress, then its `CallHandle`; `CallHandle.hosted`; the oneshot |
| `fetched` | the token a canceller cloned under the lock and has yet to trip |
| `outbound`, `phase` | the outbound channel; `Runtime::shutdown` then the transport's join |
| `peer_call`, `peer_cancel`, `peer_got`, `serving` | the peer's own calls and its work on ours |

`Register` → `CallHosted` / `CallPeer` → `Await` is `call()` and the handle.
`DropHandle` → `CancelHostedLocal` → `TripLocal`, or `CancelPeer`, is
`CallHandle::drop`. `FinishDispatch` → `RouteRespond` → `DeliverRespond` /
`SendRespond` is the tail of a dispatch thread: it removes the token, discards
a cancelled outcome, asks `has_pending`, then delivers or sends.
`PanicDispatch` is a host that panics, which takes its thread with it.
`PeerCall`, `cancel_hosted`, `TripPeer` and `PeerRespond` are inbound frames,
`Pump` the transport, `Shutdown` and `StopPump` the two halves of a stop.
Since each inbound frame is injected by its own call into the library, a
`Cancel` may be dispatched before the `Call` it is about; the model lets it.

`CallPromise` says what a caller relies on: a call is taken up at most once,
and ends at most once, with its own answer or given up. `KeepsPromise` maps
`pending` and the results of `CallRouting` onto it and is checked as a
refinement.

### StreamRouting

A stream is registered with a bounded sender (`pending`, `buffer`,
`Capacity`). A hosted stream has a dispatch thread until its method returns
(`OpenStream`), then a pump thread: `Take` (receive from the plugin's channel),
`RouteEvent` (`has_pending`), `LookUp` (`deliver_event` clones the sender),
`PushHosted` (the blocking send) or `SendItem` (the frame, for a peer's
stream). The end goes the same way, except that `LookUpEnd` takes the
registration. A stream of ours that the peer serves is `PeerEmit`,
`PeerEmitCancelled` and `PeerPush`: the peer's collector injects one item at a
time and its thread blocks in the same send. `DropHandle` and `CancelStream`
are `StreamHandle::drop`; only after both is the receiver dropped, which
releases whoever blocks in `Push`. Items are numbered in the order the producer
emits them, so order, loss and repetition are visible. Ids of the two sides do
not meet here; `CallRouting` shows what happens when they do.

### InstanceRouting

`client` is a generated client from `from_runtime_with` to its drop. The host
side is the generated `Dispatch::create_instance` (`HostCreates`: a number and
a map entry), then the tail of `dispatch_hosted_create_instance`
(`FinishCreate`, `RegisterHosted`, `RespondCreated`) and for a client of this
process `AcquireClient`. Dropping goes through `DropClient` (the registry says
who has the instance) to `LookUpOwner`, `RemoveInstance`, `Reap` for a hosted
plugin, and to `ForgetRemote`, `SendDestroy` for the peer's. `Abandon` drops
the future of `from_runtime_with` at any point. Every plugin counts from 1, as the
generated hosts do, and the registry has one entry for each number: clients of
different plugins with the same number are `Namesakes`, of which one may override
the other's entry (`Overridden`) or be taken for it when it is dropped (`Mistaken`).
The handle of the creating call is reduced to what its owner sees of it; its
details are those of `CallRouting`.

### PluginMacro

One declaration at a time (`trait`), from a list of some 90 in
`MCInstanceRouting`: names, arguments with their roles, outputs, attributes. A
type is what a macro can see, a head and its arguments; `Meaning` is the alias
resolution only rustc does, and `Compiles` what rustc would refuse of the
expansion. A value has what its encoding begins with (`own`: a variant's tag, a
length) and the values inside it; `encode` concatenates, `decode` reads by a
type, so that two ends that disagree about a type misread each other.
`expand` refuses or builds; `from_runtime(_with)`, `CallMethod`, `dispatch`,
`Arm`, `Returns` (through `OutcomeOf`), `EncodeItem`, `Receive`, `recv` and
`CallOwned` are the generated client, the generated host and `TypedStream`. A
`PlatformCall` is a worker's call with the platform's own bytes: right ones,
an empty payload, or a method that is not there.

### EarlyEvents

A producer's event on a queue goes through Kotlin's `publishEarlyQueue`
(monitor, append, `Flush` while the library is loaded), then
`submit_early_event` (`Check` under the mutex, `Push` into the buffer with the
mutex still held, or `Dispatch` after it was released), then
`PreMainQueue::publish`. Latest-value events start at `submit_early_event`.
The start is `LoadLibrary`, `SetGlobal`, `TakePending`, `Replay` once per
event, and `StartFlush`. `separate` says whether the runtime starts on a thread
of its own: if not, the producers are callbacks of the starting thread
(Android's main thread) and cannot run in the middle of the start. The store's
operations are one action each, because `publish` and `subscribe` hold the
channel's mutex throughout. `log`, `joined`, `latest`, `arrived` and
`overflowed` are history variables; no guard reads them.

### Startup, AppDirectories, NativeEntry

`at` is how far each starter has come through nativeStart and installContext
(Android), `istmo_ios_start` (iOS) or `main`; each step is one statement that
others can see the effect of: the app's identity, `GLOBAL`, one host after the
other, the declarations, the pump, `STATE`, paths and assets. A loser of the
race for `GLOBAL` is refused. `eager` is a host whose constructor reads a path
and an asset. Meanwhile the app reads directories and assets, acquires and calls
plugins, and the platform shuts down. Paths are sequences of names; the
operators of `AppDirectories` compute them as `path/desktop.rs`, `assets.rs` and
the transports do, from the set of variables and directories that exist. A key of an
asset is what the program wrote, as `Path::components` sees it; a backslash between two
names is an entry of its own, which Windows skips and the others leave in the name.
`NativeEntry` computes the arguments the pumps call with and the frames the
native functions make, with numbers of `Width` bits, signed for Kotlin.

### SwiftHost, KotlinHost

In `SwiftHost` every table belongs to the serial `queue`, a sequence of blocks of
which the first runs; `outbound` and `pump` are the channel and the thread of
`crates/ios/src/pump.rs`, which waits in `queue.sync` for some frames. Swift's
calls (`made`, `registered`, `resumed`), streams (`dropped`), and hosted calls
(`hostedTasks`, `task`, `cancelled`) meet `shutdown`, a block that joins the
pump. In `KotlinHost` nothing is serialised: `outboundCalls` and `jobs` are
concurrent maps, `own` and `submits` the coroutines that call, `job` those that
are called, `phase` and `visit` how far `shutdown` is. The Rust runtime behind
the native functions is `CallRouting` reduced to what the platform can tell.

### RemoteBridge

`send_outbound` decides frame by frame whether it is for the platform or the
other process (`lane`): calls by their plugin, everything else by what
`remote_calls` and `remote_streams` hold. A peer's calls are numbered by the
peer, so one number may be in use in both directions (number 2 in the run).
`marked` says whether somebody told the runtime that a call came over the
remote transport (`mark_call_remote`).

### NativeHandles, CameraSessions, FilePicker

`NativeHandles` has two cameras and the picker behind one runtime. A request is
numbered by its host and put into its `table`, adopted by a client, and let go by
drop: `release_native_handle` copies the list of hooks (`todo`) and runs one
after the other, each with the bare number. Both counters start at 1, as in the code,
so that a camera's hook meets the picker's numbers and the other way round. `next`,
`hooks` and `destroyed` are `NEXT_SESSION` and `next_id`, the list of hooks, and
cameras whose client is gone. A session feeds frames into a bounded channel that its
streams share (`seq`, `dropped`, `sent`, `taken`, `reader`).

`CameraSessions` is one host by itself. In the browser a turn of the page's
thread is a step, and `open` takes several: `getUserMedia`, the elements, the
metadata, the timer, the entry in the table; its caller may be gone by any of
them (`stage`, `caller`), and permission, page and camera change meanwhile. What
runs is in `tracks`, `elements`, `timers`. `CameraData` has the two hosts'
translations of configurations, controls, formats and errors.

`FilePicker` has `dialog` calls that number paths (`files`), the owners of each
`Arc<OwnedPickedFile>` (`owners`; the application stands as `None`), numbers on
their way to the hook (`letgo`), calls that open (`open`) and the descriptors they
gave away (`fds`). `purge` is called only where no hook was installed, as its
comment says.

### BannerSlot, ShareHandoff, ShareSheet, StatePublishers

`Frame` of `BannerSlot` is `sync(target)` when it finds something to do (the
arms of its `match` are `SyncShow`, `SyncLoading`, `SyncMove`, `SyncHide`). A
task is a future given to `spawn`, cut at its awaits: `PlatformShows/Moves/Hides`
is the platform's answer, `FinishShow`, `FailShow`, `FinishHide`, `TakePending`,
`FinishUpdate` what the task then does under the slot's mutex. The platform is
external: it creates a banner or has no ad; moving a banner that is gone does
nothing; hiding removes the banner also when an error is reported.

In `ShareHandoff` the extension writes an entry in steps (`beginEntry`,
`copyFile`, `writeManifest`, `commit`, `postHandoff`) and may stop after each;
`drain_app_group_inbox` and `on_handoff` list the entries (`todo`), and per entry
read, move, publish and remove (`hand`). `Crash` ends the app at any point.

In `ShareSheet` a call of `share()` goes through `Start` (validation and the
guard), `Stage` (files to disk), `Present` (one action per platform) and `Await`;
`until_cancelled` and `EndCancelled` are its desktop cancellation, `onCancel` and
`cancelCoroutine` those of Swift and Kotlin. `queue` is what the UI thread has yet to
handle: the messages posted to the subclassed window (`subclass_proc`), or the
closures on the main queue (`show_macos`, `close_macos`) and the main actor
(`dismiss`). `reply` is the channel of one slot, or the continuation, that the call
waits on; `active` is `ACTIVE` of macOS and `pendingResult` of Android. What the user
does on a sheet is recorded in `did`, and reported as the platform does: by Windows'
events, macOS' delegate, iOS' completion handler, and on Android by a broadcast
(`onReceive`) and an activity result (`chooserResult`), in either order. "windows10"
is a build without `ShareCanceled`. On macOS a window is taken to stay alive while it
is registered, as the pointer to its view asks of the application.

In `StatePublishers` a reading of the device is what the operating system's
interfaces return, `DeviceSamples` what the samplers make of it, `tick_channel`
one comparison with what was published last. A native observer publishes on the
same slots.

### DataStore, BiometricVault

A mutation of `DataStore` is `mutate` under the instance's lock: the map changes
in memory, then the temporary file is created, written, and renamed; on Windows a
refused rename becomes a copy. Every step may fail or be the last one of the
process. `DurableMap` is the same from outside: shown, saved, and the result of
the last mutation.

`BiometricVault` is calls on one alias, each a task cut at its awaits (`pc`):
on Windows open, sign with, or create a Hello key, seal or unseal, write and
rename; on macOS the keychain's calls; on Linux claim the reader, scan, give it
back, and search the keyring twice. `ResetHello`, `Restart`, cancellation and
errors come at any time. Nothing in the plugin keeps two calls on an alias apart,
so the model lets any of them overlap: two stores write one staged file, which is
followed by what is in each file created (`disk`) and which of them the two names
give (`file`, `staging`), as a store goes on writing what it opened when the other
has renamed it. Two history variables say what the calls may expect: `may`, what
the vault may hold by what was answered, and `beside`, for each call, what those
that ran beside it may have left. A store that is acknowledged resets `may` to its
own secret and what is `beside` it.

### PenWindows, PenStrokes

`PenWindows` cuts register, replace, follow, detach at each mutex; what remains
of an operation is in `todo`, per thread, each step with the id it is for. What the
code filters or sorts is said by positions (`Ascending`, `Unbind`). The windows listen
to the publisher and one other, which may refuse. `PenStrokes` has what the pens really
do (`hand`), native events on their way (`queue`), the backend's rows, and what a
client makes of the samples (`view`, `hovers`). A window's attributes, positions
and pressures are left out.

### ServiceLifecycle, WakeLocks

`on_start` spawns the watcher of its token and the body, then takes the mutex,
signals and joins the previous service behind it, and stores its own
(`LockState` ... `Respond`); `on_stop` takes the state out and joins outside. The
body ends when each of its tasks was told to: by `stopped()`'s flag or the token when it
asks ("told"), or, once it waits, by the stop channel's one message, which wakes one of
them ("woken"). The channel is taken as its capacity says: a signal is dropped while a
message is in it, so that on_stop's and the watcher's may be one message or two.
`WakeLocks` has a guard, its frame under way, and the platform's locks.

## 3. Runs

A run that shows more than one module is a *sum*: a variable `part` is chosen in
the initial state, only the actions of that part are enabled, and the variables
of the others stay as they were (pinned to one initial state). The parts do not
interact in the code, or their interaction is in a module of its own; the sum
shows each of them under every interleaving of its own. That no part is vacuous
was checked by refuting `<>[](part # p)` for each part. `MCShares` and `MCHosts` also
extend a sum or a module that a run of its own checks (`MCStores`, `RemoteBridge`) and
leave it at rest, so that one proof module speaks of all of them.

| run | module, cfg | parts | states |
|---|---|---|---|
| `calls_safety` | `CallRouting`, `CallRoutingSafety.cfg` | | 472,751 |
| `calls_liveness` | `CallRouting`, `CallRoutingLiveness.cfg` | | 7,973 |
| `streams` | `StreamRouting`, `StreamRouting.cfg` | | 295,040 |
| `instances` | `MCInstanceRouting`, `InstanceRouting.cfg` | `InstanceRouting`, `PluginMacro` | 429,462 |
| `early` | `MCStartup`, `Startup.cfg` | `EarlyEvents`, `Startup` | 576,856 |
| `hosts` | `MCHosts`, `Hosts.cfg` | `SwiftHost`, `KotlinHost` | 138,724 |
| `remote` | `RemoteBridge`, `RemoteBridge.cfg` | | 299,797 |
| `handles` | `MCNativeHandles`, `NativeHandles.cfg` | `NativeHandles`, `CameraSessions`, `FilePicker` | 374,557 |
| `plugins` | `MCPlugins`, `Plugins.cfg` | `BannerSlot`, `StatePublishers`, `ServiceLifecycle`, `WakeLocks` | 159,135 |
| `shares` | `MCShares`, `Shares.cfg` | `ShareSheet`, `ShareHandoff` | 261,981 |
| `stores` | `MCStores`, `Stores.cfg` | `DataStore`, `BiometricVault` | 885,665 |
| `pens` | `MCPens`, `Pens.cfg` | `PenWindows`, `PenStrokes` | 979,558 |

States are those of a complete search. All runs say `CHECK_DEADLOCK FALSE`:
every one of these systems may come to rest, when all calls are made and
answered, after a shutdown, or with an interface that has what it wants. A
thread that waits for ever is a matter for the liveness properties.

**calls_safety.** Two calls of ours and one of the peer, each hosted here or by
the peer, any handle dropped at any time, panics, a shutdown at any time, an
outbound channel of one slot. Two local calls let an answer go astray between
them and let a cancellation of one meet the dispatch of the other; the peer's
call adds the other side's ids and the other path of cancellation. Shows:
answers match calls (`AnswersMatchCalls`); the token table follows the running
dispatches and a cancellation that returned reached its host (`TokensServe`);
what a cancelled host returns is thrown away (`CancelledIsDiscarded`); a handle
closes without an answer only after a shutdown, and a registration without a
holder exists only after a failed send (`RegistrationsHeld`); and all of this
implements `CallPromise` (`KeepsPromise`). `MayWait` is off: with or without
waiting for its token a host ends in the same states, later.

**calls_liveness.** One call per side, hosts that may wait for their token,
channel of one slot, shutdown at any time, under fairness. A call made before
the shutdown ends, even if the peer never sees it, because the shutdown clears
the table; cancelled hosts return; the peer gets its answers through the full
channel (`CallsEnd`). One call per side suffices because calls only compete for
the channel's slot, which a `Call`, a `Cancel` and the `Respond` of the other
side already fight for.

**streams.** One stream of ours, hosted or the peer's, and one of the peer,
two items each, through channels of one slot. Two items and one slot are the
least with which an item waits in the producer's channel, one in the pump and
one in the consumer's buffer at once, so that the end can try to overtake.
Shows order, completeness before `Complete` (`StreamsWhole`), no registration
without a handle (`StreamsWhole`), and that a dropped handle releases whoever
blocks, the consumer hears of the end, the peer hears of its streams' ends
(`StreamsGoOn`).

**instances.** Two clients here and one of the peer, two hosted plugins and one
of the peer, every assignment of clients to plugins, every plugin counting from 1. Two
clients of one plugin compete for its counter, two of different plugins for one entry of the
registry. Shows that the instances of a plugin are independent, a number known to a caller
is routed, a dropped client leaves no entry (`InstancesAreExact`), and the peer is told of
each drop (`DroppedIsReleased`); and that nothing but a client of another plugin with the
same number can come in between: it registers over the entry, its drop removes the entry or
takes the instance, or the drop of the one is carried out as that of the other. What the
entry then holds, and whom a drop took, is part of the properties. That the plugins do not
disturb each other (`PluginsApart`) does not hold. By itself, the generated code: every
declaration of the list is expanded, and one that compiles is called, locally and by the
platform; one busy stateful declaration by two clients at once, with two calls. Shows that
arguments, results, errors, items and owned handles arrive as what was sent
(`GeneratedEndsAgree`), two kinds of declarations aside (section 6).

**early.** Two producers publish three events, on both channels, in all the
stages of the start, with a buffer of two before the runtime, a queue of two or one (whoever
asks first), two subscribers that come and go, with the start on a thread of its own and
not. Three events overflow both buffers. Shows that nothing is stranded, no value is
published twice, subscribers have no gap between backlog and live values and share no
backlog, slot subscribers agree with the slot (`NoneLostOrTwice`), one thread's order is
kept (`OneThreadKeepsOrder`; the run checks both as `EventsKept`), and what was submitted
arrives (`EventsArrive`). By itself, the start: five platforms, two starters, three
environments, nine keys. Shows that the runtime is whole when it is up, and directories and
assets are the app's, whoever was first (`StartsWhole`), and that each kind of frame, at
every number of `Width` = 2 bits, comes back from the platform as what it was
(`FramesKeepMeaning`). Two bits have a zero, a largest number and one that Kotlin sees as
negative.

**hosts.** A call, a stream, and a hosted call of the platform, through an
outbound channel of one slot, cancelled or dropped at any time, with a shutdown.
Shows that every continuation is resumed once or within reach, Tasks and jobs are
within reach of their `Cancel`, and Rust runs a call of Kotlin twice only if it
was cancelled (`HostsTrack`); that calls of both directions made before shutdown
end, in Swift but for the two deadlocks of section 6, named `Deadlocked`
(`HostsSettle`). One of each suffices: the tables are keyed by call, and what
they share is the queue, the channel and the pump, which one call per kind fills.

**remote.** Two calls out and two in, one number used both ways, a stream among
the calls in, the sink installed at any time. Shows that frames about a call go
where it went or came from, late `Cancel`s included (`FramesFollow`), and that no
peer is left working on a dropped call or waiting for an end (`PeersSettle`),
except what shares a number and what nobody marked.

**handles.** Two cameras with a session each and one file, without frames: the least
for a hook to meet another host's number, as it does: sessions and files are both
numbered from 1. Then one session that is watched, with its frames and the reader of
its stream, beside the file; the streams of sessions share nothing. (The two together
have 991,532 states, and no error.) Shows that tables hold what clients own, unless a handle of
the other kind with the same number was dropped (`TakenFor`), that they release what
clients let go (`TablesMatchHandles`), and that streams of a released session end
(`ReleasedStreamsEnd`). By themselves, two
sessions of one camera host, one watched, with two frames in a channel of
`pool_depth` slots; and the picker with two paths, one dialog, a reader (or path)
and a writer of the files it gives. Shows that nothing runs without a session,
clients are told what was applied and gaps are announced (`SessionsAreTrue`), an
owner finds its file and a descriptor has one owner (`FilesServeOwners`).

**plugins.** A slot with two rectangles, four changes of mind, three banners, and
room for three tasks alive at once (a show or a hide, and two updaters would be
three: `OneUpdater` could fail); or the publisher of one plugin on one platform, two
readings, one value of a native observer; or two `on_start` and an `on_stop` over a
body of two tasks that wait for the stop, one start cancelled at any step (`MaxDrops`;
with both there are 238,395 states, and no error); or two wake locks, one of which is
given back while the other is dropped. Two starts and a stop are the least for a start
to take a service another call is taking, two tasks for one to be told and the other
not. Shows one banner and one updater
(`BannerServed`), clients told of formats that follow their locale, of nothing
twice in a row, and of the richer value where there is one (`SamplesAreTold`); that a
body that runs can be stopped, is stopped only if asked, and who took it goes on when
it has ended, and a lock that is held is somebody's (`AllOwned`); and that all of them
settle, calls, services and dropped locks included (`PluginsSettle`), except a service
of whose tasks one was woken while another waits for a message that will not come
(`Unheard`), and who joins it.

**shares.** Two calls of `share()`, either of which may be cancelled but not both
(`MaxDrops`; with both there are 388,847 states, and no error), one window handle, six
platforms; or two shares of the extension, two draining threads, one crash
of the app. Two calls are the least for a sheet that outlives its call to meet the
next one, which is where `busy`, the job table, `ACTIVE` and `pendingResult` have to
agree. Shows that a dismissible sheet is alone and is closed with its call, and a call
hears of its own sheet's end and not of another's (`SheetsServeCalls`), no sheet
appears for a call that is over (`NoLateSheet`), no share that was received is deleted
unread or published twice but for a crash or a second drain (`SharesKept`), and calls
end and shares arrive (`SharesSettle`). Three cases are excused, each of them a row of
section 6: the window that is destroyed under a job, Android's late target, and
Android's chooser that outlives a cancelled call. `Reuse` (a window handle that is
given out again) is off for the same reason. A second crash does to the first drain's
leftovers what the first did.

**stores.** One instance of a namespace with three maps, on Windows and elsewhere;
or three calls on one alias (alike, so `SYMMETRY` of their permutations; the run has no
liveness property) on each desktop, with one reset of Hello or crash (`MaxTroubles`), one of
them cancelled (`MaxCancels`), and two keys. Three maps are the shown, the saved and the one
being written. Shows that the file is whole (`SavedWhole`), `Ok` means saved
(`AcknowledgedIsSaved`), the store implements `DurableMap` (`KeepsDurable`); that the vault
holds what was acknowledged last or what a call since, or beside it, left (`VaultKeeps`),
secrets are given to verified users and the reader goes back (`VerifiedOnly`), and reads
answer with what may have been there since they began (`ReadsAreTrue`). Three calls are two
stores that spoil each other's file or key and a read, a delete or a store after them; two
keys are the one in use and the one that replaces it. A cancellation changes what its own
call does, so that one shows what all do; with three there are 1,727,615 states, and no
error.

**pens.** Two window ids, the first with one native window and later another, two
threads with at most three operations, one thread per id at a time (`Overlap` is
off), one client, at most three states, on each platform; or two pens with six acts
over one window, one plugged or unplugged at a time (`OnePlug`), on each backend.
The other plugins, whose module this one extends for the sake of the proofs, rest.
Six acts are a whole visit of one pen (plug in, near, down, up, away, unplug) or the
interleaved halves of two. Shows that what is bound is heard, what is gone is
closed, and listeners and registry agree (`WindowsSettled`), that the client's view
is in the end the hand (`ViewFollows`), and strokes and hovers begin, go on and end
(`StrokesAreWhole`).

Bounds by name: `MaxId`, `PeerIds`, `OutboundCap`, `MaxItems`, `Capacity`,
`MaxEvents`, `PreStartCapacity`, `PublishCapacity`, `SubscribeCapacity`, `Width`,
`MaxBanners`, `MaxRetargets`, `Tasks`, `MaxCrashes`, `MaxReadings`, `MaxNative`,
`MaxKeys`, `MaxTroubles`, `MaxCancels`, `MaxDrops`, `MaxFrames`, `Depth`, `KindsOf`,
`MaxStates`, `MaxOps`, `MaxActs`. The capacities are parameters of the code
(`RuntimeConfig.outbound_capacity`, the `capacity` of a stream or a queue,
`PRE_START_EARLY_EVENT_CAPACITY`, a pool depth), taken small so that they fill; the
others only bound how much is tried. `MaxBanners` and `Tasks` disable a step when
they are reached: the platform then has no ad, and `sync` waits for a task to end.

## 4. Fairness

Nobody is obliged to make a call, open a stream, read, drop, cancel, publish,
subscribe, plug in or shut down. What is assumed is that threads that can run do:

* `CallRouting!Fairness`: the caller's thread, each dispatch thread (a method
  that waits for its token returns once it is tripped; others return), the
  second half of a cancellation, the pump, the join in shutdown, and a peer
  that answers the calls it serves unless they are cancelled (Kotlin and Swift
  reply to every call they dispatch, with an error if need be). Each is a
  thread of its own, so weak fairness per thread is what the scheduler gives;
  a sender that waits for room in the channel has it as soon as the pump
  turns, and the runs show weak fairness to be enough for the calls that
  compete.
* `StreamRouting!Fairness`: likewise, with the pump thread of a stream and the
  injecting thread of the peer; producers need not emit. A consumer that goes on
  reading is assumed for the end that it sees, which no consumer that stops
  reading can expect.
* `InstanceRouting!Fairness`: hosts, the threads of a drop, the pump (`GoesOn`).
* `EarlyEvents!FairSpec`: submitting threads and the start, once the library is
  loaded. Loading it is up to the application.
* `SwiftHost!Fairness`: the serial queue, the pump, Tasks, and hosts that answer;
  `KotlinHost!Fairness`: the pump, shutdown, coroutines; strong fairness for
  `nativeSubmitCall` and for answers, because both wait for room in the one channel
  and flume wakes its waiting senders in turn.
* `RemoteBridge!Fairness`: frames arrive and hosts here end. A peer may take for
  ever over an answer.
* `NativeHandles!Fairness`: hosts answer, the hooks of a drop run on the thread of
  the drop (`LetGo`), a stream's reader reads. Clients, cameras and users owe nothing.
* `BannerSlot!FairSpec`: tasks run, the platform answers, there is another frame.
  `ShareHandoff!Fairness`: a start is carried through, notifications are delivered,
  drains go on; nobody has to launch the app, and the extension may stop anywhere.
  `StatePublishers!Spec`: the application ticks its publisher and reads its stream,
  as the demo does.
* `ShareSheet!Fairness`: calls and the UI thread go on (`GoesOn`), the timeouts of macOS and
  Android pass, the activity that started a chooser resumes. It also assumes that
  users leave every sheet, by a choice or otherwise: without that no call need end.
* `ServiceLifecycle!Fairness`: the adapter's threads run, a mutex is handed on to
  whoever waits, the tasks of a body ask whether it is stopped, and it ends when all
  were told (`GoesOn`).
  `WakeLocks!Fairness`: frames that were sent arrive.

`GoesOn` and `LetGo` are the steps of all these threads together, under one condition of
weak fairness, which costs TLC less. It says the same as weak fairness of each thread
wherever behaviours are finite but for stuttering (`<>[][FALSE]_vars` holds in
`instances`, `handles` and for the services of `plugins`). In `ShareSheet` windows come
and go for ever; there `SharesSettle` was also checked with the conditions one by one.

`Startup`, `PluginMacro`, `CameraSessions`, `FilePicker`, `PenWindows`,
`PenStrokes`, `DataStore` and `BiometricVault` are checked for safety only. Where
two parts of a sum share a fairness condition it is for the one that runs.

## 5. Proofs

`CallRouting_proofs` holds for every `MaxId`, every set of peer ids, every
channel capacity, with panics, waiting hosts and shutdown allowed or not. It
assumes `CallRoutingAssumption` (the types of the constants; a capacity of at
least 1) and, where stated, `DisjointIds`.

* **TypeCorrect**: `Spec => []TypeOK`. `TypeOK` alone is not inductive:
  `TripLocal` trips the token in `fetched`, so the invariant adds that a
  canceller about to trip has one (`FetchedToken`).
* **AnswersMatch**: `DisjointIds => (Spec => []AnswersMatchCalls)`. The answer
  of a host to our call can still leave over the wire (the handle was dropped
  in between); the invariant `AnswerInv` says that such a frame fits no id of
  the peer (`Harmless`), that dispatches run under ids of their own side
  (`OwnIds`), and that no dispatch of the peer's call ever delivers locally.
  Without `DisjointIds` the theorem is false (section 6).
* **TokensServeHosts**, **CancelledDiscarded**: under `DisjointIds`, `TokensServe`
  and `CancelledIsDiscarded`. They share the invariant `TokenInv`: a running
  dispatch holds the table's entry (`EntryHeld`); the dispatch of a call of
  ours begins after the call is registered and only if it is hosted
  (`CallerAhead`); and a canceller that has looked a token up has the one its
  host holds, or will take over, if the `Cancel` came before the `Call`
  (`FetchedRight`). The last part is what makes the out-of-order case go
  through: a `Cancel` dispatched first leaves an entry, tripped or about to
  be, and the dispatch clones that entry instead of making one.
* **RegistrationsAreHeld**: `Spec => []RegistrationsHeld`, with or without
  `DisjointIds`. `PendingInv` says that an entry of `pending` was not answered, that a
  caller that waits has its entry or its answer until the shutdown, and that ids not
  handed out are fresh.
* **PromiseIsKept**: `DisjointIds => (Spec => KeepsPromise)`, the refinement of
  `CallPromise`: each action is a step of the promise or a stutter. Besides `TokenInv`
  it takes `ServeInv`: a `Call` under way was made and a `Respond` under way was
  accepted (`Accounted`), and that callers and dispatches only begin (`OnlyBegins`).

`StreamRouting_proofs`, for any streams, numbers of items and capacities:

* **TypeCorrect**, **StreamsAreWhole**: `TypeOK` and `StreamsWhole`. What is received is
  in order because one thread at a time passes a stream's items on, and has passed on
  exactly what it took (`Passed`). The inductive invariant relates `Passed` to what was
  delivered, on the two ways an item can take: the stream's own channel (`Deliveries`),
  or the outbound channel, which it shares (`PeerFrames`). `Tables` says that
  a thread with the end in its hands has seen every item.

`InstanceRouting_proofs`, for any clients and plugins:

* **InstancesStayExact**: `Spec => []InstancesAreExact`. The invariant ties each
  client's progress to its host, the registry and the map (`Tracked`), says that a
  frame in the channel tells the truth and that a creation is asked for and answered
  once (`Truthful`, `Once`), and that numbers differ among the clients of one plugin
  (`Distinct`). A step of one client leaves the others what they have, but for
  namesakes, whose entry it may override and whose instance it may reap
  (`OnlyTouches`); and what a namesake did lasts (`NamesakesLast`), so that an entry
  overridden, an instance taken or a drop gone astray can be blamed on it ever after.
  A plugin's counter is bounded by the clients there are, which is where
  `IsFiniteSet(AllClients)` of `InstanceRoutingAssumption` is needed.

`Startup_proofs`, for any threads, subscribers, buffers, and finitely many producers; for
any starters, app, plugins, bodies and width of numbers:

* **EventsAreKept**: `Spec => []EventsKept`. An event is submitted, waits in the buffer
  before the runtime, is replayed, and is published; on Android it waits in Kotlin's
  queue first. `Chain` says that what is at a later stage comes before what is at an
  earlier one; `Located` that an event is somewhere, or was dropped from
  the full buffer; `Locks` which thread holds monitor and mutex at which step,
  the mutex held between check and push being what strands nothing. The order of
  one thread's events needs `~separate`: its producer is idle while it starts the
  runtime, so nothing is dispatched past the buffers (`Phases`). For subscribers the
  invariant says that what each received is a suffix of what was published, as far back
  as it joined, and that the backlog is a suffix nobody has (`Sent`, `Lists`).
* **StartsAlwaysWhole**: `BothSpec => []StartsWhole`. Who is past `Runtime::init` is the
  one whose runtime it is (`OneRuns`), so what the process has behind it are the steps of
  that one (`Taken`), and each has left its mark in the registry, the transport and the
  cells (`Registered`, `OwnPaths`, `OwnBackend`); a start that is done has all of them
  behind it (`DoneMeans`). A cell holds what the platform put there, or what reading it made
  of it. That directories are apart and keys stay inside is proved of the operators: each
  platform's paths part at a name (`Apart`), an app's are named after it and after nothing
  else, and a key has no name that leads out. The hosts and the environments are the
  three of the run; the rest is arbitrary.
* **FramesAlwaysKeepMeaning**: `BothSpec => []FramesKeepMeaning`, from `FramesComeBack`:
  reading what a pump delivered gives back the frame, for every kind of frame.

`Hosts_proofs`, for any numbers of calls in either direction:

* **FramesAlwaysFollow**: `Spec => []FramesFollow`. The tables of what is remote agree
  with where a call went or came from (`OwnNoted`, `InboundNoted`), and a frame stays
  justified until it is read (`Lanes`): the notes can be gone by then, where it went is not.
* **HostsAlwaysTrack**: `BothSpec => []HostsTrack`. In Swift a call is submitted by one
  block (`SubmittedOnce`), and a continuation that was not resumed is in the table or its
  block is still queued (`CallKept`, `StreamKept`); a hosted call has one Task, and its
  `Cancel` comes behind it in the queue (`HostedInTurn`, `Tracked`). In Kotlin a job that
  was launched is in the map, or about to be put there by the pump, or cancelled
  (`JobKept`); once the pump was joined nothing gets in any more, and the jobs that are
  left are cancelled with the scope (`ScopeOver`). Of queues the
  proof needs whether a block is in one, whether once, and which of two comes first.

`NativeHandles_proofs`, for any cameras, requests, readers and depth of channels; any
configurations a camera is opened with; any dialogs, owners and finite set of paths:

* **NoSessionOutlivesItsHandle**: `Spec => []ReleasedIsFreed`, however numbers meet. A
  session whose client let go is out of the table or its own host's hook has still to
  run (`Leaving`), which takes that the hook is installed before the number is drawn
  (`Phase`).
* **TablesAreTrue**: `Spec => []TablesMatchHandles`, with both counters from 1: what is
  owned is in its table, or a handle of the other kind with its number was dropped
  (`Held`; that a handle once taken for another stays so is `TakenLasts`).
  **CamerasAlone**: where all requests are to cameras, `Spec => []HooksAreNoOps`, as
  nothing of another kind is ever dropped. With a picker beside them it does not hold
  (section 6).
* **GapsAreTold**: `Spec => []GapIsReported`, from what the last frame sent says of `seq`
  and `dropped`.
* **OwnersAreServed**: `AllSpec => []FilesServeOwners`. A number is given to one dialog,
  which has it until its caller adopts it (`DialogsApart`), and what is owned is in the
  map until it is purged (`ArcsServe`); who opens a file holds its `Arc` and, once it is
  open, a descriptor nobody else has (`OpensHold`).
* **CamerasAreTrue**: `AllSpec => []SessionsAreTrue`. `CallInv` says what each stage of an
  opening has in which table (`Together`, `Runs`), so that what runs belongs to a session or
  to a caller that can still let it go; `AccessInv` that the prompt's answer is the access
  there is; `PictureInv` that sizes and stamps are of the configuration that was applied;
  `KnobInv` that the knobs of a desktop's camera are where they were put last. The desktop
  and the browser share the proof.

`Plugins_proofs`, about the specification of the run, where one of the parts moves:

* **BodiesAndLocksOwned**: `AllSpec => []AllOwned`, for any sets of calls and locks. The
  properties of services are inductive together with what the mutex of `state` is held
  for (`CallsInv`) and that what is stored was never taken (`StoredInv`); for wake locks
  each lock's state says what is on its wire and how often it was given back (`GuardOf`).
* **BannersAreServed**: `AllSpec => []BannerServed`, for any finite set of tasks, banners
  and rectangles. `TasksInv` says that the slot's status stands for one task of a kind,
  `ScreenInv` whose the banner on the screen is while that task is under way.
* **SamplesAreAlwaysTold**: `AllSpec => []SamplesAreTold`, for any number of readings and of
  native events. What a slot holds from Rust is the reading its publisher remembers
  (`SlotsAreLast`), a stream's last sample is of the reading it says it is of and two in a
  row differ (`StreamTold`), the system's publisher tells the locale before the formats
  in one tick, so that between the two the locale told last is the reading's
  (`SystemInOrder`), and a publisher that publishes once does not compare again, and a
  native observer adds to its sample only after it (`PublishedOnce`).

and about the run `pens`:

* **WindowsAlwaysSettle**: `~Overlap => (PensSpec => []WindowsSettled)`, for any windows and
  native windows, threads, clients, states and operations, on the four platforms. What
  is to hold when the threads rest says nothing of the moments in between, so the
  invariant (`WindowsInv`) says what each list of remaining steps still owes:
  - `TodoInv`: a list is in order (what may stand first, last, and behind what:
    `InPlace`), about one window or a replay (`OneWindow`), inserts what was offered
    (`Offered`), and no two threads are at work on one window (`Apart`).
  - `PenInv`: a state is of one id, which has it in the map or in the hands of a thread
    (`OwnersInv`, `HandsInv`); a state that is bound and was not lost is under its id or
    is put there or detached next, and has an entry (`BindingsInv`, `EntriesInv`).
  - `RegInv`: a window that is offered is registered, or will be inserted when all
    have accepted, or those who accepted will be told to forget it (`OfferInv`,
    `InsertInv`); the other listener knows only windows for which one of these is so
    (`KnownInv`); a registered window suits the state of its id or the pen has yet to
    answer (`FollowInv`).

  When the threads rest no list owes anything, and the property remains. One lemma for
  each step says that it keeps the three. Without `~Overlap` it is false (section 6).

`Stores_proofs`, the data store, holds for every set of maps. It assumes
`DataStoreAssumption` and, except for `Typing`, `Alone`: one instance per
namespace, which the code does not see to (section 6).

* **Typing**: the types, for any number of instances.
* **AloneKeepsFileWhole**: the file is a whole map at every step, where the
  platform replaces it in one (`SavedWhole`). The strengthening says which file
  the open handle writes to, and what lies in the temporary one, at each stage.
* **AloneOkMeansSaved**: after an `Ok` the file holds what the instance shows
  (`AcknowledgedIsSaved`), on Windows too.
* **AloneIsDurable**: `Spec => KeepsDurable`, the refinement of `DurableMap`: the
  initial state maps to an initial state, and each action to a step or a stutter;
  an interrupted copy is the torn file the abstract store may have where
  `mayTear`.

`Stores_proofs`, the others, about the specifications of the runs `stores` and `shares`:

* **VaultInvariant**, **VaultAlwaysKeeps**, **VaultIsVerified**, **VaultReadsTrue**: for any
  calls on one alias, in any overlap, and any keys. The invariant has the real content
  always in `may`. Of two calls that write each reckons with the other (`Rivals`), a read
  with all of `may`, and where a torn file is reckoned with, so is none (`Reckoned`). A
  store that reckons with no torn file has the staged file to itself and its key is the
  alias's (`Staged`, `Seals`); one whose file was renamed under it while it writes has told
  every writer (`Unsettled`). Who holds a secret passed the gate of its platform
  (`Gated`), and the reader is claimed for one call (`ReaderHeld`). `ReadsAreTrue` is an
  action property: it follows from the invariant before the step, and from what a read has
  in hand being in `beside` for as long as its key is the alias's (`ReadsFile`).
* **SharesAlwaysKept**: `SharesSpec => []SharesKept`, for any shares and crashes. Of
  each share the moves and removals that are under way are counted (`Moves`,
  `Removals`), with how far it has come (`Reached`), and what it is published with is whole
  unless a crash or a second drain disturbed it (`Whole`, `Counted`).
* **SheetsAlwaysServe**, **SheetsAreNotLate**: for any calls and window handles on all six
  platforms. One call goes at a time (`busy`), and each platform ties its sheet to it
  in another way: on iOS a sheet that is up is of a call that waits and has no answer
  (`IosSheets`); on macOS what the queue has about other calls comes after the `Close` of
  the call whose picker is up or will be (`MacSheets`), so that closing closes one's own;
  on Windows a job in the table is of a call without an answer. What a call is told
  is what the user did on its own sheet, with Android's late target aside.

In these modules the names of the parts of an invariant say what each is for, and the
property was checked by TLC on the run's instance before it was proved. The proofs need
a few assumptions on constants that the runs evaluate:

* a model value for "nothing" is no value of the set it completes (`None` in
  `EarlyEvents`, `BannerSlot`, `NativeEntry`, `Startup`, `StatePublishers`,
  `CameraSessions`, `ShareSheet`), and the sets that are counted are finite;
* `NativeEntryAssumption`: `2^Width` is a positive number, which the provers, which do
  not know `^`, cannot find out;
* `AppAssumption`: the app's name is none of the names the directories of a platform
  have anyway (an app named `Caches` would make "named after the app" say nothing);
* `PenWindowsAssumption`: two ids have no native window in common, ids are numbers, of
  which there are finitely many, and None is neither an id, a window nor a state.

What proving changed in the model: `CASE`s whose guards overlapped and which TLC reads
in order (`SubmitEarly`, the macros) have disjoint guards or are `IF`s; what
was filtered with `SelectSeq` is said by positions (`normalise_key`, `PenWindows`' `Unbind`,
`Hears` and `Replay`) or not filtered
(`DeviceSamples`' `First`, `ShareSheet`'s `Destroy`); a refusal by the browser has its
second name, `PermissionDeniedError`, without which a denied prompt looked like a failure.

Model-checked only:

* Liveness under fairness: TLAPS has no proof rules for `ENABLED`.
* `GeneratedEndsAgree`: the codec of `PluginMacro` is recursive over types; no module with
  proofs reaches a recursive operator, and no proof here needs induction over data.
* `ViewFollows`, `StrokesAreWhole`: the rows of the pens are filtered, and a client's view is
  a fold over what it was sent, by operators of the libraries that are defined by
  recursion.

## 6. Divergences

Where the code does something else than a doc, a comment or a test says, or than
its caller is likely to expect, the model does what the code does, and the property
of the run says what does hold.

### Shown by a change of one constant or property

Each line names what to change in a cfg to have TLC print the behaviour.

| what | change |
|---|---|
| Rust counts its calls from 1, and so does `IstmoRuntime.kt`; `send_respond` looks an answer's id up in `pending` whoever made the call (`runtime.rs:1045`), so a host's answer to Kotlin resolves a handle of Rust's. Swift numbers from 1,000,000,000. | `CallRoutingSafety.cfg`: `PeerIds = {1}`; `AnswersMatchCalls` |
| `Runtime::shutdown` says it marks the runtime as no longer accepting work; it clears the tables once. A call made before the transport has joined its pump is queued and dropped, and its handle never ends (`runtime.rs:1079`). | `CallRoutingLiveness.cfg`: `CallsSettle` |
| Dropping the handle of a stream hosted in this process sends a `Cancel` to the peer and does not trip the host's token (`runtime.rs:591`; `dispatch.rs:197` says it fires when the caller drops its handle). | `StreamRouting.cfg`: invariant `DroppedHandleTripsToken` |
| Every generated host numbers its instances from 1, the registry is keyed by the number (`macros/src/plugin.rs:268`): of two stateful plugins, one's drop leaves the other's instance unreachable and its own alive. | `InstanceRouting.cfg`: invariant `PluginsApart` |
| "Hooks that inspect handle ids not owned by their host should be no-ops" (`runtime.rs:499`): a hook gets the bare number, and sessions and files are both numbered from 1 (`istmo-camera`, `file-picker`), so that a dropped session takes a live file's entry out of the table, and a dropped file a live session's. | `NativeHandles.cfg`: invariant `HooksAreNoOps` |
| `Runtime::init` publishes the runtime first and replays the buffer afterwards; a value submitted in between is overwritten by an older one (`runtime.rs:211`). | `Startup.cfg`: invariant `LatestIsMostRecent` |
| The banner's show task stores the rectangle it was called with, while a newer one is pending; a target that moved and moved back is taken for already shown (`slot.rs:194`). | `Plugins.cfg`: invariant `LatestRectShown` |
| Two instances of one namespace write one temporary file under two locks: one renames the other's half (`data-store/src/desktop.rs:87`). | `Stores.cfg`: `Stores = {s1, s2}`, `Targets = {"unix"}`; `SavedWhole` |
| A service's new body runs before the previous one was joined, against "cancels the previous instance cleanly" (`cancellation.md:143`; `service.rs:148`). | `Plugins.cfg`: invariant `OneBody` |
| An `on_start` that nobody cancelled may be answered with nothing: a second start trips the token before the answer is sent. | `Plugins.cfg`: invariant `AnsweredUnlessCancelled` |
| "`ServiceContext::stopped().await` resolves when either the `stop` method is called *or* `Frame::Cancel` arrives" (`cancellation.md:139`): `stopped()` waits for the stop channel alone (`plugins/src/service.rs:205`), which holds one message. Of two tasks of a body that wait, one may never be told: its body does not end, and the `on_start` that joins it (`macros/src/service.rs:157`) hangs with the mutex that every later `on_start` and `on_stop` needs. | `Plugins.cfg`: invariant `StoppedResolves` |
| Attach, detach and register of one window id from two threads leave a state bound that nobody can reach (`publisher/mod.rs:161`). | `Pens.cfg`: `Overlap = TRUE`; `WindowsSettled` |
| Two pens plugged or unplugged at once: rows and devices part (`linux_xinput2.rs`). | `Pens.cfg`: `OnePlug = FALSE`; `ViewFollows` |
| "Pen moved while in contact" (`istmo-pen/src/lib.rs:195`): backends send `Moved` for hovering pens too. | `Pens.cfg`: property `MovesTouch` |
| A Hello dialog outlives the call that was cancelled; answered late it replaces the key, and the secret stored meanwhile cannot be read (`windows.rs:204`). So does the second of two first stores that overlap, to the first's, and a store that fails once it has a new key; on macOS a store that fails may have deleted the old item. | `Stores.cfg`: `Platforms = {"windows"}` or `{"macos"}`; invariant `SecretSurvives` |
| On Windows a window that is destroyed stays in `hooked` (`share/src/desktop/windows.rs:154`). A job posted to it is lost: its call waits for ever and every later one is `Busy`. So does every call of a new window that gets the same handle, as it is never subclassed. | `Shares.cfg`: property `AlwaysSettles`; or `Reuse = TRUE`, `Settles` |
| Android's chooser callback reads `pendingResult` on the main thread and clears it in the next statement (`ShareBackendImpl.kt:83`); a cancelled share and the next one fit in between, and the next never ends. | `Shares.cfg`: `Platforms = {"android"}`; property `AlwaysSettles` |
| "The user picked a target" (`share/src/lib.rs:335`): the broadcast of an earlier chooser may be what is read. | `Shares.cfg`: invariant `OwnTarget` |
| "every platform tolerates one at a time" (`share/src/desktop.rs:78`): a dropped share is no longer busy while its sheet is still up on Windows and Android. | `Shares.cfg`: invariant `OneSheet` |
| `purge_staged`, "files staged for earlier shares" (`share/src/desktop.rs:105`), deletes those of the sheet that is up. | `Shares.cfg`: invariant `FilesStay` |

### In the modules, as the code has it

*Calls and instances.* A handle dropped between the end of its dispatch and
`has_pending` makes the answer leave over the wire; the peer has no such call
(`Harmless`). A peer's `Cancel` that arrives after its call ended leaves a tripped
token for good. A panicking host leaves its token and its caller. An abandoned
creation leaves the instance in the host's map (`runtime.rs:941`). Kotlin's
`onDestroyInstance` has the number and not the plugin and drops nothing
(`IstmoRuntime.kt:263`). A value published when the only subscriber of a
`PreMainQueue` has just gone is sent to nobody (`early_events.rs:116`).

*Generated code.* A unary method that returns an alias of `Result` with one argument:
the client decodes the value, the host encodes the whole `Result`. A `#[stream]` of
`Result<T, E>`: the client decodes `T`, the host sends `Result`s. `GeneratedEndsAgree`
excludes these two (`Disagrees`), and fails when either is admitted. Errors of
dispatch come as `PluginError` whose bytes are a text, although `error.rs` says they
are the declared error. An item that cannot be encoded ends its stream as complete. A
type whose last segment is `CancelToken` is taken for the token. `#[plugin]`'s doc
says `id =`, the macro wants `name =`; the docs use `TypedStream` as a `Stream` and
`updates()` without `?`. `#[handle]` on a tuple struct is ignored. `into_id` forgets
a weak reference.

*Start.* On Android the docs of `path.rs` and `assets.rs` promise `NotInstalled` before
`installContext`; instead the desktop's defaults are taken, for good, by whoever reads
first, although `IstmoRuntime.kt` calls itself usable from the first call. A plugin
declared only under `remote:` is not declared, so that acquiring it fails
(`remote-process.md:67-72`); docs write `remote: [LargeModelClient]` although the macro
appends `Client`. A plugin under `hosts:` cannot be called from Rust unless it is under
`plugins:`. A call between the installation of `GLOBAL` and a host's registration, or
the sink's, goes to the platform. `shutdown` before the state is installed does
nothing. Backslashes in keys are not normalised on Unix (`assets.rs:267`); the app's
scope reads `plugin:x/...` keys; Windows without its variables gets relative
directories; the directories in `path.rs`'s table for Android and iOS are not those of
the code.

*Swift.* Two deadlocks: `shutdown` holds the queue while it joins the pump, whose
callbacks wait for the queue; and a call that submits on the queue into a full channel
while the pump waits for the queue (`Deadlocked`). `cancel(pluginId:)` resumes calls of
every plugin; a call after shutdown never ends; a stream that its host refuses never
ends; a dropped stream sends no `Cancel`; the callbacks struct lacks the `on_notify`
that `cdecl_exports.rs:89` has; there is no restart after shutdown.

*Kotlin.* A cancelled call submits its `Call` again with an empty payload
(`IstmoRuntime.kt:133`); jobs that end before they are put into the table stay in it; a
cancelled job answers with an error (`cancellation.md:115` says nothing is sent), a
cancelled stream with an end and an error; a call during or after shutdown stays
suspended.

*Remote.* Nobody calls `mark_call_remote`: an inbound call of the other process is
answered to the platform (`remote-process.md:119`). Nor `mark_instance_remote`.
Numbers shared by two peers steer frames astray.

*Handles, camera, picker.* `dropped_before` loses counts, the newest frame is
dropped rather than the oldest (`lib.rs:24-27`), two `frames()` share one queue
(`lib.rs:697`), an abandoned `open` leaves a session. In the browser a `DOMException`
becomes `{}`, so that no error is classified and a refused permission is a backend
error; a setup that fails late leaves tracks and elements; metadata may be waited for
for ever; there is no release hook; `emit_frames`, `preview_only` and most initial
controls are ignored; `AppliedControls` reports the request (`lib.rs:488-493`). On
either host, focus `Auto` after `Manual` leaves the lens; the default format of
`SessionConfig::new` is refused. The picker's abandoned `open` leaks a descriptor, an
abandoned dialog an entry; `allow_multiple`, `overwrite_prompt` and MIME filters are
ignored; `save_file` makes the file "so downstream `open_write` always succeeds", which
a removal undoes; `into_inner` says that the number is released when the file is
dropped, and it is at once.

*Plugins.* An updater that outlives its banner sends the new banner's rectangle with
the old handle (`slot.rs:277`). Shares: duplicates or missing files after a crash or
beside a second drain; lost with an app that dies after the entry is removed; a
`.partial` directory stays. Data store: `a/b` and `a:b` share a file (`lib.rs:38`); a
persist that fails leaves the change in memory; no `fsync`; a Windows copy may be cut
short. Services: the generated iOS handler calls `on_start` with an empty payload
(`build/src/ios.rs:182`), so that it never starts; its expiration handler sends no
`Cancel`; an `on_stop` that overtakes `on_start` leaves the service running; Android's
`onDestroy` launches `on_stop` on a scope it cancels. Vault: calls on one
alias may overlap. Two stores on Windows share the staged file: against "Write-then-rename
so a crash never leaves a torn secret" (`vault.rs:78`) one may rename what the other is
writing, and what is left is empty, torn or the other's. A read on Windows has the file
before it waits for Hello, and answers with a secret that was overwritten or deleted
meanwhile; one that finds the key gone removes the file (`vault.rs:119`), which may be one
that was stored since. `store` replaces the key
whenever it cannot be opened, and the old secret is lost even if the store fails;
macOS deletes before it adds; a second Linux verification at once gets `NotAvailable`;
`delete_secret` "never shows UI", the keyring may. Publishers: on Windows the first day
of the week is off for Monday, battery flag 255 counts as charging and the loopback
adapter as online; on Linux `C.UTF-8` yields the language `c`; a sampler that gives
nothing leaves the old value; two publishers of one channel compare each with its own
last value, so that one of them may leave a stale one.

*Windows and pens.* Failing to subclass a window removes all its entries; on macOS a
monitor that could not be installed is taken for installed (`macos.rs:210`); a second
client of a window gets closed streams; the Wayland pump ignores which surface an event
is for (`linux_wayland.rs:324`); Windows never sends `ButtonChanged`; libinput keys
buttons by serial; down and up in one Wayland frame are lost; a device plugged while
its pen is near is heard from the next enter or press.

## 7. Not modelled

* `crates/build`, `crates/plugins-schema`: batch programs from manifests to text.
* `examples`, `docs`: read as users and documentation.
* Plugin contracts that only wrap calls and streams: opener, sign-in, live activity,
  scanner, deep links; the phones' hosts of camera, biometric, pen.
* Observers and publishers of Android and iOS: platform callbacks that publish, which
  the producers of `EarlyEvents` and the observer of `StatePublishers` stand for.
* `main_thread.rs`: a posted closure.
* In modules that exist: the flag and channel inside a `CancelToken` (a set member:
  once set, seen by all); JNI attachment and exceptions; contents and sizes of payloads,
  of files, of pictures, positions and pressures; the bincode form of an envelope to
  another process; the worker's `Unimplemented` before registration, since
  `register_host` attaches before it inserts; the constraints sent to a browser, and
  the attributes of windows. `notify` keeps no state beyond the frame.

## 8. Plan

Modelled so far: the core runtime and its transports, both phones' runtimes, the
remote bridge, the macros, and the plugins with a protocol of their own. Next:

1. Proofs: the strokes of the pens, with rows that are described by positions.
2. Abstract specifications: a first-in-first-out channel with an end for
   `StreamRouting`; a map from clients to instances for `InstanceRouting`; a directory
   that is drained once for `ShareHandoff`.
3. The phones' camera hosts, live activities.
