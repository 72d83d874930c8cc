------------------------------- MODULE Startup -------------------------------
(***************************************************************************)
(* How a process of the app comes up: nativeStart and installContext on    *)
(* Android, istmo_ios_start on iOS, main on a desktop, and what the app    *)
(* finds meanwhile.  Everything lies in cells that are set once, by whom-  *)
(* ever comes first: the runtime (crates/core/src/runtime.rs), the state   *)
(* of the transport (state.rs), the app's identity, the directories and    *)
(* the asset backend (path.rs, assets.rs).                                 *)
(*                                                                         *)
(* The starters are threads of the platform; the app's own code runs once  *)
(* a host it gave to istmo::runtime! was constructed, on a desktop from    *)
(* the beginning.                                                          *)
(***************************************************************************)
EXTENDS AppDirectories, Integers, FiniteSets

CONSTANTS
  Starters,      \* threads that start the runtime
  App,           \* the app's name
  Hosts,         \* the plugins Rust hosts, as runtime! registers them, in order
  Expected,      \* the plugins it expects
  Remotes,       \* those it declares as remote
  Others,        \* plugins it does not name
  Environments,  \* sets of what the environment may have
  Keys,          \* paths the app reads assets at
  Width, Bodies, Empty  \* of the frames that cross to the platform

INSTANCE NativeEntry

\* The names of a root of assets, or of a home.
Names ==
  {"/", "home", "Users", "root", "apk", "bundle", "baked", "exe", "assets", "istmo-core", App}
    \cup UNION Environments

Backends == [for : Mobile \cup {"desktop"}, root : Seq(Names)]

\* The directories that are an app's own; a desktop's are named after it, and
\* nothing else in their paths is.
Kept == {"data_dir", "data_local_dir", "config_dir", "config_local_dir", "state_dir",
         "preference_dir", "documents_dir"}
Wiped == {"cache_dir", "temp_dir"}
Owned == (Kept \ {"documents_dir"}) \cup {"cache_dir"}

AppAssumption ==
  /\ App \notin {None, "/", ".", "..", "istmo-core"}
  /\ \A o \in Desktop, e \in Environments, d \in Owned :
       App \notin Range(resolve_for_os(o, e, None)[d])

StartupAssumption ==
  /\ NativeEntryAssumption /\ AppAssumption
  /\ IsInjective(Hosts) /\ Range(Hosts) \cap Remotes = {}
  /\ None \notin Starters \cup 0..(8 + Len(Hosts)) /\ None \notin Seq(Names) /\ None \notin Backends

Plugins == Range(Hosts) \cup Expected \cup Remotes \cup Others
Scopes == {"app", "plugin:x"}

VARIABLES
  os,        \* the platform of this process
  env,       \* what its environment has
  eager,     \* whether the first host's constructor reads a path and an asset
  appInfo,   \* APP_INFO_OVERRIDE and APP_ASSETS_OVERRIDE
  at,        \* how many steps of its start each starter took, None if refused
  global,    \* the starter whose runtime is GLOBAL
  hosts,     \* the plugins with a registered dispatcher
  declared, remotes, enforce, sink,
  pump,      \* "none", "running" or "stopped"
  state,     \* whether STATE holds the pump's handles
  paths,     \* PATHS
  backend,   \* BACKEND, and where it looks
  hasty,     \* the cells the app set before the platform did
  last       \* what the app or the platform did last, and what came of it

cells == <<appInfo, paths, backend, hasty>>
registry == <<hosts, declared, remotes, enforce, sink>>
transport == <<global, pump, state>>
vars == <<os, env, eager, at, cells, registry, transport, last>>

TypeOK ==
  /\ os \in Mobile \cup Desktop /\ env \in Environments /\ eager \in BOOLEAN
  /\ appInfo \in {None, App} /\ global \in Starters \cup {None}
  /\ at \in [Starters -> 0..(8 + Len(Hosts)) \cup {None}]
  /\ hosts \subseteq Range(Hosts) /\ declared \in {{}, Expected} /\ remotes \in {{}, Remotes}
  /\ enforce \in BOOLEAN /\ sink \in BOOLEAN /\ state \in BOOLEAN
  /\ pump \in {"none", "running", "stopped"}
  /\ backend \in Backends \cup {None} /\ hasty \subseteq {"paths", "assets"}

\* The static initializer of runtime! ran at load, unless the linker dropped it.
Init ==
  /\ os \in Mobile \cup Desktop /\ env \in Environments /\ eager \in BOOLEAN
  /\ appInfo \in {None, App}
  /\ at = [s \in Starters |-> 0] /\ global = None
  /\ hosts = {} /\ declared = {} /\ remotes = {} /\ enforce = FALSE /\ sink = FALSE
  /\ pump = "none" /\ state = FALSE
  /\ paths = None /\ backend = None /\ hasty = {} /\ last = None

\* The steps of a start.  Kotlin installs the app's Context when nativeStart is
\* back; a desktop's main registers its hosts by hand and drains the channel.
Steps ==
  LET register == [i \in DOMAIN Hosts |-> Hosts[i]] IN
  CASE os = "android" ->
         <<"init", "configure">> \o register
           \o <<"finish", "pump", "sink", "state", "assets", "paths">>
    [] os = "ios" ->
         <<"init", "configure">> \o register \o <<"finish", "assets", "paths", "pump", "state">>
    [] OTHER -> <<"init">> \o register \o <<"pump">>

DoneAt(s) == at[s] = Len(Steps)
StartedUp == \E s \in Starters : DoneAt(s)

\* Starter s takes the step of that name, and its start goes on.
Takes(s, step) ==
  /\ at[s] \in 0..(Len(Steps) - 1) /\ Steps[at[s] + 1] = step
  /\ at' = [at EXCEPT ![s] = @ + 1]
  /\ UNCHANGED <<os, env, eager, last>>
-----------------------------------------------------------------------------
PlatformBackend ==
  [for |-> os, root |-> IF os = "android" THEN apk ELSE main_bundle_path]

\* What reading a directory, or an asset, makes of the cells.
PathsRead == Or(paths, default_paths(os, env, appInfo))
BackendRead == Or(backend, [for |-> "desktop", root |-> resolve_root(env, appInfo)])

Reads ==
  /\ paths' = PathsRead /\ backend' = BackendRead
  /\ hasty' = hasty \cup (IF paths = None THEN {"paths"} ELSE {})
                    \cup (IF backend = None THEN {"assets"} ELSE {})

\* Runtime::init: the second start fails before it configures anything.
RuntimeInit(s) ==
  /\ at[s] = 0
  /\ IF global = None
     THEN global' = s /\ at' = [at EXCEPT ![s] = 1]
     ELSE global' = global /\ at' = [at EXCEPT ![s] = None]
  /\ UNCHANGED <<os, env, eager, cells, registry, pump, state, last>>

\* __istmo_configure_runtime up to the hosts.
Configure(s) ==
  /\ Takes(s, "configure")
  /\ appInfo' = Or(appInfo, App)
  /\ declared' = Expected /\ remotes' = Remotes
  /\ UNCHANGED <<paths, backend, hasty, hosts, enforce, sink, transport>>

\* The host is constructed, and then registered.
register_host(s) == \E i \in DOMAIN Hosts :
  /\ Takes(s, Hosts[i])
  /\ IF i = 1 /\ eager THEN Reads ELSE UNCHANGED <<paths, backend, hasty>>
  /\ hosts' = hosts \cup {Hosts[i]}
  /\ UNCHANGED <<appInfo, declared, remotes, enforce, sink, transport>>

Finish(s) ==
  /\ Takes(s, "finish") /\ enforce' = TRUE
  /\ UNCHANGED <<cells, hosts, declared, remotes, sink, transport>>

SpawnPump(s) ==
  /\ Takes(s, "pump") /\ pump' = "running"
  /\ UNCHANGED <<cells, registry, global, state>>

install_remote_envelope_sink(s) ==
  /\ Takes(s, "sink") /\ sink' = TRUE
  /\ UNCHANGED <<cells, hosts, declared, remotes, enforce, transport>>

InstallState(s) ==
  /\ Takes(s, "state") /\ state' = TRUE
  /\ UNCHANGED <<cells, registry, global, pump>>

install_backend(s) ==
  /\ Takes(s, "assets") /\ backend' = Or(backend, PlatformBackend)
  /\ UNCHANGED <<appInfo, paths, hasty, registry, transport>>

install_paths(s) ==
  /\ Takes(s, "paths")
  /\ paths' = Or(paths, IF os = "android" THEN install_from_dirs(env) ELSE resolve_ios(env))
  /\ UNCHANGED <<appInfo, backend, hasty, registry, transport>>

\* nativeShutdown and istmo_ios_shutdown: nothing happens until the start is through.
Shutdown ==
  /\ os \in Mobile /\ state /\ pump = "running"
  /\ pump' = "stopped"
  /\ UNCHANGED <<os, env, eager, at, cells, registry, global, state, last>>
-----------------------------------------------------------------------------
AppRuns == os \in Desktop \/ hosts # {}

ReadDirectory ==
  /\ AppRuns /\ last = None
  /\ paths' = PathsRead /\ hasty' = hasty \cup IF paths = None THEN {"paths"} ELSE {}
  /\ last' = [did |-> "dirs", saw |-> PathsRead]
  /\ UNCHANGED <<os, env, eager, at, appInfo, backend, registry, transport>>

\* read and open, of the app or of a plugin's assets.
ReadAsset(scope, raw) ==
  LET key == normalise_key(os, raw)
      opened == CASE BackendRead.for = "android" -> open_android(scope, key)
                  [] BackendRead.for = "ios" -> open_ios(scope, key)
                  [] OTHER -> resolve(BackendRead.root, scope, key)
  IN /\ AppRuns /\ last = None
     /\ IF key = None
        THEN last' = [did |-> "asset", scope |-> scope, opened |-> None]
             /\ UNCHANGED <<backend, hasty>>
        ELSE /\ last' = [did |-> "asset", scope |-> scope, opened |-> opened]
             /\ backend' = BackendRead
             /\ hasty' = hasty \cup IF backend = None THEN {"assets"} ELSE {}
     /\ UNCHANGED <<os, env, eager, at, appInfo, paths, registry, transport>>

\* A client is acquired: there has to be a runtime, and the plugin is declared
\* once the runtime enforces it.
Acquire(p) ==
  /\ AppRuns /\ last = None
  /\ last' = [did |-> "acquire", plugin |-> p, started |-> StartedUp,
              ok |-> global # None /\ (enforce => p \in declared)]
  /\ UNCHANGED <<os, env, eager, at, cells, registry, transport>>

\* And a call made with it: to the host, to the remote process, or to the pump.
Call ==
  /\ last # None /\ last.did = "acquire" /\ last.ok
  /\ last' = [did |-> "call", plugin |-> last.plugin, acquired |-> last.started,
              started |-> StartedUp,
              to |-> IF last.plugin \in hosts THEN "host"
                     ELSE IF sink /\ last.plugin \in remotes THEN "remote"
                     ELSE "platform"]
  /\ UNCHANGED <<os, env, eager, at, cells, registry, transport>>

\* The pump hands a frame to the platform.
DeliverFrame(frame) ==
  /\ os \in Mobile /\ pump = "running" /\ last = None
  /\ last' = [did |-> "deliver", frame |-> frame,
              args |-> IF os = "android" THEN AndroidDeliver(frame) ELSE IosDeliver(frame)]
  /\ UNCHANGED <<os, env, eager, at, cells, registry, transport>>

\* The platform hands back a frame with the numbers and the tag it got.
SubmitFrame ==
  /\ last # None /\ last.did = "deliver" /\ last.frame \in Frames
  /\ last' = [did |-> "submit", frame |-> last.frame,
              back |-> IF os = "android" THEN AndroidEntry(last.args) ELSE IosEntry(last.args)]
  /\ UNCHANGED <<os, env, eager, at, cells, registry, transport>>

\* It publishes an early event, with whatever capacity.
SubmitEarly(frame) ==
  /\ os \in Mobile /\ last = None
  /\ last' = [did |-> "submit", frame |-> frame,
              back |-> IF frame.keeps = "latest"
                       THEN IF os = "android" THEN submit_early_latest(frame.body)
                            ELSE istmo_ios_submit_early_latest(frame.body)
                       ELSE IF os = "android" THEN submit_early_queue(frame.capacity, frame.body)
                       ELSE istmo_ios_submit_early_queue(frame.capacity, frame.body)]
  /\ UNCHANGED <<os, env, eager, at, cells, registry, transport>>

Forget ==
  /\ last # None /\ last' = None
  /\ UNCHANGED <<os, env, eager, at, cells, registry, transport>>

Next ==
  \/ \E s \in Starters :
       RuntimeInit(s) \/ Configure(s) \/ register_host(s) \/ Finish(s) \/ SpawnPump(s)
         \/ install_remote_envelope_sink(s) \/ InstallState(s) \/ install_backend(s)
         \/ install_paths(s)
  \/ Shutdown
  \/ ReadDirectory \/ \E scope \in Scopes, raw \in Keys : ReadAsset(scope, raw)
  \/ \E p \in Plugins : Acquire(p)
  \/ Call
  \/ \E frame \in Frames \cup SentFrames : DeliverFrame(frame)
  \/ SubmitFrame
  \/ \E frame \in EarlyFrames : SubmitEarly(frame)
  \/ Forget

Spec == Init /\ [][Next]_vars
-----------------------------------------------------------------------------
\* Only one starter gets past Runtime::init, and whoever can see the pump run and
\* the start done can stop it.
OneStart ==
  /\ Cardinality({s \in Starters : at[s] \notin {0, None}}) <= 1
  /\ os \in Mobile /\ StartedUp => state /\ pump # "none" /\ hosts = Range(Hosts)

\* A call made after the start, with a client acquired after it, goes where the
\* runtime was told: a hosted plugin's to its host, a remote one's over the
\* bridge on Android, and on the mobile platforms no undeclared plugin is called.
CallsGoWhereTold ==
  last # None /\ last.did = "call" /\ last.started /\ last.acquired =>
    /\ last.to = (IF last.plugin \in Range(Hosts) THEN "host"
                  ELSE IF os = "android" /\ last.plugin \in Remotes THEN "remote"
                  ELSE "platform")
    /\ os \in Mobile => last.plugin \in Expected

\* No part of a directory the app keeps things in is in one that may be wiped, as
\* long as the platform has such directories, and on a desktop no two apps share them.
DirectoriesApart(dirs) ==
  /\ \A k \in Kept, w \in Wiped : ~IsPrefix(dirs[w], dirs[k]) /\ ~IsPrefix(dirs[k], dirs[w])
  /\ os \in Desktop =>
       \A d \in Owned : App \in Range(dirs[d]) <=> appInfo = App

\* What the app reads is of its platform and its name unless it reads too early:
\* a mobile app before the start is through, a desktop one never.
ReadsItsOwn ==
  /\ os \in Mobile /\ StartedUp =>
       /\ "paths" \notin hasty =>
            paths = (IF os = "android" THEN install_from_dirs(env) ELSE resolve_ios(env))
       /\ "assets" \notin hasty => backend = PlatformBackend
  /\ paths # None /\ (os = "ios" => {"ApplicationSupport", "Caches", "Document", "Library"} \subseteq env)
       /\ (os \in Mobile => "paths" \notin hasty)
     => DirectoriesApart(paths)

\* An asset is opened inside the directory of its scope, whichever backend opens it.
AssetsInside ==
  last # None /\ last.did = "asset" /\ last.opened # None =>
    /\ IsStrictPrefix(backend.root \o ScopeDir(last.scope), last.opened)
    /\ Range(last.opened) \cap {"..", "."} = {}
    /\ \A i \in 2..Len(last.opened) : last.opened[i] # "/"

\* The process comes up once and whole, and the app finds what is its own.
StartsWhole == OneStart /\ CallsGoWhereTold /\ ReadsItsOwn /\ AssetsInside

\* A frame that crosses to the platform and back, or comes from it, means the same
\* afterwards, on both platforms: numbers with the top bit set, no instance as
\* zero, the reasons a stream ends for.
FramesKeepMeaning ==
  last # None /\ last.did = "submit" => last.back = last.frame
=============================================================================
