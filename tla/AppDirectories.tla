---------------------------- MODULE AppDirectories ----------------------------
(***************************************************************************)
(* Where a process of the app keeps its files and finds its assets, on     *)
(* each platform (crates/core/src/path.rs, path/desktop.rs, assets.rs,     *)
(* assets/desktop.rs, and path.rs and assets.rs of crates/android and      *)
(* crates/ios).                                                            *)
(*                                                                         *)
(* A path is a sequence of names, absolute when the first is "/".  Of the  *)
(* environment only the set env of what is there counts: the variables     *)
(* that are set, each to a directory of its own, and the directories that  *)
(* exist.                                                                  *)
(***************************************************************************)
EXTENDS Naturals, SequencesExt

CONSTANT None

Mobile == {"android", "ios"}
Desktop == {"linux", "macos", "windows"}

env_path(env, name) == IF name \in env THEN <<"/", name>> ELSE None

Or(path, fallback) == IF path = None THEN fallback ELSE path

Temp == <<"/", "tmp">>

\* The home directory: the variable, else by the user's name, as the
\* environment, id or whoami tell it.
home_dir(os, env) ==
  LET users == IF os = "macos" THEN <<"/", "Users">> ELSE <<"/", "home">> IN
  IF os = "windows"
  THEN IF "USERPROFILE" \in env THEN env_path(env, "USERPROFILE")
       ELSE IF {"HOMEDRIVE", "HOMEPATH"} \subseteq env THEN <<"/", "HOMEDRIVE", "HOMEPATH">>
       ELSE IF "USERNAME" \in env THEN <<"/", "Users", "USERNAME">>
       ELSE None
  ELSE IF "HOME" \in env THEN env_path(env, "HOME")
       ELSE IF "USER" \in env THEN users \o <<"USER">>
       ELSE IF "id says root" \in env THEN <<"/", "root">>
       ELSE IF "whoami" \in env THEN users \o <<"whoami">>
       ELSE None

\* The directories a platform hands to the runtime.
PlatformPaths(data, dataLocal, config, configLocal, cache, state, preference, documents, runtime) ==
  [data_dir |-> data, data_local_dir |-> dataLocal, config_dir |-> config,
   config_local_dir |-> configLocal, cache_dir |-> cache, state_dir |-> state,
   preference_dir |-> preference, documents_dir |-> documents, runtime_dir |-> runtime,
   temp_dir |-> Temp]

PathsOfLinux(env, id) ==
  LET home == Or(home_dir("linux", env), <<"/">>)
      xdg(name, fallback) == Or(env_path(env, name), home \o fallback)
      data == xdg("XDG_DATA_HOME", <<".local", "share">>) \o <<id>>
      config == xdg("XDG_CONFIG_HOME", <<".config">>) \o <<id>>
  IN PlatformPaths(data, data, config, config,
       xdg("XDG_CACHE_HOME", <<".cache">>) \o <<id>>,
       xdg("XDG_STATE_HOME", <<".local", "state">>) \o <<id>>,
       config, xdg("XDG_DOCUMENTS_DIR", <<"Documents">>),
       Or(env_path(env, "XDG_RUNTIME_DIR"), Temp))

PathsOfMac(env, id) ==
  LET home == Or(home_dir("macos", env), <<"/">>)
      support == home \o <<"Library", "Application Support", id>>
  IN PlatformPaths(support, support, support, support, home \o <<"Library", "Caches", id>>,
       support, home \o <<"Library", "Preferences", id>>, home \o <<"Documents">>, Temp)

\* Without any of the variables the directories are relative ones.
PathsOfWindows(env, id) ==
  LET home == Or(home_dir("windows", env), <<>>)
      roaming == Or(env_path(env, "APPDATA"), home \o <<"AppData", "Roaming">>) \o <<id>>
      local == Or(env_path(env, "LOCALAPPDATA"), home \o <<"AppData", "Local">>) \o <<id>>
  IN PlatformPaths(roaming \o <<"data">>, local \o <<"data">>, roaming \o <<"config">>,
       local \o <<"config">>, local \o <<"cache">>, local \o <<"state">>,
       roaming \o <<"config">>, Or(env_path(env, "USERPROFILE"), home) \o <<"Documents">>, Temp)

\* On the mobile platforms, before they install their own.
PathsOfOthers == PlatformPaths(Temp, Temp, Temp, Temp, Temp, Temp, Temp, Temp, Temp)

resolve_for_os(os, env, id) ==
  CASE os = "linux" -> PathsOfLinux(env, id)
    [] os = "macos" -> PathsOfMac(env, id)
    [] os = "windows" -> PathsOfWindows(env, id)
    [] OTHER -> PathsOfOthers

\* Variant: whatever the app set is forgotten.
default_paths_of_core(os, env, appInfo) == resolve_for_os(os, env, "istmo-core")

\* The name that parts the directories of one app from another's: what the build
\* baked into istmo-core is only its own.
default_paths(os, env, appInfo) ==
  resolve_for_os(os, env, IF appInfo = None THEN "istmo-core" ELSE appInfo)

\* What Kotlin passes: the directories of the app's Context.
install_from_dirs(env) ==
  LET files == <<"/", "files">>
      config == files \o <<"config">>
      cache == <<"/", "cache">>
  IN PlatformPaths(files, files, config, config, cache, <<"/", "no_backup">>,
       files \o <<"preferences">>, Or(env_path(env, "external"), files \o <<"documents">>), cache)

\* Apple's directories, each the temporary one where the file manager has none.
dir_for(env, kind) == Or(env_path(env, kind), Temp)

resolve_ios(env) ==
  LET support == dir_for(env, "ApplicationSupport")
  IN PlatformPaths(support, support, support, support, dir_for(env, "Caches"), support,
       dir_for(env, "Library") \o <<"Preferences">>, dir_for(env, "Document"), Temp)
-----------------------------------------------------------------------------
\* The number with n - 1 smaller ones in S.
Nth(S, n) == CHOOSE i \in S : Cardinality({j \in S : j < i}) = n - 1

\* What of a path as the program wrote it is no name: the directory itself, and a
\* backslash where it parts two names, as on Windows; elsewhere it joins them to one.
Skipped(os) == {"."} \cup IF os = "windows" THEN {"\\"} ELSE {}

\* The bundle key of a path: no parent, no root and no drive, and not empty.
normalise_key(os, raw) ==
  LET kept == {i \in DOMAIN raw : raw[i] \notin Skipped(os)}
      barred == {"..", "/"} \cup IF os = "windows" THEN {"C:"} ELSE {}
  IN IF kept = {} \/ \E i \in kept : raw[i] \in barred THEN None
     ELSE [n \in 1..Cardinality(kept) |-> raw[Nth(kept, n)]]

\* The directory the files of the desktop's backend are in.
resolve_root(env, appInfo) ==
  IF "ISTMO_ASSETS_DIR" \in env THEN env_path(env, "ISTMO_ASSETS_DIR")
  ELSE IF "assets baked" \in env /\ appInfo # None THEN <<"/", "baked">>
  ELSE IF "assets beside exe" \in env THEN <<"/", "exe", "assets">>
  ELSE <<"/", IF appInfo = None THEN "istmo-core" ELSE appInfo, "assets">>

apk == <<"apk">>
main_bundle_path == <<"/", "bundle">>

\* The directory of a scope, under the root: the app's own assets lie at the root.
ScopeDir(scope) == IF scope = "app" THEN <<>> ELSE <<scope>>

resolve(root, scope, key) == root \o ScopeDir(scope) \o key

open_android(scope, key) == apk \o ScopeDir(scope) \o key

open_ios(scope, key) == main_bundle_path \o ScopeDir(scope) \o key
=============================================================================
