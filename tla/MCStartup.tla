------------------------------ MODULE MCStartup ------------------------------
(* How a process comes up, and the events published before anybody listens,  *)
(* each on its own: part says which.                                         *)
EXTENDS EarlyEvents

CONSTANTS Starters, App, Expected, Remotes, Others, Width, Bodies, Empty

VARIABLES
  part,
  os, env, eager, appInfo, at, global, hosts, declared, remotes, enforce, sink, pump, state,
  paths, backend, hasty, last

Hosts == <<"hosted", "service">>

\* Everything there, a part of it, nothing but a user's name.
Environments ==
  {{"HOME", "USERPROFILE", "XDG_CACHE_HOME", "APPDATA", "assets baked", "external",
    "ApplicationSupport", "Caches", "Document", "Library"},
   {"USER", "HOMEDRIVE", "HOMEPATH", "XDG_DATA_HOME", "LOCALAPPDATA", "ISTMO_ASSETS_DIR", "Caches"},
   {"whoami", "USERNAME", "XDG_RUNTIME_DIR", "assets beside exe"}}

Keys ==
  {<<>>, <<"a">>, <<"a", "..", "..", "a">>, <<"/", "a">>, <<"C:", "a">>, <<".", "a">>, <<".">>,
   <<"plugin:x", "a">>, <<"a", "\\", "b">>}

S == INSTANCE Startup

ASSUME StartupsAssumption == S!StartupAssumption

startupVars == <<os, env, eager, appInfo, at, global, hosts, declared, remotes, enforce, sink,
                 pump, state, paths, backend, hasty, last>>
bothVars == <<part, vars, startupVars>>

BothInit ==
  /\ part \in {"events", "startup"}
  /\ Init /\ (part # "events" => separate = CHOOSE m \in StarterModes : TRUE)
  /\ S!Init /\ (part # "startup" => /\ os = "android" /\ eager = FALSE /\ appInfo = App
                                   /\ env = CHOOSE e \in Environments : TRUE)

Events(A) == part = "events" /\ A /\ UNCHANGED <<part, startupVars>>

BothNext ==
  \/ Events(Next)
  \/ part = "startup" /\ S!Next /\ UNCHANGED <<part, vars>>

BothSpec ==
  /\ BothInit /\ [][BothNext]_bothVars
  /\ \A t \in Threads : WF_bothVars(Events(SubmitStep(t)))
  /\ WF_bothVars(Events(StartStep))
-----------------------------------------------------------------------------
\* The process comes up once and whole, and the app finds what is its own.
StartsWhole == S!StartsWhole

\* A frame that crosses to the platform and back, or comes from it, means the same.
FramesKeepMeaning == S!FramesKeepMeaning

=============================================================================
