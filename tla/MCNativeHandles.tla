-------------------------- MODULE MCNativeHandles --------------------------
\* Two cameras with a session each and a file; the frames of one session beside
\* a file; and by themselves the sessions of one camera host, and the files of the
\* desktop picker with their readers and writers: part says which.
EXTENDS NativeHandles, TLC

CONSTANTS camA, camB, picker, s1, s2, f1, front, o1, o2,
          Backends, Sessions, Filmed, Configs, Asked, Sizes, Thrown, MaxStamped,
          Paths, Dialogs, Opens, KindsOf, None

VARIABLES part, backend, access, prompt, stage, caller, config, tracks, elements,
          timers, sessions, picture, size, camera, wanted, applied, pending,
          queue, stamped, missed, still, hooked, purged, disk, files, next_id, dialog,
          owners, letgo, open, fds

HostOfMC == s1 :> camA @@ s2 :> camB @@ f1 :> picker
KindsOfMC == o1 :> {"read", "path"} @@ o2 :> {"write"}

D == INSTANCE CameraData

Small == <<2, 1>>
Turned == <<1, 2>>

\* What SessionConfig::new gives, which no host takes, and a preview that
\* asks for more than it gets.
ConfigsMC ==
  {D!SessionConfig(front),
   D!preview_only(D!with_initial_controls(D!with_target_fps(D!with_resolution(
     D!with_pixel_format(D!SessionConfig(front), "Bgra8"), Small), 30),
     [D!Ask("zoom", 15) EXCEPT !.ev = 20]))}

AskedMC == {[D!Ask("focus", D!FocusMode("Manual", 3)) EXCEPT !.white_balance = "Cloudy"]}

SizesMC == {Small, Turned}
ThrownMC == {[name |-> "NotAllowedError", plain |-> TRUE], [name |-> "NotFoundError", plain |-> FALSE]}

C == INSTANCE CameraSessions WITH
       table <- sessions, seq <- stamped, dropped <- missed, Watched <- Filmed, MaxFrames <- MaxStamped

ASSUME SessionsAssumption == C!CameraSessionsAssumption

F == INSTANCE FilePicker

ASSUME FilesAssumption == F!FilePickerAssumption

cameraVars ==
  <<backend, access, prompt, stage, caller, config, tracks, elements, timers,
    sessions, picture, size, camera, wanted, applied, pending, queue, stamped,
    missed, still>>
fileVars == <<hooked, purged, disk, files, next_id, dialog, owners, letgo, open, fds>>
allVars == <<part, vars, cameraVars, fileVars>>

AllInit ==
  /\ part \in {"handles", "frames", "sessions", "files"} /\ Init /\ C!Init /\ F!Init
  /\ part # "sessions" => backend = "desktop" /\ access = "granted"
  /\ part # "files" => hooked /\ disk = {}

AllNext ==
  \/ part = "handles" /\ Next /\ UNCHANGED <<seq, part, cameraVars, fileVars>>
  \/ part = "frames" /\ Next /\ client'[s2] = "idle" /\ UNCHANGED <<part, cameraVars, fileVars>>
  \/ part = "sessions" /\ C!Next /\ UNCHANGED <<part, vars, fileVars>>
  \/ part = "files" /\ F!Next /\ UNCHANGED <<part, vars, cameraVars>>

\* No handle is let go while the other parts are looked at: nothing is due.
AllSpec == AllInit /\ [][AllNext]_allVars /\ Fairness
-----------------------------------------------------------------------------
\* A camera runs for its sessions alone, they deliver what their clients were
\* told, and frames that are missing are announced.
SessionsAreTrue == GapIsReported /\ (part = "sessions" => C!CamerasAreHonest)

\* A picked file that somebody owns can be opened, and a descriptor has one
\* owner.
FilesServeOwners == part = "files" => F!FilesStayOpenable
=============================================================================
