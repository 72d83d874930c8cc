--------------------------- MODULE CameraSessions ---------------------------
(***************************************************************************)
(* Sessions of one camera host, the desktop one                            *)
(* (plugins/camera/src/desktop/backend.rs) or the browser one              *)
(* (plugins/camera/src/web.rs), from open to close: what runs for them in  *)
(* the device and in the page, what their clients are told, and the frames *)
(* and stills they give.  The browser host works in turns of one thread,   *)
(* with others between any two; a call whose future is dropped goes on.    *)
(* How the table of the desktop host meets handles and release hooks is in *)
(* NativeHandles; the browser host has no hook.                            *)
(***************************************************************************)
EXTENDS CameraData, FiniteSets

CONSTANTS
  Backends,   \* "desktop", "web"
  Sessions,   \* calls of open, each for at most one session
  Watched,    \* those whose frames, stills and controls are modelled
  Configs,    \* what they may ask for
  Asked,      \* controls that may be applied
  Sizes,      \* sizes a camera's pictures may have
  Thrown,     \* exceptions of getUserMedia
  Depth,      \* frame_pool_depth of the configuration
  MaxFrames   \* bound: frames made for a session

CameraSessionsAssumption ==
  /\ Backends \subseteq {"desktop", "web"}
  /\ Watched \subseteq Sessions /\ Depth \in Nat /\ MaxFrames \in Nat
  /\ Sizes \subseteq Nat \X Nat /\ None \notin Nat
  /\ \A c \in Configs : c.pixel_format \in PixelFormats

VARIABLES
  backend,    \* the host that was registered
  access,     \* what the page's user allows: "prompt", "granted", "denied"
  prompt,     \* request_access: "idle", "asked", or the status it gave
  stage,      \* how far the call of open has come in the host
  caller,     \* "idle", "waiting", "dropped", "served", or the error it got
  config,     \* what was asked for
  tracks,     \* sessions, and the prompt, whose camera is running
  elements,   \* sessions with a video and a canvas in the page
  timers,     \* sessions whose pump is called
  table,      \* WebCamera::sessions, DesktopCamera::sessions
  picture,    \* the size of the pictures the camera makes now
  size,       \* the size the session settled on
  camera,     \* the camera's settings
  wanted,     \* what was last asked of each knob and concerns the camera
  applied,    \* the last answer to apply_controls
  pending,    \* apply_controls that awaits the browser
  queue,      \* the frames in the channel
  seq,        \* frames stamped
  dropped,    \* frames dropped since the last stamp
  still       \* the last still

held == <<tracks, elements, timers, table>>
calls == <<backend, access, prompt, stage, caller, config>>
shown == <<picture, size>>
knobVars == <<camera, wanted, applied, pending>>
frameVars == <<queue, seq, dropped, still>>
cameraVars == <<calls, held, shown, knobVars, frameVars>>

Error == CameraErrors \cup AccessStatus

Init ==
  /\ backend \in Backends /\ access \in {"prompt", "granted", "denied"}
  /\ prompt = "idle"
  /\ stage = [s \in Sessions |-> "idle"] /\ caller = [s \in Sessions |-> "idle"]
  /\ config = [s \in Sessions |-> None]
  /\ tracks = {} /\ elements = {} /\ timers = {} /\ table = {}
  /\ picture = [s \in Sessions |-> <<0, 0>>] /\ size = [s \in Sessions |-> <<0, 0>>]
  /\ camera = [s \in Sessions |-> Default] /\ wanted = [s \in Sessions |-> NoControls]
  /\ applied = [s \in Sessions |-> None] /\ pending = [s \in Sessions |-> None]
  /\ queue = [s \in Sessions |-> <<>>] /\ seq = [s \in Sessions |-> 0]
  /\ dropped = [s \in Sessions |-> 0] /\ still = [s \in Sessions |-> None]

Web == backend = "web"
Desktop == backend = "desktop"

\* The call of open ends with an answer, if there is still who waits.
Answer(s, what) == caller' = [caller EXCEPT ![s] = IF @ = "waiting" THEN what ELSE @]

\* An error travels encoded, and is decoded by the client.
Fails(s, error) == Answer(s, CameraErrorFrom([kind |-> "PluginError", decoded |-> error]))

Stage(s, what) == stage' = [stage EXCEPT ![s] = what]

-----------------------------------------------------------------------------
(* Opening.                                                                *)

\* Both hosts refuse what is not packed, before anything else.
open(s, c) ==
  /\ caller[s] = "idle"
  /\ config' = [config EXCEPT ![s] = c]
  /\ IF c.pixel_format \in Packed
     THEN caller' = [caller EXCEPT ![s] = "waiting"] /\ Stage(s, "asked")
     ELSE caller' = [caller EXCEPT ![s] = "FormatUnsupported"] /\ UNCHANGED stage
  /\ UNCHANGED <<backend, access, prompt, held, shown, knobVars, frameVars>>

\* The sizes a camera may take when it is asked for this format.
Offered(format) == IF format.closest \in Sizes THEN {format.closest} ELSE Sizes

\* The desktop camera opens, with its capture thread, or it does not.
OpenStream(s) ==
  /\ Desktop /\ stage[s] = "asked"
  /\ tracks' = tracks \cup {s} /\ timers' = timers \cup {s}
  /\ \E p \in Offered(requested_format(config[s])) :
       picture' = [picture EXCEPT ![s] = p] /\ size' = [size EXCEPT ![s] = p]
  /\ camera' = [camera EXCEPT ![s] = apply_initial_controls(@, config[s].initial_controls)]
  /\ wanted' = [wanted EXCEPT ![s].zoom = config[s].initial_controls.zoom]
  /\ Stage(s, "running")
  /\ UNCHANGED <<backend, access, prompt, caller, config, elements, table, applied,
                 pending, frameVars>>

OpenStreamFails(s) ==
  /\ Desktop /\ stage[s] = "asked"
  /\ Stage(s, "failed") /\ Fails(s, "Backend")
  /\ UNCHANGED <<backend, access, prompt, config, held, shown, knobVars, frameVars>>

\* The camera is asked for its format; when that fails it is dropped.
CameraFormatFails(s) ==
  /\ Desktop /\ stage[s] = "running"
  /\ tracks' = tracks \ {s} /\ timers' = timers \ {s}
  /\ Stage(s, "failed") /\ Fails(s, "Backend")
  /\ UNCHANGED <<backend, access, prompt, config, elements, table, shown, knobVars, frameVars>>

\* A page that is not allowed gets no stream, and for no other reason; the
\* second name is that of older browsers.
Refuses(err) == err.name \in {"NotAllowedError", "PermissionDeniedError"}

Refusal(err) ==
  /\ access = "denied" => Refuses(err)
  /\ access = "granted" => ~Refuses(err)
  /\ access' = IF Refuses(err) THEN "denied" ELSE access

\* getUserMedia has no stream: the user refuses, or there is no such camera.
GetUserMediaFails(s, err) ==
  /\ Web /\ stage[s] = "asked"
  /\ Refusal(err)
  /\ Stage(s, "failed") /\ Fails(s, classify_get_user_media_error(err))
  /\ UNCHANGED <<backend, prompt, config, held, shown, knobVars, frameVars>>

\* The size of the video; a video without one is taken for a dot.
SizeOf(s) == [size EXCEPT ![s] =
  <<IF picture[s][1] < 1 THEN 1 ELSE picture[s][1],
    IF picture[s][2] < 1 THEN 1 ELSE picture[s][2]>>]

\* It has one, which runs from now on.
GivesStream(s) ==
  /\ Web /\ stage[s] = "asked" /\ access # "denied"
  /\ access' = "granted"
  /\ tracks' = tracks \cup {s}

\* In the same turn the elements are put into the page.
install_dom(s) ==
  /\ GivesStream(s)
  /\ elements' = elements \cup {s}
  /\ \E p \in Sizes : picture' = [picture EXCEPT ![s] = p]
  /\ Stage(s, "metadata")
  /\ UNCHANGED <<backend, prompt, caller, config, timers, table, size, knobVars, frameVars>>

\* That fails on the way: the stream is forgotten and goes on running, and
\* so may be what is in the page.
InstallDomFails(s) ==
  /\ GivesStream(s)
  /\ elements' \in {elements, elements \cup {s}}
  /\ Stage(s, "lost") /\ Fails(s, "Backend")
  /\ UNCHANGED <<backend, prompt, config, timers, table, shown, knobVars, frameVars>>

\* Variant: a session is sent whether or not somebody waits for it.
MetadataForCallers(s) ==
  /\ Web /\ stage[s] = "metadata"
  /\ size' = SizeOf(s)
  /\ timers' = timers \cup {s}
  /\ Stage(s, "sent")
  /\ UNCHANGED <<backend, access, prompt, caller, config, tracks, elements, table,
                 picture, knobVars, frameVars>>

\* The size is known: the pump is started and the session sent to the
\* caller.  Without one it is dropped, and Drop lets everything go.
wait_for_metadata(s) ==
  /\ Web /\ stage[s] = "metadata"
  /\ size' = SizeOf(s)
  /\ IF caller[s] = "waiting"
     THEN Stage(s, "sent") /\ timers' = timers \cup {s} /\ UNCHANGED <<tracks, elements>>
     ELSE /\ Stage(s, "failed") /\ tracks' = tracks \ {s} /\ elements' = elements \ {s}
          /\ UNCHANGED timers
  /\ UNCHANGED <<backend, access, prompt, caller, config, table, picture, knobVars, frameVars>>

\* The interval is refused, with the same consequence as above.
SetIntervalFails(s) ==
  /\ Web /\ stage[s] = "metadata"
  /\ size' = SizeOf(s)
  /\ Stage(s, "lost") /\ Fails(s, "Backend")
  /\ UNCHANGED <<backend, access, prompt, config, held, picture, knobVars, frameVars>>

\* The caller's turn: the session goes into the table.
Insert(s) ==
  /\ stage[s] = IF Web THEN "sent" ELSE "running"
  /\ caller[s] = "waiting"
  /\ table' = table \cup {s}
  /\ Stage(s, "open") /\ Answer(s, "served")
  /\ UNCHANGED <<backend, access, prompt, config, tracks, elements, timers, shown,
                 knobVars, frameVars>>

\* What Drop for WebSessionEntry, or for CallbackCamera, lets go.
DropEntries(gone) ==
  /\ timers' = timers \ gone /\ tracks' = tracks \ gone /\ elements' = elements \ gone

\* The future of open is dropped, and a session that was sent with it.  On
\* the desktop it never waits.
Abandon(s) ==
  /\ Web /\ caller[s] = "waiting"
  /\ caller' = [caller EXCEPT ![s] = "dropped"]
  /\ IF stage[s] = "sent" THEN DropEntries({s}) /\ Stage(s, "failed")
     ELSE UNCHANGED <<timers, tracks, elements, stage>>
  /\ UNCHANGED <<backend, access, prompt, config, table, shown, knobVars, frameVars>>

-----------------------------------------------------------------------------
(* Closing, and permissions.                                               *)

close(s) ==
  /\ stage[s] = "open" /\ s \in table
  /\ table' = table \ {s} /\ DropEntries({s})
  /\ Stage(s, "closed")
  /\ UNCHANGED <<backend, access, prompt, caller, config, shown, knobVars, frameVars>>

\* A stream is opened for the sake of the prompt, and stopped in the turn in
\* which it comes.  The desktop asks nobody.
request_access ==
  /\ prompt = "idle"
  /\ prompt' = IF Desktop THEN "Granted" ELSE "asked"
  /\ UNCHANGED <<backend, access, stage, caller, config, held, shown, knobVars, frameVars>>

\* An answer by which a refusal is known is one that was thrown as a string.
PromptAnswered(err) ==
  /\ prompt = "asked"
  /\ \/ access # "denied" /\ access' = "granted" /\ prompt' = "Granted"
     \/ /\ Refusal(err)
        /\ prompt' = IF classify_get_user_media_error(err) = "PermissionDenied"
                     THEN "Denied" ELSE "Backend"
  /\ UNCHANGED <<backend, stage, caller, config, held, shown, knobVars, frameVars>>

\* What access_status says; a page without the permissions API is an error.
access_status == IF Desktop THEN "Granted" ELSE access_status_impl(access)

-----------------------------------------------------------------------------
(* Frames and stills.                                                      *)

\* The camera is turned, and its pictures with it; the canvas of a session
\* stays as it is, and so does the format of a desktop camera.
Turn(s) ==
  /\ Web /\ s \in tracks \cap Watched
  /\ \E p \in Sizes \ {picture[s]} : picture' = [picture EXCEPT ![s] = p]
  /\ UNCHANGED <<size, calls, held, knobVars, frameVars>>

FrameOf(s) ==
  CameraFrame(seq[s], size[s], config[s].pixel_format,
              Delivered(config[s].pixel_format), dropped[s])

Capacity == pool_depth(Depth)

\* A frame is stamped with the drops so far, and put into the channel or
\* dropped itself.
Pump(s) ==
  /\ s \in timers \cap Watched /\ seq[s] < MaxFrames
  /\ seq' = [seq EXCEPT ![s] = @ + 1]
  /\ IF Len(queue[s]) < Capacity
     THEN queue' = [queue EXCEPT ![s] = Append(@, FrameOf(s))] /\ dropped' = [dropped EXCEPT ![s] = 0]
     ELSE queue' = queue /\ dropped' = [dropped EXCEPT ![s] = 1]
  /\ UNCHANGED <<still, calls, held, shown, knobVars>>

\* The canvas cannot be read, which counts as a drop; a desktop buffer that
\* does not decode does not.
ReadFails(s) ==
  /\ Web /\ s \in timers \cap Watched /\ dropped[s] = 0 /\ seq[s] < MaxFrames
  /\ dropped' = [dropped EXCEPT ![s] = 1]
  /\ UNCHANGED <<queue, seq, still, calls, held, shown, knobVars>>

\* A stream of the session reads on.
Read(s) ==
  /\ caller[s] = "served" /\ queue[s] # <<>>
  /\ queue' = [queue EXCEPT ![s] = Tail(@)]
  /\ UNCHANGED <<seq, dropped, still, calls, held, shown, knobVars>>

\* frames of a session that is gone is a stream that has ended.
frames(s) == IF s \in table THEN "open" ELSE "ended"

\* A still is the current picture in the session's format, whatever format
\* the request has.
capture_still(s) ==
  /\ s \in table \cap Watched /\ still[s] = None
  /\ still' = [still EXCEPT ![s] = StillPhoto(size[s], config[s].pixel_format,
                                              Delivered(config[s].pixel_format))]
  /\ UNCHANGED <<queue, seq, dropped, calls, held, shown, knobVars>>

-----------------------------------------------------------------------------
(* Controls.                                                               *)

\* The knobs a call asks for and the desktop turns are wanted so from now on.
Heard(before, controls) ==
  [k \in Knobs |-> IF Turns(controls, k) THEN controls[k] ELSE before[k]]

\* The desktop turns the knobs it has, under the lock of its table.
DesktopApply(s, controls) ==
  /\ Desktop /\ s \in table \cap Watched
  /\ camera' = [camera EXCEPT ![s] = desktop_apply_controls(@, controls)]
  /\ applied' = [applied EXCEPT ![s] = AppliedControls(controls)]
  /\ wanted' = [wanted EXCEPT ![s] = Heard(@, controls)]
  /\ UNCHANGED <<pending, calls, held, shown, frameVars>>

\* The browser is asked some turns later, for what it knows of.
WebApply(s, controls) ==
  /\ Web /\ s \in table \cap Watched /\ pending[s] = None
  /\ pending' = [pending EXCEPT ![s] = controls]
  /\ UNCHANGED <<camera, wanted, applied, calls, held, shown, frameVars>>

\* It turns the knobs or refuses; the answer is the same.  The session may
\* be closed by now.
WebApplied(s) ==
  /\ pending[s] # None
  /\ \/ camera' = [camera EXCEPT ![s] =
                     [k \in Knobs |-> IF k \in DOMAIN Advanced(pending[s])
                                      THEN Advanced(pending[s])[k] ELSE @[k]]]
     \/ camera' = camera
  /\ applied' = [applied EXCEPT ![s] = AppliedControls(pending[s])]
  /\ pending' = [pending EXCEPT ![s] = None]
  /\ UNCHANGED <<wanted, calls, held, shown, frameVars>>

Opening(s) ==
  \/ (\E c \in Configs : open(s, c)) \/ OpenStream(s) \/ OpenStreamFails(s) \/ CameraFormatFails(s)
  \/ \E err \in Thrown : GetUserMediaFails(s, err)
  \/ install_dom(s) \/ InstallDomFails(s) \/ wait_for_metadata(s) \/ SetIntervalFails(s)
  \/ Insert(s) \/ Abandon(s) \/ close(s)

Filming(s) == Turn(s) \/ Pump(s) \/ ReadFails(s) \/ Read(s) \/ capture_still(s)

Controlling(s) ==
  \/ \E c \in Asked : DesktopApply(s, c) \/ WebApply(s, c)
  \/ WebApplied(s)

Next ==
  \/ \E s \in Sessions : Opening(s) \/ Filming(s) \/ Controlling(s)
  \/ request_access \/ \E err \in Thrown : PromptAnswered(err)

Spec == Init /\ [][Next]_cameraVars

-----------------------------------------------------------------------------
(* Properties.                                                             *)

TypeOK ==
  /\ backend \in Backends /\ access \in {"prompt", "granted", "denied"}
  /\ prompt \in {"idle", "asked"} \cup Error
  /\ stage \in [Sessions -> {"idle", "asked", "metadata", "running", "sent", "open", "closed", "failed", "lost"}]
  /\ caller \in [Sessions -> {"idle", "waiting", "dropped", "served"} \cup Error]
  /\ tracks \cup elements \cup timers \cup table \subseteq Sessions

\* A session in the table runs, with all it needs, and so does one on its
\* way there.  Nothing runs for any other, "close stops every track on the
\* stream, clears the interval, and drops the DOM elements", web.rs:21, also
\* for a caller that did not wait.  Only the setups that failed after the
\* browser gave its stream leave it running; never a timer.
OnlySessionsRun ==
  LET alive == {s \in Sessions : \/ stage[s] \in {"running", "open"}
                                 \/ stage[s] = "sent" /\ caller[s] = "waiting"}
      coming == {s \in Sessions : stage[s] = "metadata"}
      lost == {s \in Sessions : stage[s] = "lost"} IN
  /\ table = {s \in Sessions : stage[s] = "open"}
  /\ \A s \in Sessions : stage[s] = "open" <=> caller[s] = "served" /\ frames(s) = "open"
  /\ timers = alive
  /\ alive \cup coming \subseteq tracks /\ tracks \subseteq alive \cup coming \cup lost
  /\ Web => alive \cup coming \subseteq elements
  /\ elements \subseteq alive \cup coming \cup lost

\* Whatever a session delivers has the format its client was told, for as
\* long as it runs and however the camera is turned: the size, the order of
\* the bytes, and a plane that ends with them.
AsNegotiated ==
  \A s \in {q \in Watched : config[q] # None} :
    LET told == NegotiatedFormat(size[s], config[s].pixel_format, FpsOf(config[s]))
        Is(f) == /\ f.resolution = told.resolution /\ f.pixel_format = told.pixel_format
                 /\ f.bytes = OrderOf(told.pixel_format) IN
    /\ \A i \in DOMAIN queue[s] :
         /\ Is(queue[s][i])
         /\ PlaneEnd(queue[s][i].plane) = 4 * told.resolution[1] * told.resolution[2]
    /\ still[s] # None => Is(still[s])
    /\ s \in table => told.pixel_format \in Packed

\* The status that request_access settles on is the one access_status has.
AccessAgrees == prompt \in AccessStatus => access_status = prompt

\* Every camera in the list, and nothing else, can be opened by the identity
\* it is listed with, unless it has a name that is a number.
Labels == {{}, {"front"}, {"rear"}, {"user", "back"}}

DevicesOpen ==
  /\ \A i \in {Index(0), Index(1), Named(None)} :
       resolve_index(describe_device([index |-> i, human_name |-> {}]).id) = i
  /\ \A infos \in [1..2 -> [kind : {"videoinput", "audioinput"}, device_id : 1..2, label : Labels]] :
       LET listed == enumerate_devices_impl(infos) IN
       /\ {listed[i].id : i \in DOMAIN listed} =
            {infos[i].device_id : i \in {j \in 1..2 : infos[j].kind = "videoinput"}}
       /\ \A i \in DOMAIN listed : listed[i].label # {} /\ listed[i].lens = "Wide"

\* "pass None to leave a setting untouched", lib.rs:473: a knob of a desktop
\* camera stays where the last call that named it put it.
KnobsStay ==
  Desktop => \A s \in Sessions : \A k \in Knobs :
    camera[s][k] = IF Some(wanted[s][k]) THEN Native(k, wanted[s][k]) ELSE Default[k]

CamerasAreHonest == 
  /\ TypeOK /\ OnlySessionsRun /\ AsNegotiated /\ KnobsStay /\ AccessAgrees
  /\ (\A s \in Sessions : stage[s] = "idle") => DevicesOpen
=============================================================================
