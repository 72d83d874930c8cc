----------------------------- MODULE CameraData -----------------------------
(***************************************************************************)
(* What a camera session is asked for and what comes back                  *)
(* (plugins/camera/src/lib.rs), and how the desktop and the browser host   *)
(* turn one into the other (desktop/backend.rs, web.rs).  Zooms and other  *)
(* floats are in tenths; identities, labels and bytes stand for            *)
(* themselves.                                                             *)
(***************************************************************************)
EXTENDS Integers, Sequences

CONSTANT None      \* Rust's Option::None

Some(x) == x # None
OrElse(x, default) == IF Some(x) THEN x ELSE default

-----------------------------------------------------------------------------
(* The types.                                                              *)

PixelFormats == {"Nv21", "Yuv420", "Bgra8", "Rgba8", "Jpeg"}

AccessStatus == {"Granted", "Denied", "NotDetermined", "Restricted"}

\* The position of the lens, in tenths, is of interest in the last mode only.
FocusMode(mode, at) == [mode |-> mode, at |-> at]

FocusModes ==
  {FocusMode(m, 0) : m \in {"Auto", "ContinuousVideo", "ContinuousPicture", "Fixed"}}
    \cup {FocusMode("Manual", at) : at \in 0..10}

WhiteBalanceModes ==
  {"Auto", "Daylight", "Cloudy", "Incandescent", "Fluorescent", "Shade", "Twilight"}

Knobs == {"zoom", "torch", "focus", "ev", "white_balance", "flash"}

\* Controls that ask for nothing: None leaves a setting as it is.
NoControls == [k \in Knobs |-> None]

Ask(k, value) == [NoControls EXCEPT ![k] = value]

\* What AppliedControls says of a knob that was not asked for.
Default ==
  [zoom |-> 10, torch |-> FALSE, focus |-> FocusMode("ContinuousVideo", 0),
   ev |-> 0, white_balance |-> "Auto", flash |-> "Off"]

\* The defaults of SessionConfig::new, and its setters.
SessionConfig(device) ==
  [device_id |-> device, pixel_format |-> "Nv21", resolution |-> None,
   target_fps |-> None, emit_frames |-> TRUE, initial_controls |-> NoControls]

with_pixel_format(c, format) == [c EXCEPT !.pixel_format = format]
with_resolution(c, resolution) == [c EXCEPT !.resolution = resolution]
with_target_fps(c, fps) == [c EXCEPT !.target_fps = fps]
preview_only(c) == [c EXCEPT !.emit_frames = FALSE]
with_initial_controls(c, controls) == [c EXCEPT !.initial_controls = controls]

\* What both hosts say a camera can do, whatever it can.
Capabilities ==
  [zooms |-> <<10, 10>>, autofocus |-> TRUE, others |-> {}, max_still |-> <<0, 0>>]

CameraDevice(id, label, facing) ==
  [id |-> id, label |-> label, facing |-> facing, lens |-> "Wide",
   physical_sensors |-> {}, capabilities |-> Capabilities, supported_formats |-> {}]   \* no host fills the last one

\* The format a session runs with, which its client is told.
NegotiatedFormat(size, format, fps) ==
  [resolution |-> size, pixel_format |-> format, fps |-> fps, rotation_degrees |-> 0]

\* The one plane of packed pixels, and the bytes it describes.
FramePlane(size) ==
  [offset |-> 0, row_stride |-> size[1] * 4, pixel_stride |-> 4,
   width |-> size[1], height |-> size[2]]

PlaneEnd(p) == p.offset + p.row_stride * p.height

\* A frame; its pixels are given by the order of their bytes.
CameraFrame(seq, size, format, bytes, before) ==
  [seq |-> seq, resolution |-> size, pixel_format |-> format,
   plane |-> FramePlane(size), bytes |-> bytes, dropped_before |-> before]

StillPhoto(size, format, bytes) ==
  [resolution |-> size, pixel_format |-> format, bytes |-> bytes]

CameraErrors ==
  {"PermissionDenied", "DeviceNotFound", "FormatUnsupported",
   "ConcurrencyUnsupported", "SessionClosed", "Interrupted", "Backend"}

\* What a client makes of a failed call: the host's own error when there is
\* one that decodes, and a Backend error for anything else.
CameraErrorFrom(err) ==
  IF err.kind = "PluginError" /\ err.decoded \in CameraErrors
  THEN err.decoded ELSE "Backend"

-----------------------------------------------------------------------------
(* Both hosts.                                                             *)

Packed == {"Rgba8", "Bgra8"}

pool_depth(config) == IF config = 0 THEN 3 ELSE config

\* Pixels come as RGBA; a client of BGRA gets red and blue exchanged.
swap_rb_in_place(order) == <<order[3], order[2], order[1], order[4]>>

Rgba == <<"R", "G", "B", "A">>

OrderOf(format) == IF format = "Bgra8" THEN <<"B", "G", "R", "A">> ELSE Rgba

Delivered(format) == IF format = "Bgra8" THEN swap_rb_in_place(Rgba) ELSE Rgba

\* The answer to apply_controls is what was asked for, filled with defaults;
\* nothing is read back from the camera.
AppliedControls(controls) == [k \in Knobs |-> OrElse(controls[k], Default[k])]

-----------------------------------------------------------------------------
(* The desktop host.                                                       *)

\* An index is a number or a name; a text that is a number stands for both.
Index(n) == [kind |-> "Index", of |-> n]
Named(text) == [kind |-> "String", of |-> text]

\* A device is known by the text of its index; where it looks is not known.
describe_device(info) == CameraDevice(info.index.of, info.human_name, "Unknown")

resolve_index(id) == IF id \in Nat THEN Index(id) ELSE Named(id)

\* Size and rate count only together; one alone is as good as none.
requested_format(c) ==
  IF Some(c.resolution) /\ Some(c.target_fps)
  THEN [closest |-> c.resolution, fps |-> c.target_fps]
  ELSE [closest |-> None, fps |-> None]

\* Zoom and exposure lose their fraction, focus is scaled and clamped, and
\* the other knobs are not turned.
Clamp(x) == IF x < 0 THEN 0 ELSE IF x > 10 THEN 10 ELSE x

TruncTenths(x) == IF x < 0 THEN -((-x) \div 10) ELSE x \div 10

DesktopKnobs == {"zoom", "ev", "focus"}

Turns(controls, k) ==
  /\ k \in DesktopKnobs /\ Some(controls[k])
  /\ k = "focus" => controls[k].mode = "Manual"

Native(k, value) ==
  IF k = "focus" THEN Clamp(value.at) * 100 ELSE TruncTenths(value)

desktop_apply_controls(camera, controls) ==
  [k \in Knobs |-> IF Turns(controls, k) THEN Native(k, controls[k]) ELSE camera[k]]

\* Of the controls a session starts with only the zoom is set.
apply_initial_controls(camera, controls) ==
  IF Some(controls.zoom)
  THEN [camera EXCEPT !.zoom = Native("zoom", controls.zoom)] ELSE camera

-----------------------------------------------------------------------------
(* The browser host.                                                       *)

\* Exceptions of the media API are objects whose name is not a property of
\* their own: written as JSON they are all the same.  A script that wraps the
\* API may throw plain strings.
js_err(err) == IF err.plain THEN err.name ELSE "{}"

classify_get_user_media_error(err) ==
  LET msg == js_err(err) IN
  CASE msg \in {"NotAllowedError", "PermissionDeniedError"} -> "PermissionDenied"
    [] msg \in {"NotFoundError", "DevicesNotFoundError"} -> "DeviceNotFound"
    [] msg \in {"OverconstrainedError", "NotSupportedError"} -> "FormatUnsupported"
    [] OTHER -> "Backend"

\* Words of the label, looked for in this order.
guess_facing(words) ==
  CASE words \cap {"front", "user"} # {} -> "Front"
    [] words \cap {"front", "user"} = {} /\ words \cap {"back", "rear", "environment"} # {} -> "Back"
    [] OTHER -> "Unknown"

\* The video inputs among the devices, each at its place in their order.
enumerate_devices_impl(infos) ==
  [i \in {j \in DOMAIN infos : infos[j].kind = "videoinput"} |->
     CameraDevice(infos[i].device_id,
                  IF infos[i].label = {} THEN {"Camera"} ELSE infos[i].label,
                  guess_facing(infos[i].label))]

\* What the permissions of the page say; not every browser has them.
access_status_impl(state) ==
  CASE state = "granted" -> "Granted"
    [] state = "denied" -> "Denied"
    [] state = "prompt" -> "NotDetermined"
    [] OTHER -> "Backend"

\* How often the pump runs, and the rate the client is told.
FpsOf(c) == LET fps == OrElse(c.target_fps, 30) IN IF fps < 1 THEN 1 ELSE fps

\* What is asked of the track: four of the knobs, white balance in two modes.
Advanced(controls) ==
  [k \in {j \in {"zoom", "torch", "ev", "white_balance"} : Some(controls[j])} |->
     CASE k = "white_balance" /\ controls[k] = "Auto" -> "continuous"
       [] k = "white_balance" /\ controls[k] # "Auto" -> "manual"
       [] OTHER -> controls[k]]
=============================================================================
