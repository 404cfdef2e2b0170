-------------------------------- MODULE Nested --------------------------------
(***************************************************************************)
(* The virtual Outputs of the nested backend (winit.rs, main.rs): one      *)
(* window of a host compositor is cut into regions, one for each Output,   *)
(* and the Outputs lie side by side in the compositor's own space.         *)
(*                                                                         *)
(* Pixels are of the host's window, units are of the space; an Output has  *)
(* as many units as its region has pixels, divided by the scale.  Every    *)
(* height is that of the window and is left out.                           *)
(***************************************************************************)
EXTENDS Naturals, FiniteSetsExt

CONSTANTS
  VirtualOutputs,  \* --virtual-outputs
  HostWidths,      \* the widths that the host gives its window, in pixels
  Scales           \* output.scale of the configuration, a fraction

ASSUME NestedAssumption ==
  /\ VirtualOutputs \in Nat \ {0} /\ HostWidths \subseteq Nat \ {0}
  /\ \A s \in Scales : s.n \in Nat \ {0} /\ s.d \in Nat \ {0}

VARIABLES
  host,      \* the width of the window
  scale,     \* config.output.scale
  mode,      \* of each Output, its width in pixels
  geometry,  \* of each Output, the span it has in the space (output_geometry)
  extent,    \* output_size
  pointer,   \* where the pointer is in the space, a fraction of units
  seen,      \* the pixel of the window the pointer is reported at, if any: a set
  active     \* the active Output of the World

nested_vars == <<host, scale, mode, geometry, extent, pointer, seen, active>>

Outputs == 1..VirtualOutputs

\* output_regions: a pixel more or less, so that no pixel is left over.
OutputRegions(width) ==
  LET mark(i) == (width * i) \div VirtualOutputs
  IN  [o \in Outputs |-> [x |-> mark(o - 1), w |-> mark(o) - mark(o - 1)]]

RegionWidths(width) == [o \in Outputs |-> OutputRegions(width)[o].w]

\* The units of so many pixels, as Space::output_geometry rounds them: up.
LogicalWidth(pixels, s) == (pixels * s.d + s.n - 1) \div s.n

\* The units of so many pixels, as winit.rs rounds them: to the nearest.
NearestWidth(pixels, s) == (2 * pixels * s.d + s.n) \div (2 * s.n)

\* The spans of the Outputs, each placed after those before it, of which it takes
\* the widths to be the given ones.
SideBySide(modes, s, widths) ==
  LET x[o \in Outputs] == IF o = 1 THEN 0 ELSE x[o - 1] + widths[o - 1]
  IN  [o \in Outputs |-> [x |-> x[o], w |-> LogicalWidth(modes[o], s)]]

\* apply_output_scale: the Outputs are placed anew, and the layout is as wide as all
\* of them (a window that has a pixel never leaves them without a unit).
ApplyOutputScale(modes, s) ==
  LET widths == [o \in Outputs |-> LogicalWidth(modes[o], s)]
      placed == SideBySide(modes, s, widths)
      last   == placed[VirtualOutputs]
  IN  geometry' = placed /\ extent' = last.x + last.w

\* main.rs adds an Output for every part, init maps and scales them.
NestedInit ==
  /\ host \in HostWidths /\ scale \in Scales
  /\ mode = RegionWidths(host)
  /\ geometry = SideBySide(mode, scale, [o \in Outputs |-> LogicalWidth(mode[o], scale)])
  /\ extent = geometry[VirtualOutputs].x + geometry[VirtualOutputs].w
  /\ pointer = [n |-> 0, d |-> 1] /\ seen = {}
  /\ active = 1

\* Mutant: the places that WinitEvent::Resized maps the Outputs to are left to stand.
ResizedUnscaled(width) ==
  /\ host' = width
  /\ mode' = RegionWidths(width)
  /\ geometry' = SideBySide(mode', scale, [o \in Outputs |-> NearestWidth(mode'[o], scale)])
  /\ seen' = {}
  /\ UNCHANGED <<scale, extent, pointer, active>>

\* WinitEvent::Resized.  Where the pointer is in the window, the host has yet to say.
Resized(width) ==
  /\ host' = width
  /\ mode' = RegionWidths(width)
  /\ ApplyOutputScale(mode', scale)
  /\ seen' = {}
  /\ UNCHANGED <<scale, pointer, active>>

\* reload_config, of a configuration with another scale.
ReloadScale(s) ==
  /\ scale' = s
  /\ ApplyOutputScale(mode, s)
  /\ UNCHANGED <<host, mode, pointer, seen, active>>

\* process_pointer_motion_absolute: the position in the window, whichever Output is
\* there, becomes one on the first Output of the space.
PointerMotionAbsolute(pixel) ==
  /\ pointer' = [n |-> geometry[1].x * host + pixel * geometry[1].w, d |-> host]
  /\ seen' = {pixel}
  /\ UNCHANGED <<host, scale, mode, geometry, extent, active>>

Under(o) ==
  /\ geometry[o].x * pointer.d <= pointer.n
  /\ pointer.n < (geometry[o].x + geometry[o].w) * pointer.d

\* activate_virtual_output_at, of a press that may change the focus and of one that
\* begins a camera drag.
PressActivates ==
  /\ active' = IF \E o \in Outputs : Under(o) THEN CHOOSE o \in Outputs : Under(o) ELSE active
  /\ UNCHANGED <<host, scale, mode, geometry, extent, pointer, seen>>

\* Action::ActivateOutput, of IPC and of cycle-output.
ActivateOutput(o) ==
  /\ active' = o
  /\ UNCHANGED <<host, scale, mode, geometry, extent, pointer, seen>>

NestedNext ==
  \/ \E width \in HostWidths : Resized(width)
  \/ \E s \in Scales : ReloadScale(s)
  \/ \E pixel \in 0..(host - 1) : PointerMotionAbsolute(pixel)
  \/ PressActivates
  \/ \E o \in Outputs : ActivateOutput(o)

NestedSpec == NestedInit /\ [][NestedNext]_nested_vars

-----------------------------------------------------------------------------
\* However the window is resized and the scale reloaded, the Outputs have every pixel
\* of the window between them, and every unit of the layout belongs to one Output:
\* the places that Resized maps them to by rounding to the nearest are put right by
\* apply_output_scale, which goes by the widths that the space rounds up.
OutputsShareHost ==
  /\ MapThenSumSet(LAMBDA o : mode[o], Outputs) = host
  /\ \A unit \in 0..(extent - 1) :
       Cardinality({o \in Outputs : geometry[o].x <= unit
                                      /\ unit < geometry[o].x + geometry[o].w}) = 1

\* README.md: a click on a part of the window makes the camera of that part active.
\* A press long after the last motion counts where the host last reported the pointer.
ClickActivatesPart ==
  [][PressActivates =>
       \A pixel \in seen :
         LET r == OutputRegions(host)[active'] IN r.x <= pixel /\ pixel < r.x + r.w]_nested_vars
=============================================================================
