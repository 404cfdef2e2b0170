# Mio: models and proofs

Mio is a Wayland compositor whose windows live on one infinite grid, the World,
looked at through cameras. `src/crates/mio-core` holds the logical state and has no
knowledge of Wayland; `src/crates/mio-compositor` turns clients, input devices,
IPC requests and display hardware into operations on it. This directory holds
TLA+ models of the code, the TLC configurations that check them on small
instances and TLAPS proofs for every instance.

## The system

| Component | State | Operations | What makes it correct |
|---|---|---|---|
| World (`mio-core/src/world.rs`, `window.rs`) | windows (rectangle, two property layers, presentation, restore rectangle), focus, ids, placement request | place, remove, move, swap, resize with followers, float and tile, maximize, fullscreen, focus | tiled windows share no cell; a refused operation changes nothing; a window comes back from a presentation; nobody's focus is stolen; ids are not reused |
| Cameras and Outputs (`camera.rs`, `output.rs`) | one camera per Output, the active one apart | step, nudge, pan, center, follow, zoom, activate, cycle, reload | every Output keeps its view; fullscreen holds the cameras; following reveals |
| Toplevel lifecycle, focus (`state.rs`, `handlers/xdg_shell.rs`, `activation.rs`) | managed windows with transition, `ready_to_present`, parents, return focus | add, first commit, present, close transition, destroy, activate | logical and protocol focus agree; closing gives the focus to the right window |
| Pointer and keyboard (`input.rs`) | pending drag, resize, chord, deferred click, suppressed releases | buttons, motion, axis, shortcuts, timers | a gesture commits once, to the window it began on, and leaves no flag behind |
| Layers, lock, popups (`handlers/`) | layer interactivity, hidden layers, lock surfaces, grabs | map, destroy, lock, unlock, grab | a lock leaves no input path; the keyboard always has the right owner |
| Nested backend (`winit.rs`) | the Outputs' regions of one host window, their places in the space | resize, redraw, reload of the scale, absolute motion | Outputs share the window; a click reaches the Output it is on |
| Direct backend (`udev.rs`) | `frame_pending`, `repaint_scheduled`, the scanout | VBlank, repaint timer, hotplug, VT switch | a client that waits for a frame gets one |
| Capture, IPC (`screencopy.rs`, `image_copy_capture.rs`, `ipc.rs`) | queued captures, one socket | queue, fulfil, request | each frame is answered once; a locked desktop is never captured; whoever announced a socket has it |
| Configuration, animation, rendering | parsed settings, springs, GPU programs | reload, advance, draw | a bad file changes nothing |

The compositor is one thread: Wayland requests, input events, IPC requests,
timers and VBlanks are callbacks of one event loop, each of which runs to its
end. (Several processes share the runtime directory, and there every system call
interleaves.) What interleaves is therefore whole handlers, and the hard behaviours are
*orders of handlers*: a placement request made long before the client it is for
connects, a window maximized, toggled and restored, an Output switched while a
window is fullscreen, a client that goes away in the middle of a gesture.
`PROJECT.json` lists the hazards line by line.

## Modules

| Module | Models | Code |
|---|---|---|
| `Geometry` | points, sizes, rectangles, edges, rounding to the grid | `geometry.rs`, `direction.rs`, `grid.rs` |
| `Layout` | what the World derives from its windows: occupancy, followers, placement | the read-only methods of `world.rs`, `window.rs`, `property.rs` |
| `Camera` | one camera and its movements | `camera.rs`, the `camera_*` methods of `world.rs` |
| `World` | the state machine: one action per operation | `world.rs` |
| `Screen` | windows in the pixels of an Output; extends `World` | `layout.rs`, `output_render_area_for` in `state.rs` |
| `Nested` | virtual Outputs: regions of the host's window, places in the space, clicks | `winit.rs`, parts of `state.rs`, `input.rs`, `main.rs` |
| `Desktop` | abstract specification: windows that open and close, a focus, one view per Output | (states a promise) |
| `Shell` | managed windows, the focus of the World, the keyboard, layers, popups, the lock: one action per handler | `state.rs`, `handlers/xdg_shell.rs`, `activation.rs`, `layer_shell.rs`, `session_lock.rs`, parts of `input.rs` |
| `Toplevels` | abstract specification: the life of a window, and who is chosen when it ends | (states a promise) |
| `Gestures` | the pointer: presses, releases, motions, deadlines over `process_pointer_button` | `input.rs` |
| `Motion` | one window between the World, the screen and its client | `state.rs`, `animation.rs`, `input.rs`, `ipc.rs` |
| `Frames` | the direct backend's frame loop: one action per event source, per event of a rescan, per request that asks for a frame | `udev.rs`, `handlers/session_lock.rs`, the ends of `handlers/compositor.rs` and `handlers/mod.rs` |
| `Capture` | what a frame of either backend shows, answers and confirms | `winit.rs`, `udev.rs`, `screencopy.rs`, `image_copy_capture.rs` |
| `Instances` | processes in one runtime directory, one step per system call | `main.rs`, `ipc.rs` |
| `Heartbeat` | pings, pongs and deadlines of clients | `handlers/xdg_shell.rs` |
| `Config` | loading, includes, reloads, startup commands | `config.rs`, parts of `main.rs`, `state.rs`, `input.rs` |
| `WorldProperties`, `ShellProperties`, ... | the invariants, action properties, liveness and refinements of each (those of `Screen` and `Nested` are at their ends) | |
| `MCWorldGrid`, `MCWorldViews`, `MCFrames`, `MCShell`, `MCGestures`, `MCServices`, `MCNested` | instances for TLC | |
| `WorldTypeProofs`, `WorldTilingProofs`, `WorldPromiseProofs`, `FramesProofs`, `ShellProofs`, `GesturesProofs`, `ServicesProofs`, `ConfigProofs` | theorems and proofs | |

How they interact. `Screen` extends `World`, and both are checked together in
`world_views`. `Shell` has of the World what handlers above it can see and upset: its
windows, its focus and who is fullscreen; `Motion` has one window of it. Every place where
the code calls `world.apply` appears as the refusal or acceptance that `World` decides,
so a handler that is refused is an alternative of its action. `Gestures` ends
in operations of `World` and `Shell`; it keeps of both the windows and the focus. A lock
appears in `Shell` (who has the keyboard), `Gestures` (what it forgets), `Frames` (when
it is confirmed on the direct backend), `Capture` (what is shown and captured) and
`Motion` (what it leaves drawn), each with the part of `lock()` and `unlock()` that
touches its state.

`World` has the fields of `struct World` as variables. An operation the code
answers with an error changes nothing, so it is an action that is not enabled.
Validation and commit are one action, as they are one `&mut self` method.
The layers of the floating property are both kept, because which operation
writes which of them is where the grid can be broken; opacity and blur are read
by the renderer only and are left out. `add_window`, `set_config_window_property`
and `clear_config_window_properties` are called from no handler.

Abstractions of data:

* A coordinate (`f64`) is an integer number of half cells (`Cell = 2`): enough to
  be off the grid, to be rounded, and to make centres exact. Distances smaller
  than half a cell behave like half a cell in every comparison the code makes.
* A zoom is the reciprocal of a positive integer. Magnifying above 1 is refused
  by the wheel and matters to `CameraFollow` alone.
* `Limit` stands for the ends of `i64` and of the finite `f64`. Past it an
  operation is not enabled. For `GridRect` the code refuses too; for continuous
  rectangles and cameras this is a bound of the model.
* `LastWindowId` and `LastOutputId` stand for the ends of `u64`.
* `AddOutput` is only called by `main.rs` before the event loop serves a client,
  and lines the views up side by side; its guard and its camera say so.

`Frames` has three records for the state that `render` reads and writes: `backend`
(fields of `struct DirectBackend`; `crtc` stands for `output`, `crtc` and
`scanout`, which are set and cleared together, and `device` for a `DrmOutputManager`
that is not paused), `desktop` (fields of `struct MioState`; `redraws` is the
channel behind `redraw_sender`) and `screen` (what Smithay's damage tracking and
the kernel know). `plug`, `hotplug` and the kernel's side of `screen` are outside
`src/` and follow from how it uses them. `render` is called by most handlers in
their middle; it is the operator `Render(b, d, s)`, applied to what the handler
has made of the three records by then, so each handler is still one action.
The exception is `rescan_connectors`: the scanner's events come in an order the
code does not choose, so `scan` holds those that are left and `HandleHotplug`
takes any of them, while only the hardware may move.

Abstractions of `Frames`:

* Each connector is driven by a CRTC of its own, so a connector names its CRTC.
* `screen.damage` says that the next frame will not be empty. Drawing itself
  is left out, except for which scene was drawn last.
* `desktop.deferred` stands for everything that waits for `render` and wakes
  nobody: DMA-BUF imports, close transitions that are over, deferred clicks, XDG
  pings, actions over IPC. Captures are left out.
* `desktop.waiting` holds a scene when a surface of it waits for its callback.
* `MaxFlips` bounds the page flips the kernel owes for one CRTC; two are the one
  submitted and the one Smithay has queued behind it. `MaxRedraws` bounds the
  messages in the channel; a message too many changes nothing, since
  one `render` serves them all.
* Smithay or the kernel may drop page flips when the session is paused or the
  scanout goes (`FlipsLost`); otherwise the kernel is assumed to report every
  flip it has accepted. `MaxFaults` bounds the calls that fail for a
  reason of their own; a paused device, or a flip still under way on a
  new scanout, makes calls fail without counting.
* `DrmEvent::Error`, which is only logged, is left out.

`Shell` keeps of a managed window (`struct ManagedWindow`) its parent and focus
candidates, whether it floats, is `ready_to_present`, closes, has deferred its first
commit, was created to fade in and not seen since (`unseen`), and whether its transition
has lost the rectangle it needs to go on (`frozen`). `seat` is the keyboard's surface and
the grab of a popup of it. Abstractions of `Shell`:

* Ids are issued once, so a window is its id. Protocol checks of Smithay (a parent is no
  descendant, popups are destroyed before their toplevel) are guards.
* What `refresh_auto_floating` reads from a client is a choice, within what a parent and
  the World force on it.
* `camera` says only that a handler has moved the camera since the user last did.
* A transition is not begun, under way or over (`FinishCloseTransitions`); how long it
  takes is `Motion`'s and the renderer's.
* With more than one exclusive layer, which of them a key reaches is a choice; there is
  one lock surface and one grabbing popup at a time.

`Gestures` has one field of `pending` for each `Pending...` struct and flag of `state.rs`
that `process_pointer_button` reads. A position is what is under it and whether it is
within the six pixels of a click; a deadline is a flag that `Expire` sets; `client` is
what Smithay's pointer and the client remember. The bindings are constants, restricted by
what `validate_mouse` accepts.

`Motion` counts widths only, moves what is drawn by one unit per frame instead of along
a spring, and gathers in `OtherOperation` the handlers that only sync. `Capture` has
one deferred click at a time, and an Output is there or not. `Instances` splits
`bind_ipc_listener` and `cleanup` at every system call; a crash may come between any two.
`Heartbeat` has clocks that are due or not. `Config` keeps of a node whether it includes,
binds, spawns, holds a value or does not parse. `Screen` has integers for `f64`
and rounds each quotient as `f64::round` does; its Outputs are mapped, as the backends map
all of them before `output_size` is known, so that `split_output_area` has nothing to
divide. (What an Output shows between a disconnect and the next connect, `fallback_size`,
is left out.) `Nested` has widths only, and fractions for the scale and the pointer. A reload
of the configuration replaces it as a whole even when the World refuses the new viewport
(`input.rs:704`), so `Config` leaves the refusal out.

`robbed` in `Gestures` is a history variable: the buttons whose release a close gesture has
swallowed while a client, or a gesture begun before, waited for it. No action reads it.
`refused` in `Capture` says the same of a buffer that came with a copy while the session was
locked.

## Runs

| Run | Question | Bounds |
|---|---|---|
| `world_grid` | Does the grid stay exclusive under placements, moves, swaps and resizes with followers? Is a placement the nearest free origin, whatever floats? Does a resize carry the whole chain or nothing? Can a window come back between grid lines? | story "tiled": 3 windows, a field of 4 x 2 cells, sizes up to 2 x 2; story "floating": 2 windows, origins on half cells, all four ways to change the property |
| `world_views` | Do cameras keep their views, hold while a window is fullscreen, and reveal what they follow? Do windows that are apart stay apart in pixels, but for one of rounding? Does a presented window come back to its rectangle? Can anything but a presentation make windows collide? Does the World implement `Desktop`? | 2 windows, 2 Outputs on the regions of a host's window, a gap and a bar of one pixel; story "wander": 2 zooms, half-cell pans; story "present": sizes that differ, every presentation |
| `frames` | Does whoever waits for a frame get one, and is work that wakes nobody done? Is a lock confirmed? | 1 connector, no failing calls; clients, input, VT switches, hotplug, locks |
| `frames_hotplug` | Is the loop always armed? Does a confirmed lock stay on screen? Does the output survive another monitor's events? | 2 connectors, one of which wakes up without modes and changes them; 1 failing call; VT switches and locks |
| `shell` | Do focus and keyboard move together and return to whom they belong? Are windows that close told so, and forgotten? Who hides and who comes back around a fullscreen window? Does the shell implement `Toplevels`? | 3 windows with parents; 2 windows with one layer, a popup and the lock |
| `gestures` | Do presses and releases reach clients in pairs? What does a lock leave? Is a click that is kept back answered? | 2 windows, one of them with an edge; the shipped bindings with the close gesture |
| `services` | Is the announced socket the one that is reached, whoever crashes? Are captures answered, with the right scene, and buffers returned? Are clients pinged again? Does a bad file change nothing, and do startup commands run once? Does what is drawn and told follow the World, and settle? Do virtual Outputs share the window without gap or overlap? | 3 processes, 2 names; 2 captures; 2 clients; 3 files, 2 loads; 2 widths, 2 zooms; 3 virtual Outputs, host windows of 1, 8 and 13 pixels, 4 scales |
| `unmaximize`, `pan_ends`, `closing_takes`, `close_stuck`, `click_half` | counterexamples, see *Findings* | as `world_views`; as `gestures`; one window; 2 virtual Outputs and a host window of 9 pixels |

Why the bounds are enough. *World*: a chain needs a target, a direct follower and an
indirect one, a blocked chain a fourth position in the field, a placement that
hops twice two blockers and a gap; three windows in eight cells give all of
them. Everything about the property layers and presentations relates one window
to one other, so two windows suffice, and two Outputs make an active and an
inactive one. Window ids run out after three (two) windows, so closed ids that
linger in a placement request occur. Deadlock checking is off because a World
whose ids have run out and whose windows are closed has nothing left to do.
The first story of `world_views` opens and closes windows only while the active camera is at home
and makes only the first window fullscreen: this bounds the product of camera
positions with rectangles and leaves every order of focus, Output and fullscreen.

*Frames*: one connector is enough for everything that passes between
`render`, the timer, the channel and the kernel, because `render` only ever
sees one CRTC; two make an active one and another that is plugged in, pulled or
late, and a flip of a CRTC that is no longer in use. A second failing call would
add a state in which the loop is already excused. In `frames_hotplug` nobody
commits or moves the pointer: both only make a redraw happen, which locking
and unlocking do as well, and `frames` has them all.

*Shell*: handing focus back needs a dialog, its parent, and somebody else; three windows
give each order in which they come and go. In that story (`MCShell`, "windows") windows
float only because they have a parent, a parent is older than its children and named
before their first commit, and a third window opens only while transitions are on.
Layers, popups and the lock relate the keyboard's owner to one other surface, so the story
"seat" has two windows and one Top layer, without parents and transitions. An Overlay
layer differs from a Top layer only in that it never hides; the proofs have any number
of both.

*Gestures*: windows matter as "the one the gesture began on" and "another", buttons as the
three that the shipped bindings combine. The session is unlocked with no button down
(see *What does not hold*). What follows a close gesture that has taken a release multiplies
the states, so `gestures` lets nothing more be pressed then (`MaxTaken = 0`). The
proofs have no such bound.
A window that is forgotten may go on fading out under the pointer for as long as it likes.

*Services* puts six machines that do not interact into one state space of which each
behaviour uses one. Two captures fall on both sides of a cursor filter; three processes
are one that crashed, one that takes over, and one that races with it; three files make
a cycle, a diamond and a chain.

For `Nested`, three Outputs have a first, a middle and a last region; widths that three does not
divide and scales of 1, 3/2, 5/4 and 1/2 leave a pixel, a half and a third of a unit over, and a
window of one pixel leaves Outputs without any. A press is one that may change the focus;
grabs are in `Gestures`.

No liveness property is stated of the World: it is passive, every step is
somebody's request, and no fairness is justified by its code. Fairness elsewhere:

* `Frames`: weak fairness of what the program and the kernel do by
  themselves: calloop polls the 16 ms timer and the channel in every iteration,
  `rescan_connectors` runs when udev's descriptor is readable and handles its
  events in a loop that ends, and the kernel reports a flip it has accepted.
  Nothing is assumed of clients, input, the session or the cables. Progress is
  promised under `<>[]AtRest` only: a monitor that is pulled and plugged in for ever
  restarts the loop each time, and the code can do nothing about it. It is not
  promised (`Excused`) without an output or in an inactive session, nor after a
  failing call, which the code logs without arming anything: the next
  redraw, input or VT switch is what brings the loop back.
* `Shell` (`ClosingIsTold`): weak fairness of the frame in which transitions end; while a
  transition moves, `advance_animations` returns true and both backends go on drawing.
* `Gestures` (`ClickAnswered`): time passes (`Expire`), and a click that waits keeps
  frames coming (`Flush`); it is promised once the user lets the buttons be.
* `Capture`: weak fairness of a frame that draws. `CaptureAnswered` excuses the direct backend
  while the session is locked or the Output is away.
* `Heartbeat`: the maintenance timer of `main.rs` polls once a second, and clocks advance.
* `Motion` (`SizeSettles`): a frame that is due is drawn; what `due` is, the model says.

## Findings

* `unmaximize`: a window that floats between grid lines, is maximized, toggled to
  tiled and un-maximized is tiled and off the grid, against FR-TILE-002 and the
  text of `WorldError::OffGrid`. `world_views` shows the same hole for
  overlaps and `OverlapOnlyFromPresentation` shows that there is no other.
* `pan_ends`: with the shipped bindings press right, click left and press it again on a
  window, release and press right, release left, release right. When the window drag ends,
  right goes into `suppressed_window_drag_releases`, although its last press has begun a
  camera drag; the release is swallowed there and the camera follows the pointer
  with no button down, against `docs/requirements.md:553` (from the press to the release).
  The next click of right ends it.
* `close_stuck`: `reset_all_window_presentations` clears the rectangle of every managed
  window. A window that is fading out is no longer in the World, so no sync gives it
  another; `advance_frame` returns before the transition is advanced. The window stays
  managed, and its client is never asked to close (`docs/architecture.md:238`).
  Any motion of a camera drag during the transition is enough.

* `closing_takes`: press middle over a window, hold right, click left three times over the
  window, release middle. The close gesture is complete while buttons are held, so
  `closing_pointer_chord` is set (`input.rs:1463`), and
  `finish_active_pointer_interaction` swallows every release until no button is held
  (`input.rs:1115`), that of middle as well: the client that had its press keeps it down, against
  `docs/spec.md:852`. `NoButtonSticks` names exactly these buttons (`robbed`), and the proof
  shows that there are no others. A close gesture that `flush_pending_pointer_click` completes
  leaves right in `releases` as well, which the next release of right takes away.
* `click_half`: `README.md:421` has a click on either half of a split window activate its
  camera. Absolute motion is mapped to the geometry of the first Output, whichever part of the
  window the pointer is in, so a press always finds the first Output.

### What does not hold

Found while modelling and left out of the runs; the models show or exclude each of them
by a named condition.

* A keyboard or IPC resize whose followers cannot come along is refused, although
  `docs/architecture.md:133` says that the target is then resized alone; the pointer
  does so. Setting the floating property to false does not align the window as
  FR-FLOAT-005 asks, and answers `OffGrid`; `toggle_floating` does align.
* A copy asked for while the session is locked is answered with `failed` before its frame is
  looked at (`screencopy.rs:262`, `Refuse`): its buffer is never released, although clients
  wait for that (`screencopy.rs:414`), and the frame may be asked again. `BufferComesBack` is
  about the copies that are queued; `refused` marks the others.
* The views of virtual Outputs are cropped to their logical geometry and drawn a unit a
  pixel (`state.rs:2194`), so at a scale other than 1 they do not lie in their regions of the
  window (`docs/smithay-notes.md:844`).
* A monitor that lists no modes when it is found stays unused until it is unplugged:
  `connect_output` gives up and `classify_hotplug` ignores the `Changed` event that brings
  the modes (`README.md:165`).
* An IPC request, and a client that asks for a presentation, ask for no frame
  (`ipc.rs:110`): on an idle desktop the change is drawn and told with
  whatever draws next. `SizeSettles` starts from a frame that is `due`. The nested
  backend also idles over imports of DMA-BUFs, removed windows and `pending_close_click`.
* `configure_bounds` is told by `sync_layout(true)` only, so an exclusive zone that changes
  and a change of the Output leave clients with the old bounds
  (`docs/requirements.md:1233`). An interactive resize in a zoomed view
  configures the zoomed size (`docs/requirements.md:838`).
* Closing an unfocused dialog moves the focus to its parent (`state.rs:1498`).
  Activating a window that is fading out moves the keyboard but not the focus.
* A hidden Top layer that gives up its interactivity keeps the keyboard.
* A window created without transitions, and closed before its first commit after a reload
  switched them on, is never told (`ClosingIsTold` speaks of `ready` or `unseen` windows).
  A window closed while `output_size` is not known is not finished either.
* `lock()` drops a resize without syncing the layout: when nothing is focused at the
  unlock, the preview stays (`LayoutFollowsWorld` asks for a focus).
* `lock()` forgets which buttons are down: their releases reach clients that have not
  seen a press, and a button held across the unlock may stay down for the client
  that got its press (`ReleaseAfterPress` excepts them; `MCGestures` unlocks with no
  button down).
* With a move chord that is not held with the camera's button, a release may be forwarded
  whose press was consumed; the theorems about gestures have the hypothesis `Bindings`.

## Proofs

`tlapm` checks every theorem for all values of the constants. Every safety property
of the passing runs is stated by one, but for `OutputsShareHost`, which is about sums.

* `TypeCorrect` (`WorldTypeProofs`): `Spec => []TypeOK`. `TypeOK` is inductive as
  it stands. One lemma per kind of step; the lemmas on `WithFollowers` and on
  rectangles are cited again below.
* `OverlapHasItsCause` (`WorldTilingProofs`): `Spec => OverlapOnlyFromPresentation`.
  The argument: every operation but the presentations proposes windows that
  differ from the present ones in a set it has *compared with the proposal*
  (`CheckedChange`); comparing the changed ones is enough
  (`CheckedChangeCollidesNot`), whether the set is one window, the two of a swap
  or a chain of followers.
* `GridIsExclusive` (`WorldTilingProofs`): if initial sizes fit the viewports
  (`SizesFit`) and as long as nothing is maximized or made fullscreen
  (`NormalSpec`), `TiledDisjoint` and `TiledOnGrid` always hold. The inductive
  invariant `TilingInv` adds to them the types and `CamerasConfigured`, which says
  that every camera shows a configured viewport: `place_window` centres a window in
  an empty view *without* looking at occupancy, and what makes this safe is
  that a centred window no larger than the view, rounded down to the grid, can
  only meet a tiled window that meets the view (`CenteredSpanSeen`). Rounding
  makes this true only because tiled windows lie on grid lines, so the two
  invariants need each other. Both assumptions are necessary: without the second
  `unmaximize` is a counterexample, without the first a window larger than the
  viewport is placed over one just outside it.
* `TiledWindowsAreOnGrid` (`WorldTilingProofs`): `NormalSpec => []TiledOnGrid`, without
  `SizesFit`: what lies on the grid lines is kept by every step whether or not windows
  overlap. It is false of `Spec`, as `unmaximize` shows: ending a presentation restores
  a rectangle that nobody compares with the grid.
* `ChainsAreCarried` (`WorldTilingProofs`): `Spec => ResizeCarriesChain`. `EdgeFollowers` is the
  least set that is closed under pulling along, the property says of what has moved that nobody
  is left behind (`FollowersAreClosed`) and nobody moved who touches no other
  (`FollowersAreTouched`: without him the set would still be closed). Steps that
  are no resize move both edges of a window or none (`MovedTwoEdges`).
* `ApartOnEveryScreen` (`WorldTilingProofs`): `Spec => []TiledApartOnScreen`. Rounding half
  away from zero is off by half a unit at most (`RoundedBounds`), so a position and a length,
  each rounded, end at most one unit beyond the rounded position of what begins where they end
  (`RoundedSum`).
* `PresentedComesBack` (`WorldPromiseProofs`): `Spec => PresentationRoundTrip`. The
  inductive invariant is `PresentedInv`: a presented window has a stored rectangle
  and lies on grid lines. The second half is needed because `toggle_floating` rounds
  the rectangle of a presented window as well; `Camera::viewport` has rounded it
  before. A window that is not presented may change (`PresentedKept`): the chain of
  a resize changes nobody outside it (`UndraggedStay`) and is refused when anybody
  in it is presented.
* `FullscreenHoldsCameras` (`WorldPromiseProofs`): `Spec => CameraHeldByFullscreen`.
  No camera action is enabled; a change of the active Output moves cameras between
  `camera` and `inactive_cameras` without changing any (`OutputHoldsViews`).
* `FollowingReveals` (`WorldPromiseProofs`): `Spec => []FollowReveals`, from
  `TypeCorrect` and arithmetic on one axis (`RevealSpan`, `SpanInView`).
* `NearestIsFound` (`WorldPromiseProofs`): `Spec => []PlacementIsNearest`, for all field and
  window sizes. The loop of `advance_placement_past_occupied` hops beyond *all* windows in
  its way at once. A hop goes a whole number of cells (`HopLength`) and no origin that it
  passes is free, because what blocks the first blocks all up to its far edge (`InTheWay`); a
  window that has been hopped over is never in the way again, so there are
  no more hops than tiled windows (`SearchPasses`), and the loop ends at the first free origin
  (`AdvanceIsNearest`).
* `FloatingNeverSteers` (`WorldPromiseProofs`): `Spec => []FloatingNeverSteersPlacement`, since the
  visible windows, the anchor and the obstacles are all taken from the tiled ones.
* `WorldIsDesktop` (`WorldPromiseProofs`): `Spec => Promise!Spec`, the refinement of
  `Desktop` under the mapping of `WorldProperties`: geometry, properties and
  presentations stutter (`WindowsReplaced`), the other kinds of step are each
  mapped to their action by a lemma.

* `FramesTypeCorrect`, `FlipsAreOwed`, `LoopStaysArmed`, `LocksAreShown`,
  `OutputsArePlugged`, `OutputsAreKept` (`FramesProofs`): what `frames_hotplug`
  checks, and that a pending frame is owed a flip and the output in use is plugged in,
  for any number of connectors, flips and failing calls. One inductive invariant, `Inv`, with three parts. `Sound` gives
  types, `PendingHasFlip` and `LockShown`; it is kept by `Render` whichever
  sound records a handler passes to it (`RenderSound`). `Rearmed` is `LoopArmed`; a handler takes a
  flip, a message or the timer away *before* it calls `render`, so `RenderSound`
  proves it of the result without assuming it, except for a `render` that
  returns at once, which a pending frame's flip makes good. `ScanSound` relates
  the events still to be handled to what was `seen`: an event says
  `Disconnected` exactly if the scanner has seen the connector gone, and
  `Connected` never names the output in use. Without it `HandleHotplug` could be
  handed a stale event and `OutputPlugged` would not be inductive.

* `WorldIsManaged`, `KeyboardFollowsFocus`, `LayersMakeWay`, `ShellIsToplevels`,
  `KeyboardIsReturned`, `CameraIsKeptStill`, `FocusIsHandedBack`, `ShellTypeCorrect`
  (`ShellProofs`), for any
  windows and layers. The invariant `IInv` is the
  types, `WorldMatchesManaged`, and that no layer is hidden without a fullscreen window.
  The last part is not a property of its own but what makes `FullscreenHidesTopLayers`
  true of the handlers that do not sync: they may only leave layers alone. Most
  handlers leave alone which windows there are and what has become of each: they are
  `Plain`, one lemma gives all four promises for them, and what is left is to show that the focus
  they set was granted the keyboard (`Activated`). A window that goes hands its focus on by
  `RestorePreferredFocus`, which gives it to a window of the World whatever the candidates
  are (`RestoredWorld`). For the refinement, `PhaseMoves` turns a change of one record
  of `managed_windows` into a change of one phase. For `KeyboardIsReturned`, a layer that a
  step only syncs still wants what it wanted (`SyncKeeps`), so a step in which one gives up is
  its destruction, its commit or the unlocking, and these end in `ReturnKeyboard`. For
  `CameraIsKeptStill`, the window that is activated again is the one the keyboard or the focus
  was at before, which `CameraShouldFollow` refuses to follow (`NotFollowed`).
  For `FocusIsHandedBack`, the invariant `Families` says that a window with a parent has it as
  its first candidate; `ParentFirst` proves it of the loop that merges candidates. The first
  candidate that lives is then the one a destruction or a close transition finds.
* `LockLeavesNothing`, `CloseSwallowsItsOwn`, `ReleasesFollowPresses`, `NoButtonIsStuck`,
  `GesturesTypeCorrect` (`GesturesProofs`), for any windows and all bindings with `Bindings`
  (the move chord is held with the camera's button, or there is none) and within
  `GesturesAssumption`, the validation of the configuration. `ReleaseAfterPress` is not inductive:
  the invariant adds `Covered`, that every button that is held has been sent to the client, or is
  owned by a pending gesture that will take its release, or is swallowed by a close
  gesture. Each gesture's begin and end is a lemma about who owns which button.
  `NoButtonIsStuck` says, of all these bindings, that a button which is up and down for a client
  is `robbed`; it has what `MCGestures` restricts the runs to as its hypothesis, an unlock with no
  button down, which is needed (see *What does not hold*).
* `BuffersComeBack`, `LockHidesDesktop`, `ConfirmedOnceShown`, `CursorsAsAsked`,
  `OnePicture`, `CaptureTypeCorrect` (`ServicesProofs`), for any number of captures. The
  invariant says of each frame object that what it has been told, lent and painted with
  agrees with its place in the queue (`Sound`); steps of one capture leave the others alone,
  and a frame answers each by its own record. A copy that is refused while locked (`Refuse`)
  comes before the check that the frame is used, and leaves what frames have said of it alone;
  `BuffersComeBack` is about the copies that were queued.
* `ReadyIsReached`, `OnlyFilesRefuse`, `FilesStay`, `InstancesTypeCorrect`
  (`ServicesProofs`), for any number of processes and names. The lock of a display name makes
  its holder the only process that touches its path (`Locked`, `Named`); hence what a
  process has seen there stays true until its next step (`Held`): a socket found dead cannot
  come to life before it is removed.
* `LayoutFollows` (`ServicesProofs`): `MotionSpec => []LayoutFollowsWorld`, for any sizes
  and zooms. With the types the invariant is inductive: a handler that changes the World ends in
  a sync, and one that does not touches a gesture or the lock, which the invariant excepts.
* `StartupRunsOnce` (`ConfigProofs`): `ConfigSpec => StartupOnce`. Nothing waits while there is
  an Output, and before the configuration is read nothing has been queued or run
  (`ConfigInv`); each command queued comes after those before it, run or not (`OneQueued`).
* `LastGoodIsKept` (`ConfigProofs`): `ConfigSpec => LastGoodCounts`, for any number of files that
  include each other in any way. `Meaning` unfolds all includes of a text in rounds, as
  many as there are files; loading goes depth first with a stack (`ParseFileIsMeaning` says
  they agree). Rounds distribute over concatenation (`RoundsConcat`), so those of a file are
  those of its nodes, one round less (`RoundsFile`). A file that loads has its unfolding after
  as many rounds as files are not on the stack (`LoadedIsUnfolded`). A file that is rejected
  has no clean unfolding (`RejectedIsNeverClean`): in a cycle each file can only be clean after
  another one was, and no number of rounds is the least.

The proofs assume what the `ASSUME`s of the modules say of the constants: `None` is none of
the others (nor a placement request, in `Layout`), sizes and bounds are positive, ids start
at 1, kinds of surfaces differ, bindings are valid, files are finitely many sequences
of nodes (`Config`), screens are higher than the bar (`Screen`).

A recursive function (`f[n \in S] == ...`) is opaque to the provers until it is known to
exist. Where a proof needs the values of one, the modules show that by taking the least number of
steps at which there would be none (`LeastNumber`, from `WFMin` of the library, since the
induction theorems themselves cannot be instantiated), and reason about its values the same
way: the hops of a placement, the merged focus candidates, and everything in `Config`.

Only model-checked: all liveness properties, which are out of the prover's reach:
`CallbackArrives`, `DeferredWorkDone`, `LockConfirmed`, `ClosingIsTold`, `ClickAnswered`,
`CaptureAnswered`, `PingedAgain`, `SizeSettles`; and `OutputsShareHost`, whose sums over the
Outputs are defined by recursion.

## Not modelled

* Rendering and effects (`render.rs`, `effects.rs`): GPU programs, damage and element
  lists. Which scene is drawn is in `Frames` and `Capture`.
* Parsing: KDL nodes beyond their kind, the text of IPC requests, JSON. Pure functions.
* XWayland: one satellite process, started on demand and watched by a timer.
* Window rules (which window a rule matches), the places of popups, exclusive zones and
  the arrangement of layers, input methods, pointer constraints, drag and drop, the
  overview's arrangement, window snapshots, DRM leases and formats: each either
  has no state of its own or hands it to Smithay.
* The overview selects a window by an action of `World`; what it does besides, a sync that
  is skipped if the zoom is refused, is not stated.

## What could follow

The safety half of the liveness properties, as invariants that say who is bound to act:
that a ping which is out has a deadline (`Heartbeat`), that a click which is kept back has a
deadline or a frame (`Gestures`). Window rules as a constant of `Shell`.

## Running

    tlc -workers 2 -config world_grid.cfg MCWorldGrid
    tlapm ShellProofs.tla

`shell` takes the longest of the runs, some three minutes with two workers.
