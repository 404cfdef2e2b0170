------------------------------- MODULE World -------------------------------
(***************************************************************************)
(* The World (mio-core/src/world.rs): the single source of truth for       *)
(* logical windows, focus and cameras.  One action per operation the       *)
(* compositor performs on it.  An operation the code rejects changes       *)
(* nothing, so it is an action that is not enabled.                        *)
(***************************************************************************)
EXTENDS Layout, Camera

LOCAL INSTANCE FiniteSetsExt

CONSTANTS
  LastWindowId,    \* where next_window_id runs out: stands for u64::MAX
  LastOutputId,    \* where next_output_id runs out
  Origins,         \* where a move may be aimed at
  Sizes,           \* the sizes a resize may ask for
  InitialSizes,    \* the initial window sizes the configuration may set
  Viewports,       \* the viewport sizes the configuration may set
  Zooms,           \* reciprocals of the magnifications in use
  Pans             \* continuous camera deltas

ASSUME WorldAssumption ==
  /\ LastWindowId \in Nat \ {0} /\ LastOutputId \in Nat \ {0, 1}
  /\ Origins \subseteq Point /\ Pans \subseteq Point
  /\ Sizes \subseteq Size /\ InitialSizes \subseteq Size /\ Viewports \subseteq Size
  /\ Zooms \subseteq Nat \ {0}

VARIABLES
  windows, focus, camera, active_output, inactive_cameras,
  next_output_id, next_placement, next_window_id

outputVars == <<camera, active_output, inactive_cameras, next_output_id>>
idVars     == <<next_placement, next_window_id>>
vars       == <<windows, focus, outputVars, idVars>>

Ids     == DOMAIN windows
Outputs == {active_output} \cup DOMAIN inactive_cameras

CameraForOutput(o) == IF o = active_output THEN camera ELSE inactive_cameras[o]

Init ==
  /\ windows = << >>
  /\ focus = None
  /\ \E v \in Viewports : camera = NewCamera([x |-> 0, y |-> 0], v)
  /\ active_output = 1
  /\ inactive_cameras = << >>
  /\ next_output_id = 2
  /\ next_placement = None
  /\ next_window_id = 1

-----------------------------------------------------------------------------
(* Windows come and go *)

\* The placement is a GridRect and next_window_id an integer, and both can run
\* out; the loop that searches for a free origin ends on nothing but a free one.
PlaceWindow(size) ==
  LET origin == PlacementOrigin(windows, camera, focus, next_placement, size)
      rect   == RectAt(origin, size)
  IN  /\ next_window_id < LastWindowId
      /\ GridRect(rect)
      /\ VisibleTiled(windows, camera) # {} => Blockers(windows, rect) = {}
      /\ windows' = [id \in Ids \cup {next_window_id} |->
                       IF id = next_window_id THEN NewWindow(rect) ELSE windows[id]]
      /\ next_window_id' = next_window_id + 1
      /\ focus' = IF focus = None THEN next_window_id ELSE focus
      /\ next_placement' = None
      /\ UNCHANGED outputVars

SetNextPlacement(d) ==
  /\ next_placement' = [direction |-> d, anchor |-> focus]
  /\ UNCHANGED <<windows, focus, outputVars, next_window_id>>

RemoveWindow(id) ==
  /\ windows' = [o \in Ids \ {id} |-> windows[o]]
  /\ focus' = IF focus = id THEN None ELSE focus
  /\ UNCHANGED <<outputVars, idVars>>

-----------------------------------------------------------------------------
(* Geometry *)

\* Limit bounds the model: the f64 coordinates of the code go on.
Commit(wins) ==
  /\ \A id \in DOMAIN wins : InWorld(wins[id].rect)
  /\ windows' = wins
  /\ UNCHANGED <<focus, outputVars, idVars>>

CommitRect(id, rect) == Commit([windows EXCEPT ![id].rect = rect])

MoveWindowContinuous(id, origin) ==
  LET rect == MovedTo(windows[id].rect, origin)
  IN  /\ Floats(windows[id]) \/ OnGrid(rect)
      /\ GeometryAllowed(windows, id, rect)
      /\ CommitRect(id, rect)

SwapWindows(first, second) ==
  /\ first # second
  /\ SwapAllowed(windows, first, second)
  /\ Commit([windows EXCEPT
        ![first].rect  = MovedTo(@, Origin(windows[second].rect)),
        ![second].rect = MovedTo(@, Origin(windows[first].rect))])

\* resize_window: a tiled window that changes one dimension drags the chain
\* along or is refused; otherwise it changes alone.
ResizeWindow(id, size) ==
  LET old      == windows[id].rect
      rect     == Resized(old, size)
      pulls    == Pulls(windows, id, rect)
      proposed == WithFollowers(windows, id, rect, pulls)
      alone    == Floats(windows[id]) \/ (old.w # size.w /\ old.h # size.h)
  IN  \/ /\ alone
         /\ GeometryAllowed(windows, id, rect)
         /\ CommitRect(id, rect)
      \/ /\ ~ alone /\ size # SizeOf(old)
         /\ ProposalAllowed(windows, {id} \cup Dragged(pulls), proposed)
         /\ Commit(proposed)

\* resize_window_rect: the pointer's release asks for a GridRect.  The target is
\* tried alone when its followers cannot come along.
ResizeWindowRect(id, rect) ==
  LET tiled    == ~ Floats(windows[id])
      pulls    == Pulls(windows, id, rect)
      changed  == {id} \cup Dragged(pulls)
      proposed == WithFollowers(windows, id, rect, pulls)
  IN  /\ GridRect(rect)
      /\ windows[id].presentation = "Normal"
      /\ \/ /\ tiled
            /\ ProposalAllowed(windows, changed, proposed)
            /\ Commit(proposed)
         \/ /\ tiled => RetryAlone(windows, changed, proposed)
            /\ GeometryAllowed(windows, id, rect)
            /\ CommitRect(id, rect)

ToggleWindowSize(id, initial) ==
  LET width == windows[id].rect.w
      half  == (initial.w \div 2) + (initial.w % 2)
  IN  ResizeWindow(id,
        [initial EXCEPT !.w = IF width = @ \/ width < half THEN half ELSE @])

-----------------------------------------------------------------------------
(* Properties and presentation *)

\* Config and runtime setters alike: the changed window must satisfy the grid.
Constrain(id, candidate) ==
  /\ ConstraintHolds(windows, id, candidate)
  /\ Commit([windows EXCEPT ![id] = candidate])

ToggleFloating(id) ==
  IF Floats(windows[id])
  THEN Constrain(id, [windows[id] EXCEPT !.runtime = "tiled",
                        !.rect.x = RoundCell(@), !.rect.y = RoundCell(@)])
  ELSE Constrain(id, [windows[id] EXCEPT !.runtime = "floating"])

SetWindowProperty(id, floating) ==
  Constrain(id, [windows[id] EXCEPT !.runtime = floating])

ClearWindowProperty(id) ==
  Constrain(id, [windows[id] EXCEPT !.runtime = "unset"])

ReplaceConfigProperties(id, floating) ==
  Constrain(id, [windows[id] EXCEPT !.config = floating])

\* Mutant: Maximized to Fullscreen takes the viewport for the restore rectangle.
PresentedForgetting(w, presentation) ==
  IF presentation = w.presentation
  THEN [w EXCEPT !.presentation = "Normal", !.restore = None, !.rect = w.restore]
  ELSE [w EXCEPT !.presentation = presentation, !.rect = Viewport(camera),
                 !.restore = w.rect]

\* Window::set_presentation: asking again for the current presentation ends it.
Presented(w, presentation) ==
  IF presentation = w.presentation
  THEN [w EXCEPT !.presentation = "Normal", !.restore = None,
                 !.rect = IF w.restore = None THEN @ ELSE w.restore]
  ELSE [w EXCEPT !.presentation = presentation, !.rect = Viewport(camera),
                 !.restore = IF w.presentation = "Normal" THEN w.rect ELSE @]

TogglePresentation(id, presentation) ==
  Commit([windows EXCEPT ![id] = Presented(@, presentation)])

-----------------------------------------------------------------------------
(* Focus *)

FocusWindow(id) ==
  /\ focus' = id
  /\ UNCHANGED <<windows, outputVars, idVars>>

\* directional_neighbor's ranking: distance, then offset across the
\* direction, then offset along it, then id.
Rank(from, id, d) ==
  LET dx == CenterX(windows[id].rect) - CenterX(windows[from].rect)
      dy == CenterY(windows[id].rect) - CenterY(windows[from].rect)
      Magnitude(v) == IF v < 0 THEN - v ELSE v
      forward == CASE d = "Left" -> - dx [] d = "Right" -> dx
                   [] d = "Up"   -> - dy [] d = "Down"  -> dy
  IN  << dx * dx + dy * dy,
         IF Horizontal(d) THEN Magnitude(dy) ELSE Magnitude(dx), forward, id >>

Before(r, s) ==
  \E i \in DOMAIN r : r[i] < s[i] /\ \A j \in 1 .. (i - 1) : r[j] = s[j]

Ahead(from, d) == {id \in Ids \ {from} : Rank(from, id, d)[3] > 0}

DirectionalNeighbor(from, d) ==
  {id \in Ahead(from, d) : \A o \in Ahead(from, d) \ {id} :
     Before(Rank(from, id, d), Rank(from, o, d))}

\* With nothing focused, the window nearest to the camera's centre.
FocusEntryCandidate ==
  LET Away(id) ==
        LET dx == CenterX(windows[id].rect) - (camera.x + camera.w)
            dy == CenterY(windows[id].rect) - (camera.y + camera.h)
        IN  << dx * dx + dy * dy, id >>
  IN  {id \in Ids : \A o \in Ids \ {id} : Before(Away(id), Away(o))}

FocusDirection(d) ==
  \E next \in IF focus = None THEN FocusEntryCandidate
              ELSE DirectionalNeighbor(focus, d) :
    FocusWindow(next)

-----------------------------------------------------------------------------
(* Outputs and their cameras *)

\* The startup code lines the views up side by side before it serves a client.
AddOutput(size) ==
  /\ next_window_id = 1 /\ next_output_id < LastOutputId
  /\ inactive_cameras' =
       [o \in DOMAIN inactive_cameras \cup {next_output_id} |->
          IF o = next_output_id
          THEN NewCamera([x |-> (o - 1) * Cell * size.w, y |-> 0], size)
          ELSE inactive_cameras[o]]
  /\ next_output_id' = next_output_id + 1
  /\ UNCHANGED <<windows, focus, camera, active_output, idVars>>

\* Mutant: the camera of the Output that is left is not put away.
ActivateDroppingCamera(o) ==
  /\ o \in DOMAIN inactive_cameras
  /\ camera' = inactive_cameras[o]
  /\ inactive_cameras' =
       [p \in (DOMAIN inactive_cameras \ {o}) \cup {active_output} |->
          IF p = active_output THEN inactive_cameras[o] ELSE inactive_cameras[p]]
  /\ active_output' = o
  /\ UNCHANGED <<windows, focus, next_output_id, idVars>>

ActivateOutput(o) ==
  /\ o \in DOMAIN inactive_cameras
  /\ camera' = inactive_cameras[o]
  /\ inactive_cameras' =
       [p \in (DOMAIN inactive_cameras \ {o}) \cup {active_output} |->
          IF p = active_output THEN camera ELSE inactive_cameras[p]]
  /\ active_output' = o
  /\ UNCHANGED <<windows, focus, next_output_id, idVars>>

CycleOutput ==
  \E next \in DOMAIN inactive_cameras :
    LET later == {o \in DOMAIN inactive_cameras : o > active_output}
    IN  /\ next = Min(IF later # {} THEN later ELSE DOMAIN inactive_cameras)
        /\ ActivateOutput(next)

\* Mutant: only the focused window's fullscreen locks the camera.
MoveCameraUnlessFocused(cam) ==
  /\ focus \in Ids => windows[focus].presentation # "Fullscreen"
  /\ cam.x \in -Limit.x .. Limit.x /\ cam.y \in -Limit.y .. Limit.y
  /\ camera' = cam
  /\ UNCHANGED <<windows, focus, active_output, inactive_cameras,
                 next_output_id, idVars>>

\* ensure_camera_action_available: any fullscreen window locks every camera.
MoveCamera(cam) ==
  /\ \A id \in Ids : windows[id].presentation # "Fullscreen"
  /\ cam.x \in -Limit.x .. Limit.x /\ cam.y \in -Limit.y .. Limit.y
  /\ camera' = cam
  /\ UNCHANGED <<windows, focus, active_output, inactive_cameras,
                 next_output_id, idVars>>

CameraStep(d)    == MoveCamera(Step(camera, d))
CameraNudge(d)   == MoveCamera(Nudge(camera, d))
CameraPan(delta) == MoveCamera(At(camera, camera.x + delta.x, camera.y + delta.y))
CameraTo(id)     == MoveCamera(ToWindow(camera, windows[id].rect))
CameraCenter(id) == MoveCamera(CenterOn(camera, windows[id].rect))
CameraFollow(id) == MoveCamera(Follow(camera, windows[id].rect))
CameraZoom(zoom) == MoveCamera([camera EXCEPT !.zoom = zoom])

\* A configuration reload resizes the active camera only, and no lock stops it.
ResizeCameraViewport(size) ==
  /\ camera' = [camera EXCEPT !.w = size.w, !.h = size.h]
  /\ UNCHANGED <<windows, focus, active_output, inactive_cameras,
                 next_output_id, idVars>>

-----------------------------------------------------------------------------

LifetimeStep ==
  \/ \E size \in InitialSizes : PlaceWindow(size)
  \/ \E id \in Ids : RemoveWindow(id)

GeometryStep ==
  \/ \E id \in Ids, p \in Origins : MoveWindowContinuous(id, p)
  \/ \E first, second \in Ids : SwapWindows(first, second)
  \/ \E id \in Ids, size \in Sizes : ResizeWindow(id, size)
  \/ \E id \in Ids, p \in Origins, size \in Sizes : ResizeWindowRect(id, RectAt(p, size))
  \/ \E id \in Ids, size \in InitialSizes : ToggleWindowSize(id, size)

PropertyStep ==
  \/ \E id \in Ids : ToggleFloating(id)
  \/ \E id \in Ids, v \in {"tiled", "floating"} : SetWindowProperty(id, v)
  \/ \E id \in Ids : ClearWindowProperty(id)
  \/ \E id \in Ids, v \in FloatingValue : ReplaceConfigProperties(id, v)

PresentationStep ==
  \E id \in Ids, p \in {"Maximized", "Fullscreen"} : TogglePresentation(id, p)

FocusStep ==
  \/ \E id \in Ids : FocusWindow(id)
  \/ \E d \in Direction : SetNextPlacement(d)
  \/ \E d \in Direction : FocusDirection(d)

OutputStep ==
  \/ \E size \in Viewports : AddOutput(size)
  \/ \E o \in Outputs : ActivateOutput(o)
  \/ CycleOutput

CameraActionStep ==
  \/ \E d \in Direction : CameraStep(d)
  \/ \E d \in Direction : CameraNudge(d)
  \/ \E delta \in Pans : CameraPan(delta)
  \/ \E id \in Ids : CameraTo(id)
  \/ \E id \in Ids : CameraCenter(id)
  \/ \E id \in Ids : CameraFollow(id)
  \/ \E zoom \in Zooms : CameraZoom(zoom)

CameraMotion == CameraActionStep \/ \E size \in Viewports : ResizeCameraViewport(size)

NormalNext ==
  \/ LifetimeStep \/ GeometryStep \/ PropertyStep
  \/ FocusStep \/ OutputStep \/ CameraMotion

Next == NormalNext \/ PresentationStep

Spec == Init /\ [][Next]_vars

\* A World whose windows are never maximized or made fullscreen.
NormalSpec == Init /\ [][NormalNext]_vars
=============================================================================
