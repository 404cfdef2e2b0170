--------------------------- MODULE WorldTypeProofs ---------------------------
(***************************************************************************)
(* TypeOK is an invariant of the World, for every number of windows and    *)
(* Outputs, every field and every set of sizes, origins and viewports.     *)
(***************************************************************************)
EXTENDS WorldProperties, WellFoundedInduction, TLAPS

-----------------------------------------------------------------------------
(* Least numbers *)

\* Some number is the least of any there are.
LEMMA LeastNumber ==
  ASSUME NEW T, T \subseteq Nat, T # {}
  PROVE  \E x \in T : \A y \in T : x <= y
  <1>1. IsWellFoundedOn(OpToRel(<, Nat), Nat)
    BY NatLessThanWellFounded
  <1>2. PICK x \in T : \A y \in T : ~ (<<y, x>> \in OpToRel(<, Nat))
    BY <1>1, WFMin
  <1>3. \A y \in T : ~ (y < x)
    BY <1>2 DEF OpToRel
  <1>4. x \in Nat
    BY <1>2
  <1> QED  BY <1>3, <1>4

-----------------------------------------------------------------------------
(* Rectangles and windows *)

\* Rounding to a grid line keeps an integer an integer.
LEMMA RoundingType ==
  ASSUME NEW v \in Int
  PROVE  FloorCell(v) \in Int /\ CeilCell(v) \in Int /\ RoundCell(v) \in Int
  BY DEF FloorCell, CeilCell, RoundCell, Cell

\* The operators on rectangles return rectangles and integers.
LEMMA RectTypes ==
  ASSUME NEW r \in Rect
  PROVE  /\ \A p \in Point : MovedTo(r, p) \in Rect
         /\ \A s \in Size : Resized(r, s) \in Rect
         /\ \A dx, dy \in Int : Translated(r, dx, dy) \in Rect
         /\ Origin(r) \in Point
         /\ \A d \in Direction : Edge(r, d) \in Int
  <1>1. \A p \in Point : MovedTo(r, p) \in Rect
    BY DEF MovedTo, Rect, Point
  <1>2. \A s \in Size : Resized(r, s) \in Rect
    BY DEF Resized, Rect, Size
  <1>3. ASSUME NEW dx \in Int, NEW dy \in Int PROVE Translated(r, dx, dy) \in Rect
    <2>1. r.x + dx \in Int /\ r.y + dy \in Int
      BY DEF Rect
    <2> QED  BY <2>1 DEF Translated, Rect
  <1>4. Origin(r) \in Point
    BY DEF Origin, Rect, Point
  <1>5. \A d \in Direction : Edge(r, d) \in Int
    BY DEF Edge, Direction, Right, Bottom, Cell, Rect
  <1> QED  BY <1>1, <1>2, <1>3, <1>4, <1>5

\* A translation by nothing is the identity.
LEMMA TranslatedNowhere ==
  ASSUME NEW r \in Rect
  PROVE  Translated(r, 0 + 0, 0 + 0) = r
  <1>1. r.x + (0 + 0) = r.x /\ r.y + (0 + 0) = r.y
    BY DEF Rect
  <1>2. [r EXCEPT !.x = r.x, !.y = r.y] = r
    BY DEF Rect
  <1> QED  BY <1>1, <1>2 DEF Translated

\* A rectangle of a known size that stays in the World is a rectangle.
LEMMA InWorldRect ==
  ASSUME NEW p, NEW s \in Size, InWorld(RectAt(p, s))
  PROVE  RectAt(p, s) \in Rect
  BY DEF InWorld, RectAt, Rect, Size

\* A window of the World with another rectangle is a window.
LEMMA WithRectType ==
  ASSUME TypeOK, NEW id \in Ids, NEW rect \in Rect
  PROVE  [windows EXCEPT ![id].rect = rect] \in [Ids -> Window]
  BY DEF TypeOK, Window

\* Dragging a chain of followers along keeps every window a window.
LEMMA FollowersType ==
  ASSUME TypeOK, NEW id \in Ids, NEW rect \in Rect
  PROVE  WithFollowers(windows, id, rect, Pulls(windows, id, rect)) \in [Ids -> Window]
  <1> DEFINE pulls == Pulls(windows, id, rect)
             Shift(f, d) == IF f \in pulls[d].chain THEN pulls[d].delta ELSE 0
  <1>1. ASSUME NEW d \in Direction PROVE pulls[d].delta \in Int
    <2>1. windows[id].rect \in Rect
      BY DEF TypeOK, Window
    <2>2. Edge(rect, d) \in Int /\ Edge(windows[id].rect, d) \in Int
      BY <2>1, RectTypes
    <2> QED  BY <2>2 DEF Pulls, EdgePull, Direction
  <1>2. \A f, d : d \in Direction => Shift(f, d) \in Int
    BY <1>1
  <1> HIDE DEF pulls, Shift
  <1>3. ASSUME NEW o \in Ids
        PROVE  Translated(windows[o].rect, Shift(o, "Left") + Shift(o, "Right"),
                          Shift(o, "Up") + Shift(o, "Down")) \in Rect
    <2>1. windows[o].rect \in Rect
      BY DEF TypeOK, Window
    <2>2. /\ Shift(o, "Left") + Shift(o, "Right") \in Int
          /\ Shift(o, "Up") + Shift(o, "Down") \in Int
      BY <1>2 DEF Direction
    <2> QED  BY <2>1, <2>2, RectTypes
  <1>4. ASSUME NEW o \in Ids, NEW r \in Rect
        PROVE  [windows[o] EXCEPT !.rect = r] \in Window
    <2>1. windows[o] \in Window
      BY DEF TypeOK
    <2> QED  BY <2>1 DEF Window
  <1> QED  BY <1>3, <1>4 DEF WithFollowers, Ids, pulls, Shift

\* Whoever is not dragged along stays as it is.
LEMMA UndraggedStay ==
  ASSUME TypeOK, NEW id \in Ids, NEW rect, NEW pulls,
         NEW o \in Ids \ ({id} \cup Dragged(pulls))
  PROVE  WithFollowers(windows, id, rect, pulls)[o] = windows[o]
  <1>1. windows[o] \in Window /\ windows[o].rect \in Rect
    BY DEF TypeOK, Window
  <1>2. \A d \in Direction : o \notin pulls[d].chain
    BY DEF Dragged
  <1>3. Translated(windows[o].rect, 0 + 0, 0 + 0) = windows[o].rect
    BY <1>1, TranslatedNowhere
  <1>4. WithFollowers(windows, id, rect, pulls)[o]
          = [windows[o] EXCEPT !.rect = Translated(windows[o].rect, 0 + 0, 0 + 0)]
    BY <1>2 DEF WithFollowers, Direction, Ids
  <1> QED  BY <1>1, <1>3, <1>4 DEF Window

\* Committing a map of windows over the same ids preserves the types.
LEMMA CommitType ==
  ASSUME TypeOK, NEW wins \in [Ids -> Window], Commit(wins)
  PROVE  TypeOK'
  BY DEF TypeOK, Commit, Ids, outputVars, idVars

-----------------------------------------------------------------------------
(* The steps *)

\* A new window is entered under the next id, with the rectangle it was given.
LEMMA PlaceWindowType ==
  ASSUME TypeOK, NEW size \in InitialSizes, PlaceWindow(size)
  PROVE  TypeOK'
  <1> DEFINE rect == RectAt(PlacementOrigin(windows, camera, focus, next_placement, size), size)
  <1>1. rect \in Rect
    BY WorldAssumption, InWorldRect DEF PlaceWindow, GridRect
  <1>2. NewWindow(rect) \in Window
    BY <1>1 DEF NewWindow, Window, FloatingValue, Presentation
  <1>3. windows' = [id \in Ids \cup {next_window_id} |->
                      IF id = next_window_id THEN NewWindow(rect) ELSE windows[id]]
    BY DEF PlaceWindow
  <1> HIDE DEF rect
  <1>4. Ids' = Ids \cup {next_window_id} /\ windows' \in [Ids' -> Window]
    BY <1>2, <1>3 DEF TypeOK, Ids
  <1> QED  BY WorldAssumption, <1>4 DEF TypeOK, PlaceWindow, outputVars

\* Removing a window takes it out of the focus as well.
LEMMA RemoveWindowType ==
  ASSUME TypeOK, NEW id \in Ids, RemoveWindow(id)
  PROVE  TypeOK'
  <1>1. Ids' = Ids \ {id} /\ windows' \in [Ids' -> Window]
    BY DEF TypeOK, RemoveWindow, Ids
  <1> QED  BY <1>1 DEF TypeOK, RemoveWindow, outputVars, idVars

\* toggle_window_size asks for a size: half of an initial width is not empty.
LEMMA ToggledSize ==
  ASSUME NEW size \in InitialSizes, NEW width
  PROVE  [size EXCEPT !.w = IF width = @ \/ width < (size.w \div 2) + (size.w % 2)
                            THEN (size.w \div 2) + (size.w % 2) ELSE @] \in Size
  <1> DEFINE half == (size.w \div 2) + (size.w % 2)
  <1>1. size \in Size /\ half \in Nat \ {0}
    BY WorldAssumption DEF Size
  <1> HIDE DEF half
  <1>2. [size EXCEPT !.w = IF width = @ \/ width < half THEN half ELSE @] \in Size
    BY <1>1 DEF Size
  <1> QED  BY <1>2 DEF half

\* Moves, swaps and resizes give every window they touch another rectangle.
LEMMA GeometryType ==
  ASSUME TypeOK, GeometryStep
  PROVE  TypeOK'
  <1>0. \A id \in Ids : windows[id].rect \in Rect
    BY DEF TypeOK, Window
  <1>1. ASSUME NEW id \in Ids, NEW p \in Origins, MoveWindowContinuous(id, p)
        PROVE  TypeOK'
    <2>1. MovedTo(windows[id].rect, p) \in Rect
      BY WorldAssumption, <1>0, RectTypes
    <2> QED  BY <1>1, <2>1, WithRectType, CommitType DEF MoveWindowContinuous, CommitRect
  <1>2. ASSUME NEW first \in Ids, NEW second \in Ids, SwapWindows(first, second)
        PROVE  TypeOK'
    <2> DEFINE a == MovedTo(windows[first].rect, Origin(windows[second].rect))
               b == MovedTo(windows[second].rect, Origin(windows[first].rect))
    <2>1. a \in Rect /\ b \in Rect
      BY <1>0, RectTypes
    <2>2. Commit([windows EXCEPT ![first].rect = a, ![second].rect = b])
      BY <1>2 DEF SwapWindows
    <2> HIDE DEF a, b
    <2>3. [windows EXCEPT ![first].rect = a, ![second].rect = b] \in [Ids -> Window]
      BY <2>1 DEF TypeOK, Window
    <2> QED  BY <2>2, <2>3, CommitType
  <1>3. ASSUME NEW id \in Ids, NEW size \in Size, ResizeWindow(id, size)
        PROVE  TypeOK'
    <2>1. Resized(windows[id].rect, size) \in Rect
      BY <1>0, RectTypes
    <2> QED  BY <1>3, <2>1, WithRectType, FollowersType, CommitType
             DEF ResizeWindow, CommitRect
  <1>4. ASSUME NEW id \in Ids, NEW p \in Origins, NEW size \in Sizes,
               ResizeWindowRect(id, RectAt(p, size))
        PROVE  TypeOK'
    <2>1. RectAt(p, size) \in Rect
      BY WorldAssumption, <1>4, InWorldRect DEF ResizeWindowRect, GridRect
    <2> QED  BY <1>4, <2>1, WithRectType, FollowersType, CommitType
             DEF ResizeWindowRect, CommitRect
  <1>5. ASSUME NEW id \in Ids, NEW size \in InitialSizes, ToggleWindowSize(id, size)
        PROVE  TypeOK'
    BY <1>3, <1>5, ToggledSize DEF ToggleWindowSize
  <1> QED  BY WorldAssumption, <1>1, <1>2, <1>3, <1>4, <1>5 DEF GeometryStep

\* Every setter of the floating property commits one window, checked: only
\* rounding touches its rectangle.
LEMMA PropertyConstrains ==
  ASSUME TypeOK, PropertyStep
  PROVE  \E id \in Ids, w \in Window : Constrain(id, w)
  <1>0. ASSUME NEW id \in Ids PROVE windows[id] \in Window /\ windows[id].rect \in Rect
    BY DEF TypeOK, Window
  <1>1. ASSUME NEW id \in Ids, ToggleFloating(id)
        PROVE  \E w \in Window : Constrain(id, w)
    <2> DEFINE aligned == [windows[id] EXCEPT !.runtime = "tiled",
                             !.rect.x = RoundCell(@), !.rect.y = RoundCell(@)]
    <2>1. aligned \in Window
      <3>1. RoundCell(windows[id].rect.x) \in Int /\ RoundCell(windows[id].rect.y) \in Int
        BY <1>0, RoundingType DEF Rect
      <3> QED  BY <1>0, <3>1 DEF Window, Rect, FloatingValue
    <2>2. [windows[id] EXCEPT !.runtime = "floating"] \in Window
      BY <1>0 DEF Window, FloatingValue
    <2> QED  BY <1>1, <2>1, <2>2 DEF ToggleFloating
  <1>2. ASSUME NEW id \in Ids, NEW v \in FloatingValue
        PROVE  /\ [windows[id] EXCEPT !.runtime = v] \in Window
               /\ [windows[id] EXCEPT !.config = v] \in Window
    BY <1>0 DEF Window
  <1> QED  BY <1>1, <1>2 DEF PropertyStep, SetWindowProperty, ClearWindowProperty,
                             ReplaceConfigProperties, FloatingValue

LEMMA PropertyType ==
  ASSUME TypeOK, PropertyStep
  PROVE  TypeOK'
  <1> PICK id \in Ids, w \in Window : Constrain(id, w)
    BY PropertyConstrains
  <1>1. [windows EXCEPT ![id] = w] \in [Ids -> Window]
    BY DEF TypeOK
  <1> QED  BY <1>1, CommitType DEF Constrain

\* Entering a presentation takes the whole cells of the camera's view, leaving
\* it the stored rectangle if there is one.
LEMMA PresentationType ==
  ASSUME TypeOK, PresentationStep
  PROVE  TypeOK'
  <1> SUFFICES ASSUME NEW id \in Ids, NEW p \in {"Maximized", "Fullscreen"},
                      TogglePresentation(id, p)
               PROVE  TypeOK'
    BY DEF PresentationStep
  <1>1. Viewport(camera) \in Rect
    <2>1. camera \in CameraState
      BY DEF TypeOK
    <2>2. FloorCell(camera.x) \in Int /\ FloorCell(camera.y) \in Int
      BY <2>1, RoundingType DEF CameraState
    <2> QED  BY <2>1, <2>2 DEF Viewport, View, CameraState, Rect
  <1>2. windows[id] \in Window
    BY DEF TypeOK
  <1>3. Presented(windows[id], p) \in Window
    <2> HIDE DEF Viewport
    <2>1. CASE p = windows[id].presentation
      BY <1>2, <2>1 DEF Presented, Window, Presentation
    <2>2. CASE p # windows[id].presentation
      BY <1>1, <1>2, <2>2 DEF Presented, Window, Presentation
    <2> QED  BY <2>1, <2>2
  <1>4. [windows EXCEPT ![id] = Presented(@, p)] \in [Ids -> Window]
    BY <1>3 DEF TypeOK
  <1> QED  BY <1>4, CommitType DEF TogglePresentation

\* Focus goes to windows that exist, and a request captures the focus.
LEMMA FocusType ==
  ASSUME TypeOK, FocusStep
  PROVE  TypeOK'
  <1>1. ASSUME NEW id \in Ids, FocusWindow(id) PROVE TypeOK'
    BY <1>1 DEF TypeOK, FocusWindow, Ids, outputVars, idVars
  <1>2. ASSUME NEW d \in Direction, SetNextPlacement(d) PROVE TypeOK'
    BY <1>2 DEF TypeOK, SetNextPlacement, Ids, outputVars
  <1>3. ASSUME NEW d \in Direction, FocusDirection(d) PROVE TypeOK'
    BY <1>1, <1>3 DEF FocusDirection, FocusEntryCandidate, DirectionalNeighbor, Ahead
  <1> QED  BY <1>1, <1>2, <1>3 DEF FocusStep

\* Every Output keeps exactly one camera, the active one's being apart.
LEMMA OutputType ==
  ASSUME TypeOK, OutputStep
  PROVE  TypeOK'
  <1>1. ASSUME NEW size \in Viewports, AddOutput(size) PROVE TypeOK'
    <2> DEFINE new == NewCamera([x |-> (next_output_id - 1) * Cell * size.w, y |-> 0], size)
    <2>1. new \in CameraState
      BY WorldAssumption DEF NewCamera, CameraState, TypeOK, Size, Cell
    <2>2. inactive_cameras' = [o \in DOMAIN inactive_cameras \cup {next_output_id} |->
                                 IF o = next_output_id THEN new ELSE inactive_cameras[o]]
      BY <1>1 DEF AddOutput
    <2> HIDE DEF new
    <2>3. next_output_id' = next_output_id + 1 /\ next_output_id < LastOutputId
      BY <1>1 DEF AddOutput
    <2>4. DOMAIN inactive_cameras \cup {next_output_id}
            = 1 .. next_output_id' - 1 \ {active_output}
      BY <2>3 DEF TypeOK
    <2>5. inactive_cameras' \in [1 .. next_output_id' - 1 \ {active_output} -> CameraState]
      BY <2>1, <2>2, <2>4 DEF TypeOK
    <2> QED  BY WorldAssumption, <1>1, <2>3, <2>5 DEF AddOutput, TypeOK, Ids, idVars
  <1>2. ASSUME NEW o, ActivateOutput(o) PROVE TypeOK'
    <2>1. o \in 1 .. next_output_id - 1 /\ o # active_output
      BY <1>2 DEF ActivateOutput, TypeOK
    <2>2. inactive_cameras' \in [1 .. next_output_id - 1 \ {o} -> CameraState]
      BY <1>2, <2>1 DEF ActivateOutput, TypeOK
    <2>3. camera' \in CameraState /\ active_output' = o
      BY <1>2, <2>1 DEF ActivateOutput, TypeOK
    <2> QED  BY <1>2, <2>1, <2>2, <2>3 DEF ActivateOutput, TypeOK, Ids, idVars
  <1> QED  BY <1>1, <1>2 DEF OutputStep, CycleOutput

\* A camera that only changes its position, zoom or viewport is a camera.
LEMMA CameraType ==
  ASSUME TypeOK, CameraMotion
  PROVE  TypeOK'
  <1>0. camera \in CameraState
    BY DEF TypeOK
  <1>1. ASSUME camera' \in CameraState,
               UNCHANGED <<windows, focus, active_output, inactive_cameras,
                           next_output_id, idVars>>
        PROVE  TypeOK'
    BY <1>1 DEF TypeOK, Ids, idVars
  <1>2. ASSUME NEW x, NEW y, MoveCamera(At(camera, x, y)) PROVE TypeOK'
    <2>1. camera' = At(camera, x, y)
      BY <1>2 DEF MoveCamera
    <2>2. At(camera, x, y).x \in Int /\ At(camera, x, y).y \in Int
      BY <1>2 DEF MoveCamera
    <2>3. camera' \in CameraState
      BY <1>0, <2>1, <2>2 DEF At, CameraState
    <2> QED  BY <1>1, <1>2, <2>3 DEF MoveCamera
  <1>3. ASSUME NEW zoom \in Zooms, CameraZoom(zoom) PROVE TypeOK'
    BY WorldAssumption, <1>0, <1>1, <1>3 DEF CameraZoom, MoveCamera, CameraState
  <1>4. ASSUME NEW size \in Viewports, ResizeCameraViewport(size) PROVE TypeOK'
    BY WorldAssumption, <1>0, <1>1, <1>4 DEF ResizeCameraViewport, CameraState, Size
  <1>5. ASSUME NEW d \in Direction, CameraStep(d) \/ CameraNudge(d) PROVE TypeOK'
    BY <1>2, <1>5 DEF CameraStep, CameraNudge, Step, Nudge, Toward, Direction
  <1>6. ASSUME NEW delta \in Pans, CameraPan(delta) PROVE TypeOK'
    BY <1>2, <1>6 DEF CameraPan
  <1>7. ASSUME NEW id \in Ids, CameraTo(id) \/ CameraCenter(id) \/ CameraFollow(id)
        PROVE  TypeOK'
    BY <1>2, <1>7 DEF CameraTo, CameraCenter, CameraFollow, ToWindow, CenterOn, Follow
  <1> QED  BY <1>3, <1>4, <1>5, <1>6, <1>7 DEF CameraMotion, CameraActionStep

\* Focus, Outputs and cameras are changed without a window noticing.
LEMMA WindowsUntouched ==
  ASSUME FocusStep \/ OutputStep \/ CameraMotion
  PROVE  UNCHANGED windows
  BY DEF FocusStep, FocusWindow, SetNextPlacement, FocusDirection, OutputStep, AddOutput,
         ActivateOutput, CycleOutput, CameraMotion, CameraActionStep, CameraStep, CameraNudge,
         CameraPan, CameraTo, CameraCenter, CameraFollow, CameraZoom, MoveCamera,
         ResizeCameraViewport

\* What is done to rectangles, properties and presentation replaces windows
\* under the ids they have.
LEMMA WindowsReplaced ==
  ASSUME GeometryStep \/ PropertyStep \/ PresentationStep
  PROVE  Ids' = Ids /\ UNCHANGED <<focus, next_window_id, outputVars>>
  <1> DEFINE Replaced == Ids' = Ids /\ UNCHANGED <<focus, next_window_id, outputVars>>
  <1>0. ASSUME NEW wins, Commit(wins), DOMAIN wins = Ids PROVE Replaced
    BY <1>0 DEF Commit, Ids, idVars
  <1>1. ASSUME NEW id, NEW rect, CommitRect(id, rect) PROVE Replaced
    BY <1>0, <1>1 DEF CommitRect, Ids
  <1>2. ASSUME NEW id, NEW w, Constrain(id, w) PROVE Replaced
    BY <1>0, <1>2 DEF Constrain, Ids
  <1>3. ASSUME NEW id, NEW rect, NEW pulls, Commit(WithFollowers(windows, id, rect, pulls))
        PROVE  Replaced
    BY <1>0, <1>3 DEF WithFollowers, Ids
  <1>4. ASSUME NEW id, NEW size, ResizeWindow(id, size) PROVE Replaced
    BY <1>1, <1>3, <1>4 DEF ResizeWindow
  <1>5. ASSUME NEW id, NEW rect, ResizeWindowRect(id, rect) PROVE Replaced
    BY <1>1, <1>3, <1>5 DEF ResizeWindowRect
  <1>6. ASSUME NEW first, NEW second, SwapWindows(first, second) PROVE Replaced
    BY <1>0, <1>6 DEF SwapWindows, Ids
  <1>7. ASSUME NEW id, NEW p, MoveWindowContinuous(id, p) PROVE Replaced
    BY <1>1, <1>7 DEF MoveWindowContinuous
  <1>8. ASSUME NEW id, NEW size, ToggleWindowSize(id, size) PROVE Replaced
    BY <1>4, <1>8 DEF ToggleWindowSize
  <1>9. ASSUME NEW id, NEW p, TogglePresentation(id, p) PROVE Replaced
    BY <1>0, <1>9 DEF TogglePresentation, Ids
  <1>10. CASE GeometryStep
    BY <1>4, <1>5, <1>6, <1>7, <1>8, <1>10 DEF GeometryStep
  <1>11. CASE PropertyStep
    BY <1>2, <1>11 DEF PropertyStep, ToggleFloating, SetWindowProperty, ClearWindowProperty,
                       ReplaceConfigProperties
  <1>12. CASE PresentationStep
    BY <1>9, <1>12 DEF PresentationStep
  <1> QED  BY <1>10, <1>11, <1>12

\* What is done to windows and focus leaves the Outputs and their cameras alone.
LEMMA CamerasUntouched ==
  ASSUME LifetimeStep \/ GeometryStep \/ PropertyStep \/ FocusStep \/ PresentationStep
         \/ UNCHANGED vars
  PROVE  UNCHANGED outputVars
  <1>1. CASE LifetimeStep
    BY <1>1 DEF LifetimeStep, PlaceWindow, RemoveWindow
  <1>2. CASE GeometryStep \/ PropertyStep \/ PresentationStep
    BY <1>2, WindowsReplaced
  <1>3. CASE FocusStep
    BY <1>3 DEF FocusStep, FocusWindow, SetNextPlacement, FocusDirection
  <1>4. CASE UNCHANGED vars
    BY <1>4 DEF vars
  <1> QED  BY <1>1, <1>2, <1>3, <1>4

-----------------------------------------------------------------------------

LEMMA TypeKept ==
  ASSUME TypeOK, [Next]_vars
  PROVE  TypeOK'
  <1>1. CASE UNCHANGED vars
    BY <1>1 DEF TypeOK, vars, outputVars, idVars, Ids
  <1>2. CASE LifetimeStep
    BY <1>2, PlaceWindowType, RemoveWindowType DEF LifetimeStep
  <1>3. CASE GeometryStep
    BY <1>3, GeometryType
  <1>4. CASE PropertyStep
    BY <1>4, PropertyType
  <1>5. CASE FocusStep
    BY <1>5, FocusType
  <1>6. CASE OutputStep
    BY <1>6, OutputType
  <1>7. CASE CameraMotion
    BY <1>7, CameraType
  <1>8. CASE PresentationStep
    BY <1>8, PresentationType
  <1> QED  BY <1>1, <1>2, <1>3, <1>4, <1>5, <1>6, <1>7, <1>8 DEF Next, NormalNext

LEMMA InitType ==
  ASSUME Init
  PROVE  TypeOK
  BY WorldAssumption DEF Init, TypeOK, Ids, NewCamera, CameraState, Size

\* Whatever is asked of the World, its fields keep their types, ids are issued
\* in order, and focus and cameras refer to what exists.
THEOREM TypeCorrect == Spec => []TypeOK
  BY InitType, TypeKept, PTL DEF Spec
=============================================================================
