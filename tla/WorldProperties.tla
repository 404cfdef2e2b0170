--------------------------- MODULE WorldProperties ---------------------------
(***************************************************************************)
(* What has to be true of the World, whatever is asked of it.              *)
(***************************************************************************)
EXTENDS World

\* The fields hold what their types allow, ids are issued in order and never
\* twice, the focus and the cameras refer to windows and Outputs that exist
\* (struct World; remove_window, place_window, add_output, activate_output).
TypeOK ==
  /\ Ids \subseteq 1 .. next_window_id - 1
  /\ windows \in [Ids -> Window]
  /\ next_window_id \in 1 .. LastWindowId
  /\ focus \in Ids \cup {None}
  /\ next_placement \in [direction : Direction, anchor : 1 .. next_window_id - 1 \cup {None}]
                          \cup {None}
  /\ next_output_id \in 2 .. LastOutputId
  /\ active_output \in 1 .. next_output_id - 1
  /\ camera \in CameraState
  /\ inactive_cameras \in [1 .. next_output_id - 1 \ {active_output} -> CameraState]

-----------------------------------------------------------------------------
(* Occupancy of the grid *)

\* No two tiled windows share a cell: placement, moves, swaps, resizes that
\* drag a chain of neighbours along and every change of the floating property
\* keep the grid an exclusive resource, as long as no window is presented.
TiledDisjoint ==
  \A a, b \in TiledIds(windows) : a # b => ~ Overlaps(windows[a].rect, windows[b].rect)

\* A tiled window lies on grid lines (WorldError::OffGrid), although windows
\* float to positions between them and come back by three different ways.
TiledOnGrid == \A id \in TiledIds(windows) : OnGrid(windows[id].rect)

Collide(wins, a, b) ==
  {a, b} \subseteq TiledIds(wins) /\ Overlaps(wins[a].rect, wins[b].rect)

\* Once windows are maximized or fullscreen, tiled windows do overlap.  Two
\* windows that did not collide and now do owe it to a presentation that was
\* entered or left in this very step: every other operation, on those windows
\* or on third ones, validates what it is about to commit.
OverlapStep ==
  \A a, b \in Ids \cap Ids' :
    a # b /\ Collide(windows', a, b) /\ ~ Collide(windows, a, b) =>
      \E id \in {a, b} : windows'[id].presentation # windows[id].presentation

OverlapOnlyFromPresentation == [][OverlapStep]_vars

-----------------------------------------------------------------------------
(* Resizing *)

OnlyEdgeMoved(old, new, d) ==
  \A e \in Direction : (Edge(old, e) # Edge(new, e)) <=> (e = d)

\* When one edge of a tiled window is dragged, either nothing else moves or the
\* whole chain does: whoever touched the edge, or a member of the chain on that
\* side, moves by exactly the same distance, and nobody moves who did not touch
\* (edge_followers, resize_tiled_with_followers, resize_window_continuous_rect).
ResizeCarriesChain ==
  [][\A id \in TiledIds(windows) \cap Ids', d \in Direction :
       LET old   == windows[id].rect
           new   == windows'[id].rect
           delta == Edge(new, d) - Edge(old, d)
           moved == {o \in Ids \ {id} : windows'[o] # windows[o]}
       IN  OnlyEdgeMoved(old, new, d) /\ moved # {} =>
             /\ \A o \in moved :
                  /\ windows'[o].rect = IF Horizontal(d)
                                        THEN Translated(windows[o].rect, delta, 0)
                                        ELSE Translated(windows[o].rect, 0, delta)
                  /\ \E f \in moved \cup {id} : Touches(windows[f].rect, windows[o].rect, d)
             /\ \A f \in moved \cup {id}, o \in TiledIds(windows) \ {id} :
                  Touches(windows[f].rect, windows[o].rect, d) => o \in moved]_vars

-----------------------------------------------------------------------------
(* Placement *)

\* The anchors set_next_placement may have captured, a window gone since and
\* no anchor at all included.
Requests == [direction : Direction, anchor : 1 .. next_window_id - 1 \cup {None}]

Along(p, d, cells) ==
  CASE d = "Left"  -> [p EXCEPT !.x = @ - Cell * cells]
    [] d = "Right" -> [p EXCEPT !.x = @ + Cell * cells]
    [] d = "Up"    -> [p EXCEPT !.y = @ - Cell * cells]
    [] d = "Down"  -> [p EXCEPT !.y = @ + Cell * cells]

\* The windows a placement may start from: the anchor, if there is one on the
\* grid, else what sticks out farthest of the windows in view.
Starts(request) ==
  LET visible == VisibleTiled(windows, camera)
      anchor  == IF request.anchor = None THEN {focus} \cap visible
                 ELSE {request.anchor} \cap TiledIds(windows)
  IN  IF anchor # {} THEN anchor
      ELSE {id \in visible : Edge(windows[id].rect, request.direction)
                              = Furthest(windows, visible, request.direction)}

\* A new window goes beside the anchor, on the asked side, to the nearest free
\* origin in that direction: all nearer ones are blocked, and the loop of
\* advance_placement_past_occupied, which hops over several blockers at once,
\* neither skips a gap that is wide enough nor stops on an occupied one.
PlacementIsNearest ==
  \A request \in Requests, size \in InitialSizes :
    LET p == PlacementOrigin(windows, camera, focus, request, size)
        d == request.direction
        Free(start, n) == Blockers(windows, RectAt(Along(start, d, n), size)) = {}
    IN  VisibleTiled(windows, camera) # {} =>
          \E id \in Starts(request), cells \in 0 .. Limit.x + Limit.y :
            LET start == BesideOrigin(windows[id].rect, size, d)
            IN  /\ p = Along(start, d, cells)
                /\ Free(start, cells) /\ \A n \in 0 .. cells - 1 : ~ Free(start, n)

\* Floating windows steer the placement of a tiled window neither as what the
\* camera sees, nor as its anchor, nor as an obstacle (place_window).
FloatingNeverSteersPlacement ==
  LET tiled == [id \in TiledIds(windows) |-> windows[id]]
  IN  \A request \in Requests \cup {None}, size \in InitialSizes :
        PlacementOrigin(windows, camera, focus, request, size) =
        PlacementOrigin(tiled, camera, focus, request, size)

-----------------------------------------------------------------------------
(* Properties *)

-----------------------------------------------------------------------------
(* Presentation *)

NormalRect(w) == IF w.presentation = "Normal" THEN w.rect ELSE w.restore

\* Whatever happens to a window while it is presented (a change from maximized
\* to fullscreen, a move, a resize, a swap, a neighbour's resize, a toggle of
\* its floating property), it comes back to the rectangle it had, and until
\* then it keeps the rectangle its presentation gave it.
PresentedStep ==
  \A id \in Ids \cap Ids' :
    LET w == windows[id]
        v == windows'[id]
    IN  /\ w.presentation # "Normal" \/ v.presentation # "Normal"
             => NormalRect(v) = NormalRect(w)
        /\ w.presentation # "Normal" /\ v.presentation = w.presentation
             => v.rect = w.rect

PresentationRoundTrip == [][PresentedStep]_vars

-----------------------------------------------------------------------------
(* Cameras and Outputs *)

\* While any window is fullscreen no Output's camera changes its position or
\* zoom, however the focus and the active Output change in the meantime
\* (ensure_camera_action_available).
CameraHeldStep ==
  (\E id \in Ids : windows[id].presentation = "Fullscreen") =>
     \A o \in Outputs :
       LET c == CameraForOutput(o)
           k == CameraForOutput(o)'
       IN  k.x = c.x /\ k.y = c.y /\ k.zoom = c.zoom

CameraHeldByFullscreen == [][CameraHeldStep]_vars

Holds(big, small) ==
  /\ big.x <= small.x /\ Right(small) <= Right(big)
  /\ big.y <= small.y /\ Bottom(small) <= Bottom(big)

\* CameraFollow brings the whole window into what the zoomed camera sees when
\* it fits there, and centres on it otherwise; a window that is wholly visible
\* moves nothing, so following twice is following once (camera_follow_window).
FollowReveals ==
  \A id \in Ids :
    LET rect     == windows[id].rect
        followed == Follow(camera, rect)
        fits     == rect.w <= Seen(camera).w /\ rect.h <= Seen(camera).h
    IN  /\ fits => Holds(Seen(followed), rect)
        /\ Holds(Seen(camera), rect) => followed = camera
        /\ ~ fits => CenterX(Seen(followed)) = CenterX(rect)
                     /\ CenterY(Seen(followed)) = CenterY(rect)

\* The World implements the Desktop: focus is never stolen, ids are never used
\* again and activating an Output keeps every other Output's camera.
Promise == INSTANCE Desktop WITH
  Sights  <- CameraState,
  opened  <- next_window_id - 1,
  live    <- Ids,
  focused <- focus,
  outputs <- next_output_id - 1,
  active  <- active_output,
  views   <- [o \in Outputs |-> CameraForOutput(o)]

DesktopSpec == Promise!Spec
=============================================================================
