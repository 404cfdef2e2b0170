------------------------------- MODULE Layout -------------------------------
(***************************************************************************)
(* What the World derives from the windows it holds: who occupies the      *)
(* grid, which neighbours an edge drags along, where a new window goes     *)
(* (the read-only half of mio-core/src/world.rs, window.rs, property.rs).  *)
(* Every operator takes the map from window ids to windows, so that it can *)
(* be asked of the current state and of a proposed one alike.              *)
(***************************************************************************)
EXTENDS Geometry, FiniteSets

LOCAL INSTANCE FiniteSetsExt

CONSTANTS
  Limit,  \* how far the World reaches on each axis, in units: stands for i64
  None    \* Option::None

ASSUME LimitAssumption == Limit \in [x : Nat, y : Nat]
ASSUME NoneAssumption  ==
  /\ None \notin Rect /\ None \notin Nat
  /\ None \notin [direction : Direction, anchor : Nat \cup {None}]

Presentation == {"Normal", "Maximized", "Fullscreen"}

\* One precedence layer's Option<bool> for the floating property.
FloatingValue == {"unset", "tiled", "floating"}

Window == [rect         : Rect,
           config       : FloatingValue,
           runtime      : FloatingValue,
           presentation : Presentation,
           restore      : Rect \cup {None}]

NewWindow(rect) ==
  [rect |-> rect, config |-> "unset", runtime |-> "unset",
   presentation |-> "Normal", restore |-> None]

\* Effective value: the runtime override, else configuration, else tiled.
Floats(w) ==
  \/ w.runtime = "floating"
  \/ w.runtime = "unset" /\ w.config = "floating"

TiledIds(wins) == {id \in DOMAIN wins : ~ Floats(wins[id])}

\* The f64 World has no edge and GridRect stops at i64; both end at Limit here.
InWorld(r) ==
  /\ r.x \in -Limit.x .. Limit.x /\ Right(r) <= Limit.x
  /\ r.y \in -Limit.y .. Limit.y /\ Bottom(r) <= Limit.y

\* GridRect: a rectangle of whole cells.
GridRect(r) == OnGrid(r) /\ InWorld(r)

-----------------------------------------------------------------------------
(* Occupancy *)

Blockers(wins, rect) == {o \in TiledIds(wins) : Overlaps(wins[o].rect, rect)}

GeometryAllowed(wins, id, rect) ==
  /\ wins[id].presentation = "Normal"
  /\ id \in TiledIds(wins) => Blockers(wins, rect) \subseteq {id}

\* Mutant: the grid is checked, the occupancy is not.
ConstraintWithoutOccupancy(wins, id, candidate) ==
  ~ Floats(candidate) => OnGrid(candidate.rect)

\* Mutant: the occupancy is checked, the grid is not.
ConstraintWithoutGrid(wins, id, candidate) ==
  ~ Floats(candidate) => Blockers(wins, candidate.rect) \subseteq {id}

ConstraintHolds(wins, id, candidate) ==
  ~ Floats(candidate) =>
     OnGrid(candidate.rect) /\ Blockers(wins, candidate.rect) \subseteq {id}

\* Mutant: the exchanged windows are compared with all others, not with each other.
SwapCheckingOthers(wins, first, second) ==
  /\ {first, second} \subseteq TiledIds(wins)
  /\ \A id \in {first, second} :
       /\ wins[id].presentation = "Normal"
       /\ Blockers(wins, MovedTo(wins[id].rect,
            Origin(wins[IF id = first THEN second ELSE first].rect))) \subseteq {first, second}

SwapAllowed(wins, first, second) ==
  LET moved == [wins EXCEPT
        ![first].rect  = MovedTo(@, Origin(wins[second].rect)),
        ![second].rect = MovedTo(@, Origin(wins[first].rect))]
  IN  /\ {first, second} \subseteq TiledIds(wins)
      /\ \A id \in {first, second} :
           /\ wins[id].presentation = "Normal"
           /\ Blockers(moved, moved[id].rect) \subseteq {id}

-----------------------------------------------------------------------------
(* Edge followers: the smallest set of tiled windows that holds whatever   *)
(* touches the d edge of id, or of a member.                               *)

Pulled(wins, from, d) ==
  {c \in TiledIds(wins) : \E f \in from : Touches(wins[f].rect, wins[c].rect, d)}

\* Mutant: the chain stops at the windows that touch id itself.
DirectFollowers(wins, id, d) == Pulled(wins, {id}, d) \ {id}

EdgeFollowers(wins, id, d) ==
  LET Closed(S) == Pulled(wins, S \cup {id}, d) \subseteq S \cup {id}
  IN  {c \in TiledIds(wins) \ {id} :
         \A S \in SUBSET (TiledIds(wins) \ {id}) : Closed(S) => c \in S}

\* For every edge of id that moves when id becomes rect: by how much, and the
\* windows it drags along.
EdgePull(wins, id, rect, d) ==
  LET delta == Edge(rect, d) - Edge(wins[id].rect, d)
  IN  [delta |-> delta,
       chain |-> IF delta = 0 THEN {} ELSE EdgeFollowers(wins, id, d)]

Pulls(wins, id, rect) ==
  [Left |-> EdgePull(wins, id, rect, "Left"), Right |-> EdgePull(wins, id, rect, "Right"),
   Up   |-> EdgePull(wins, id, rect, "Up"),   Down  |-> EdgePull(wins, id, rect, "Down")]

Dragged(pulls) == UNION {pulls[d].chain : d \in Direction}

WithFollowers(wins, id, rect, pulls) ==
  LET Shift(f, d) == IF f \in pulls[d].chain THEN pulls[d].delta ELSE 0
      Moved(f) == Translated(wins[f].rect,
                             Shift(f, "Left") + Shift(f, "Right"),
                             Shift(f, "Up") + Shift(f, "Down"))
  IN  [o \in DOMAIN wins |->
         [wins[o] EXCEPT !.rect = IF o = id THEN rect ELSE Moved(o)]]

Conflict(wins, o) == ~ (Blockers(wins, wins[o].rect) \subseteq {o})

ProposalAllowed(wins, changed, proposed) ==
  \A o \in changed : wins[o].presentation = "Normal" /\ ~ Conflict(proposed, o)

\* The windows are validated in id order and the first error is returned;
\* only an occupancy error lets the target be tried alone.
RetryAlone(wins, changed, proposed) ==
  \E o \in changed :
    /\ Conflict(proposed, o)
    /\ \A c \in changed : c <= o => wins[c].presentation = "Normal"
    /\ \A c \in changed : c < o => ~ Conflict(proposed, c)

-----------------------------------------------------------------------------
(* Placement of a new tiled window *)

View(cam) == [x |-> cam.x, y |-> cam.y, w |-> cam.w, h |-> cam.h]

\* Camera::viewport: the view on whole cells.
Viewport(cam) == [View(cam) EXCEPT !.x = FloorCell(@), !.y = FloorCell(@)]

\* Mutant: floating windows count as the content of the view.
VisibleAny(wins, cam) == {id \in DOMAIN wins : Overlaps(wins[id].rect, View(cam))}

VisibleTiled(wins, cam) ==
  {id \in TiledIds(wins) : Overlaps(wins[id].rect, View(cam))}

CameraCenteredOrigin(cam, size) ==
  [x |-> FloorCell(cam.x + cam.w - size.w),
   y |-> FloorCell(cam.y + cam.h - size.h)]

Furthest(wins, ids, d) ==
  LET edges == {Edge(wins[id].rect, d) : id \in ids}
  IN  IF d \in {"Left", "Up"} THEN Min(edges) ELSE Max(edges)

\* min_by keeps the first of equal windows in id order, max_by the last.
Outermost(wins, ids, d) ==
  LET tied == {id \in ids : Edge(wins[id].rect, d) = Furthest(wins, ids, d)}
  IN  IF d \in {"Left", "Up"} THEN Min(tied) ELSE Max(tied)

\* The origin that puts a window of this size just beyond edge, in direction d.
Beyond(p, edge, size, d) ==
  CASE d = "Left"  -> [p EXCEPT !.x = FloorCell(edge) - Cell * size.w]
    [] d = "Right" -> [p EXCEPT !.x = CeilCell(edge)]
    [] d = "Up"    -> [p EXCEPT !.y = FloorCell(edge) - Cell * size.h]
    [] d = "Down"  -> [p EXCEPT !.y = CeilCell(edge)]

BesideOrigin(rect, size, d) ==
  Beyond([x |-> FloorCell(rect.x), y |-> FloorCell(rect.y)],
         Edge(rect, d), size, d)

\* Mutant: one hop instead of the loop.
AdvanceOnce(wins, start, size, d) ==
  LET hit == Blockers(wins, RectAt(start, size))
  IN  IF hit = {} THEN start ELSE Beyond(start, Furthest(wins, hit, d), size, d)

\* The loop of advance_placement_past_occupied; every round leaves at least
\* one tiled window behind, so that many rounds reach its fixed point.
AdvancePastOccupied(wins, start, size, d) ==
  LET rounds == Cardinality(TiledIds(wins))
      Hit(p) == Blockers(wins, RectAt(p, size))
      search[n \in 0 .. rounds] ==
        IF n = 0 THEN start
        ELSE LET p == search[n - 1]
             IN  IF Hit(p) = {} THEN p
                 ELSE Beyond(p, Furthest(wins, Hit(p), d), size, d)
  IN  search[rounds]

\* The anchor a request captured, else a focused window in view; none of
\* them counts unless it still exists and is tiled.
PlacementAnchor(wins, cam, focused, request) ==
  LET captured == IF request = None THEN None ELSE request.anchor
      wanted == IF captured # None THEN {captured}
                ELSE {id \in DOMAIN wins :
                        id = focused /\ Overlaps(wins[id].rect, View(cam))}
  IN  wanted \cap TiledIds(wins)

PlacementOrigin(wins, cam, focused, request, size) ==
  LET d       == IF request = None THEN "Right" ELSE request.direction
      visible == VisibleTiled(wins, cam)
      anchor  == PlacementAnchor(wins, cam, focused, request)
      basis   == IF anchor # {} THEN anchor ELSE visible
  IN  IF visible = {}
      THEN CameraCenteredOrigin(cam, size)
      ELSE AdvancePastOccupied(wins,
             BesideOrigin(wins[Outermost(wins, basis, d)].rect, size, d), size, d)
=============================================================================
