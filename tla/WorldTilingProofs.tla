-------------------------- MODULE WorldTilingProofs --------------------------
(***************************************************************************)
(* The grid as an exclusive resource.  With presentations, no step but a   *)
(* change of presentation makes two windows collide; without them, tiled   *)
(* windows never overlap, are on the grid lines while nobody drags them,   *)
(* and take the windows chained to them along when they are resized.       *)
(*                                                                         *)
(* On the screen: tiled windows stay apart whatever is rounded, for every  *)
(* position and zoom of every Camera, every geometry of the Outputs and    *)
(* every gap.                                                              *)
(***************************************************************************)
EXTENDS Screen, WorldTypeProofs

\* Nothing collides in next that does not collide now.
NoNewCollision(next) ==
  \A a, b \in Ids \cap DOMAIN next :
    a # b /\ Collide(next, a, b) => Collide(windows, a, b)

\* next differs from the World in the windows of changed alone, each of which
\* has been compared with all tiled windows of next.
CheckedChange(next, changed) ==
  /\ next \in [Ids -> Window]
  /\ \A o \in Ids \ changed : next[o].rect = windows[o].rect
                              /\ (Floats(next[o]) <=> Floats(windows[o]))
  /\ \A o \in changed \cap TiledIds(next) : Blockers(next, next[o].rect) \subseteq {o}

\* Comparing the changed windows with all others is enough.
LEMMA CheckedChangeCollidesNot ==
  ASSUME TypeOK, NEW next, NEW changed, CheckedChange(next, changed)
  PROVE  NoNewCollision(next)
  <1> SUFFICES ASSUME NEW a \in Ids, NEW b \in Ids, a # b, Collide(next, a, b)
               PROVE  Collide(windows, a, b)
    BY DEF NoNewCollision
  <1>1. a \in TiledIds(next) /\ b \in TiledIds(next) /\ Overlaps(next[a].rect, next[b].rect)
    BY DEF Collide
  <1>2. Overlaps(next[b].rect, next[a].rect)
    BY <1>1 DEF Overlaps, SpansMeetX, SpansMeetY
  <1>3. a \notin changed /\ b \notin changed
    BY <1>1, <1>2 DEF CheckedChange, Blockers
  <1>4. a \in TiledIds(windows) /\ b \in TiledIds(windows)
    BY <1>1, <1>3 DEF CheckedChange, TiledIds, Ids
  <1> QED  BY <1>1, <1>3, <1>4 DEF CheckedChange, Collide

-----------------------------------------------------------------------------
(* What each kind of change checks *)

\* validate_window_geometry, for one window that moves or changes its size.
LEMMA OneRectChecked ==
  ASSUME TypeOK, NEW id \in Ids, NEW rect \in Rect, GeometryAllowed(windows, id, rect)
  PROVE  CheckedChange([windows EXCEPT ![id].rect = rect], {id})
  <1> DEFINE next == [windows EXCEPT ![id].rect = rect]
  <1>1. next \in [Ids -> Window]
    BY WithRectType
  <1>2. ASSUME NEW o \in Ids
        PROVE  /\ Floats(next[o]) <=> Floats(windows[o])
               /\ next[o].rect = IF o = id THEN rect ELSE windows[o].rect
    <2>1. windows[o] \in Window
      BY DEF TypeOK
    <2>2. CASE o = id
      <3>1. next[o] = [windows[o] EXCEPT !.rect = rect]
        BY <2>2 DEF TypeOK
      <3> QED  BY <2>1, <2>2, <3>1 DEF Floats, Window
    <2>3. CASE o # id
      BY <2>3 DEF TypeOK
    <2> QED  BY <2>2, <2>3
  <1> HIDE DEF next
  <1>3. TiledIds(next) = TiledIds(windows)
    BY <1>1, <1>2 DEF TiledIds, Ids
  <1>4. ASSUME id \in TiledIds(next) PROVE Blockers(next, next[id].rect) \subseteq {id}
    BY <1>2, <1>3, <1>4 DEF GeometryAllowed, Blockers, TiledIds, Ids
  <1> QED  BY <1>1, <1>2, <1>4 DEF CheckedChange, next

\* swap_windows compares both windows at their new places.
LEMMA SwapChecked ==
  ASSUME TypeOK, NEW first \in Ids, NEW second \in Ids, first # second,
         SwapAllowed(windows, first, second)
  PROVE  CheckedChange([windows EXCEPT
           ![first].rect  = MovedTo(@, Origin(windows[second].rect)),
           ![second].rect = MovedTo(@, Origin(windows[first].rect))], {first, second})
  <1> DEFINE a == MovedTo(windows[first].rect, Origin(windows[second].rect))
             b == MovedTo(windows[second].rect, Origin(windows[first].rect))
             next == [windows EXCEPT ![first].rect = a, ![second].rect = b]
  <1>1. a \in Rect /\ b \in Rect
    <2>1. windows[first].rect \in Rect /\ windows[second].rect \in Rect
      BY DEF TypeOK, Window
    <2> QED  BY <2>1, RectTypes
  <1>2. \A id \in {first, second} : Blockers(next, next[id].rect) \subseteq {id}
    BY DEF SwapAllowed
  <1> HIDE DEF a, b
  <1>3. next \in [Ids -> Window]
    BY <1>1 DEF TypeOK, Window
  <1>4. \A o \in Ids \ {first, second} : next[o] = windows[o]
    BY DEF TypeOK
  <1> HIDE DEF next
  <1>5. CheckedChange(next, {first, second})
    BY <1>2, <1>3, <1>4 DEF CheckedChange
  <1> QED  BY <1>5 DEF next, a, b

\* resize_tiled_with_followers and its pointer twin compare the target and
\* every follower with everything at its proposed place.
LEMMA FollowersChecked ==
  ASSUME TypeOK, NEW id \in Ids, NEW rect \in Rect,
         NEW pulls, pulls = Pulls(windows, id, rect),
         NEW proposed, proposed = WithFollowers(windows, id, rect, pulls),
         ProposalAllowed(windows, {id} \cup Dragged(pulls), proposed)
  PROVE  CheckedChange(proposed, {id} \cup Dragged(pulls))
  <1>1. proposed \in [Ids -> Window]
    BY FollowersType
  <1>2. ASSUME NEW o \in Ids \ ({id} \cup Dragged(pulls))
        PROVE  proposed[o].rect = windows[o].rect
               /\ (Floats(proposed[o]) <=> Floats(windows[o]))
    BY <1>2, UndraggedStay
  <1>3. \A o \in {id} \cup Dragged(pulls) : Blockers(proposed, proposed[o].rect) \subseteq {o}
    BY DEF ProposalAllowed, Conflict
  <1> QED  BY <1>1, <1>2, <1>3 DEF CheckedChange

\* validate_window_constraint, for one window whose properties change.
LEMMA ConstraintChecked ==
  ASSUME TypeOK, NEW id \in Ids, NEW candidate \in Window,
         ConstraintHolds(windows, id, candidate)
  PROVE  CheckedChange([windows EXCEPT ![id] = candidate], {id})
  <1> DEFINE next == [windows EXCEPT ![id] = candidate]
  <1>1. next \in [Ids -> Window]
    BY DEF TypeOK
  <1>2. next[id] = candidate /\ \A o \in Ids \ {id} : next[o] = windows[o]
    BY DEF TypeOK
  <1> HIDE DEF next
  <1>3. ASSUME id \in TiledIds(next) PROVE Blockers(next, next[id].rect) \subseteq {id}
    <2>1. Blockers(windows, candidate.rect) \subseteq {id}
      BY <1>2, <1>3 DEF ConstraintHolds, TiledIds
    <2> SUFFICES ASSUME NEW o \in Blockers(next, candidate.rect), o # id PROVE FALSE
      BY <1>2
    <2>2. o \in Blockers(windows, candidate.rect)
      BY <1>1, <1>2 DEF Blockers, TiledIds, Ids
    <2> QED  BY <2>1, <2>2
  <1> QED  BY <1>1, <1>2, <1>3 DEF CheckedChange, next

-----------------------------------------------------------------------------
(* No step but a change of presentation makes windows collide *)

LEMMA CommitWindows == ASSUME NEW wins, Commit(wins) PROVE windows' = wins
  BY DEF Commit

\* Moves, swaps and resizes.
LEMMA GeometryChecked ==
  ASSUME TypeOK, GeometryStep
  PROVE  NoNewCollision(windows')
  <1>0. \A id \in Ids : windows[id].rect \in Rect
    BY DEF TypeOK, Window
  <1>1. ASSUME NEW id \in Ids, NEW rect \in Rect, GeometryAllowed(windows, id, rect),
               CommitRect(id, rect)
        PROVE  NoNewCollision(windows')
    BY <1>1, OneRectChecked, CheckedChangeCollidesNot, CommitWindows DEF CommitRect
  <1>2. ASSUME NEW id \in Ids, NEW rect \in Rect, NEW pulls, pulls = Pulls(windows, id, rect),
               ProposalAllowed(windows, {id} \cup Dragged(pulls),
                               WithFollowers(windows, id, rect, pulls)),
               Commit(WithFollowers(windows, id, rect, pulls))
        PROVE  NoNewCollision(windows')
    BY <1>2, FollowersChecked, CheckedChangeCollidesNot, CommitWindows
  <1>3. ASSUME NEW id \in Ids, NEW p \in Origins, MoveWindowContinuous(id, p)
        PROVE  NoNewCollision(windows')
    <2>1. MovedTo(windows[id].rect, p) \in Rect
      BY <1>0, RectTypes, WorldAssumption
    <2> QED  BY <1>1, <1>3, <2>1 DEF MoveWindowContinuous
  <1>4. ASSUME NEW first \in Ids, NEW second \in Ids, SwapWindows(first, second)
        PROVE  NoNewCollision(windows')
    BY <1>4, SwapChecked, CheckedChangeCollidesNot, CommitWindows DEF SwapWindows
  <1>5. ASSUME NEW id \in Ids, NEW size \in Size, ResizeWindow(id, size)
        PROVE  NoNewCollision(windows')
    <2>1. Resized(windows[id].rect, size) \in Rect
      BY <1>0, RectTypes, WorldAssumption
    <2> QED  BY <1>1, <1>2, <1>5, <2>1 DEF ResizeWindow
  <1>6. ASSUME NEW id \in Ids, NEW p \in Origins, NEW size \in Sizes,
               ResizeWindowRect(id, RectAt(p, size))
        PROVE  NoNewCollision(windows')
    <2>1. RectAt(p, size) \in Rect
      BY <1>6, InWorldRect, WorldAssumption DEF ResizeWindowRect, GridRect
    <2> QED  BY <1>1, <1>2, <1>6, <2>1 DEF ResizeWindowRect
  <1>7. ASSUME NEW id \in Ids, NEW size \in InitialSizes, ToggleWindowSize(id, size)
        PROVE  NoNewCollision(windows')
    BY <1>5, <1>7, ToggledSize DEF ToggleWindowSize
  <1> QED  BY <1>3, <1>4, <1>5, <1>6, <1>7, WorldAssumption DEF GeometryStep

\* Every setter of the floating property.
LEMMA PropertyChecked ==
  ASSUME TypeOK, PropertyStep
  PROVE  NoNewCollision(windows')
  <1>1. ASSUME NEW id \in Ids, NEW w \in Window, Constrain(id, w)
        PROVE  NoNewCollision(windows')
    BY <1>1, ConstraintChecked, CheckedChangeCollidesNot, CommitWindows DEF Constrain
  <1>2. PICK id \in Ids, w \in Window : Constrain(id, w)
    BY PropertyConstrains
  <1> QED  BY <1>1, <1>2

\* A new window leaves the others where they are, a removed one as well.
LEMMA LifetimeChecked ==
  ASSUME TypeOK, LifetimeStep
  PROVE  NoNewCollision(windows')
  <1>1. \A o \in Ids \cap Ids' : windows'[o] = windows[o]
    <2>1. ASSUME NEW size \in InitialSizes, PlaceWindow(size)
          PROVE  \A o \in Ids \cap Ids' : windows'[o] = windows[o]
      <3>1. next_window_id \notin Ids
        BY DEF TypeOK
      <3> QED  BY <2>1, <3>1 DEF PlaceWindow, Ids
    <2>2. ASSUME NEW id \in Ids, RemoveWindow(id)
          PROVE  \A o \in Ids \cap Ids' : windows'[o] = windows[o]
      BY <2>2 DEF RemoveWindow, Ids
    <2> QED  BY <2>1, <2>2 DEF LifetimeStep
  <1> QED  BY <1>1 DEF NoNewCollision, Collide, TiledIds, Ids

\* Toggling a presentation always changes it, and touches no other window.
LEMMA PresentationOverlap ==
  ASSUME TypeOK, PresentationStep
  PROVE  OverlapStep
  <1> PICK id \in Ids, p \in {"Maximized", "Fullscreen"} : TogglePresentation(id, p)
    BY DEF PresentationStep
  <1>1. windows' = [windows EXCEPT ![id] = Presented(@, p)]
    BY CommitWindows DEF TogglePresentation
  <1>2. Ids' = Ids /\ \A o \in Ids \ {id} : windows'[o] = windows[o]
    BY <1>1 DEF TypeOK, Ids
  <1>3. windows'[id].presentation # windows[id].presentation
    <2>1. windows'[id] = Presented(windows[id], p) /\ windows[id] \in Window
      BY <1>1 DEF TypeOK
    <2>2. CASE p = windows[id].presentation
      BY <2>1, <2>2 DEF Presented, Window
    <2>3. CASE p # windows[id].presentation
      BY <2>1, <2>3 DEF Presented, Window
    <2> QED  BY <2>2, <2>3
  <1> QED  BY <1>2, <1>3 DEF OverlapStep, Collide, TiledIds, Ids

\* Two windows that begin to collide have been presented, or have come back
\* from a presentation, in that very step.
THEOREM OverlapHasItsCause == Spec => OverlapOnlyFromPresentation
  <1>1. TypeOK /\ [Next]_vars => [OverlapStep]_vars
    <2> SUFFICES ASSUME TypeOK, Next PROVE OverlapStep
      OBVIOUS
    <2>1. ASSUME NoNewCollision(windows') PROVE OverlapStep
      BY <2>1 DEF NoNewCollision, OverlapStep, Ids
    <2>2. ASSUME UNCHANGED windows PROVE NoNewCollision(windows')
      BY <2>2 DEF NoNewCollision, Collide
    <2>3. CASE LifetimeStep
      BY <2>1, <2>3, LifetimeChecked
    <2>4. CASE GeometryStep
      BY <2>1, <2>4, GeometryChecked
    <2>5. CASE PropertyStep
      BY <2>1, <2>5, PropertyChecked
    <2>6. CASE PresentationStep
      BY <2>6, PresentationOverlap
    <2>7. CASE FocusStep \/ OutputStep \/ CameraMotion
      BY <2>1, <2>2, <2>7, WindowsUntouched
    <2> QED  BY <2>3, <2>4, <2>5, <2>6, <2>7 DEF Next, NormalNext
  <1> QED  BY <1>1, TypeCorrect, PTL DEF Spec, OverlapOnlyFromPresentation

-----------------------------------------------------------------------------
(* Without presentations, tiled windows stay on the grid *)

\* The edges of a rectangle on the grid are on the grid.
LEMMA EdgeOnGrid ==
  ASSUME NEW r \in Rect, OnGrid(r), NEW d \in Direction
  PROVE  Edge(r, d) \in Int /\ Edge(r, d) % Cell = 0
  <1>1. r.x \in Int /\ r.y \in Int /\ r.w \in Nat /\ r.h \in Nat
    BY DEF Rect
  <1>2. (r.x + 2 * r.w) % 2 = 0 /\ (r.y + 2 * r.h) % 2 = 0
    BY <1>1 DEF OnGrid, Cell
  <1> QED  BY <1>1, <1>2 DEF OnGrid, Edge, Direction, Right, Bottom, Cell

\* Followers of a window that goes from the grid to the grid go there too.
LEMMA FollowersOnGrid ==
  ASSUME TypeOK, TiledOnGrid, NEW id \in TiledIds(windows), NEW rect \in Rect, OnGrid(rect),
         NEW proposed, proposed = WithFollowers(windows, id, rect, Pulls(windows, id, rect)),
         NEW o \in TiledIds(windows)
  PROVE  OnGrid(proposed[o].rect)
  <1> DEFINE pulls == Pulls(windows, id, rect)
             Shift(f, d) == IF f \in pulls[d].chain THEN pulls[d].delta ELSE 0
             dx == Shift(o, "Left") + Shift(o, "Right")
             dy == Shift(o, "Up") + Shift(o, "Down")
  <1>1. o \in Ids /\ id \in Ids /\ windows[o] \in Window /\ windows[o].rect \in Rect
        /\ windows[id].rect \in Rect
    BY DEF TypeOK, Window, TiledIds, Ids
  <1>2. ASSUME NEW d \in Direction PROVE pulls[d].delta \in Int /\ pulls[d].delta % 2 = 0
    <2>1. pulls[d].delta = Edge(rect, d) - Edge(windows[id].rect, d)
      BY DEF Pulls, EdgePull, Direction
    <2>2. OnGrid(windows[id].rect)
      BY DEF TiledOnGrid
    <2>3. /\ Edge(rect, d) \in Int /\ Edge(rect, d) % 2 = 0
          /\ Edge(windows[id].rect, d) \in Int /\ Edge(windows[id].rect, d) % 2 = 0
      BY <1>1, <2>2, EdgeOnGrid DEF Cell
    <2> HIDE DEF pulls
    <2> QED  BY <2>1, <2>3
  <1>3. \A d \in Direction : Shift(o, d) \in Int /\ Shift(o, d) % 2 = 0
    <2> HIDE DEF pulls
    <2> QED  BY <1>2
  <1> HIDE DEF pulls, Shift
  <1>4. dx \in Int /\ dy \in Int /\ dx % 2 = 0 /\ dy % 2 = 0
    <2>1. "Left" \in Direction /\ "Right" \in Direction /\ "Up" \in Direction /\ "Down" \in Direction
      BY DEF Direction
    <2> QED  BY <1>3, <2>1
  <1>5. OnGrid(Translated(windows[o].rect, dx, dy))
    <2>1. OnGrid(windows[o].rect)
      BY DEF TiledOnGrid
    <2>2. /\ Translated(windows[o].rect, dx, dy).x = windows[o].rect.x + dx
          /\ Translated(windows[o].rect, dx, dy).y = windows[o].rect.y + dy
      BY <1>1 DEF Translated, Rect
    <2>3. windows[o].rect.x \in Int /\ windows[o].rect.y \in Int
      BY <1>1 DEF Rect
    <2> HIDE DEF dx, dy
    <2> QED  BY <1>4, <2>1, <2>2, <2>3 DEF OnGrid, Cell
  <1>6. proposed[o].rect = IF o = id THEN rect ELSE Translated(windows[o].rect, dx, dy)
    BY <1>1 DEF WithFollowers, Ids, pulls, Shift, Window
  <1> QED  BY <1>5, <1>6

\* A window moved onto the grid, the others staying there.
LEMMA OneRectOnGrid ==
  ASSUME TypeOK, TiledOnGrid, NEW id \in Ids, NEW rect, Floats(windows[id]) \/ OnGrid(rect),
         CommitRect(id, rect)
  PROVE  TiledOnGrid'
  <1>1. windows' = [windows EXCEPT ![id].rect = rect]
    BY CommitWindows DEF CommitRect
  <1>2. ASSUME NEW o \in TiledIds(windows') PROVE OnGrid(windows'[o].rect)
    <2>1. o \in Ids /\ windows[o] \in Window
      BY <1>1 DEF TiledIds, Ids, TypeOK
    <2>2. CASE o = id
      <3>1. windows'[o] = [windows[o] EXCEPT !.rect = rect]
        BY <1>1, <2>1, <2>2 DEF TypeOK
      <3>2. ~ Floats(windows[o]) /\ windows'[o].rect = rect
        BY <2>1, <3>1 DEF TiledIds, Floats, Window
      <3> QED  BY <2>2, <3>2
    <2>3. CASE o # id
      <3>1. windows'[o] = windows[o]
        BY <1>1, <2>1, <2>3 DEF TypeOK
      <3> QED  BY <2>1, <3>1 DEF TiledOnGrid, TiledIds, Ids
    <2> QED  BY <2>2, <2>3
  <1> QED  BY <1>2 DEF TiledOnGrid

\* A chain moved along, the others staying where they were.
LEMMA ChainOnGrid ==
  ASSUME TypeOK, TiledOnGrid, NEW id \in TiledIds(windows), NEW rect \in Rect, OnGrid(rect),
         Commit(WithFollowers(windows, id, rect, Pulls(windows, id, rect)))
  PROVE  TiledOnGrid'
  <1> DEFINE proposed == WithFollowers(windows, id, rect, Pulls(windows, id, rect))
  <1>1. windows' = proposed
    BY CommitWindows
  <1>2. TiledIds(proposed) = TiledIds(windows)
    <2>1. id \in Ids
      BY DEF TiledIds, Ids
    <2>2. ASSUME NEW o \in Ids PROVE Floats(proposed[o]) <=> Floats(windows[o])
      <3>1. windows[o] \in Window
        BY DEF TypeOK
      <3>2. proposed[o].config = windows[o].config /\ proposed[o].runtime = windows[o].runtime
        BY <3>1 DEF WithFollowers, Ids, Window
      <3> QED  BY <3>2 DEF Floats
    <2>3. DOMAIN proposed = Ids
      BY DEF WithFollowers, Ids
    <2> QED  BY <2>2, <2>3 DEF TiledIds, Ids
  <1>3. \A o \in TiledIds(windows) : OnGrid(proposed[o].rect)
    BY FollowersOnGrid
  <1> QED  BY <1>1, <1>2, <1>3 DEF TiledOnGrid

\* Moves, swaps and resizes keep the tiled windows on the grid.
LEMMA GeometryOnGrid ==
  ASSUME TypeOK, TiledOnGrid, GeometryStep
  PROVE  TiledOnGrid'
  <1>0. ASSUME NEW id \in Ids
        PROVE  /\ windows[id] \in Window /\ windows[id].rect \in Rect
               /\ ~ Floats(windows[id]) => id \in TiledIds(windows) /\ OnGrid(windows[id].rect)
    BY DEF TypeOK, Window, TiledIds, Ids, TiledOnGrid
  <1>1. ASSUME NEW id \in Ids, NEW p \in Origins, MoveWindowContinuous(id, p)
        PROVE  TiledOnGrid'
    BY <1>1, OneRectOnGrid DEF MoveWindowContinuous
  <1>2. ASSUME NEW first \in Ids, NEW second \in Ids, SwapWindows(first, second)
        PROVE  TiledOnGrid'
    <2> DEFINE a == MovedTo(windows[first].rect, Origin(windows[second].rect))
               b == MovedTo(windows[second].rect, Origin(windows[first].rect))
    <2>1. OnGrid(a) /\ OnGrid(b)
      <3>1. {first, second} \subseteq TiledIds(windows)
        BY <1>2 DEF SwapWindows, SwapAllowed
      <3>2. OnGrid(windows[first].rect) /\ OnGrid(windows[second].rect)
        BY <3>1 DEF TiledOnGrid
      <3>3. /\ a.x = windows[second].rect.x /\ a.y = windows[second].rect.y
            /\ b.x = windows[first].rect.x /\ b.y = windows[first].rect.y
        BY <1>0 DEF MovedTo, Origin, Rect
      <3> QED  BY <3>2, <3>3 DEF OnGrid
    <2>2. windows' = [windows EXCEPT ![first].rect = a, ![second].rect = b] /\ first # second
      BY <1>2, CommitWindows DEF SwapWindows
    <2> HIDE DEF a, b
    <2>3. ASSUME NEW o \in Ids, ~ Floats(windows'[o]) PROVE OnGrid(windows'[o].rect)
      <3>1. CASE o = first
        BY <1>0, <2>1, <2>2, <3>1 DEF TypeOK, Window
      <3>2. CASE o = second
        BY <1>0, <2>1, <2>2, <3>2 DEF TypeOK, Window
      <3>3. CASE o \notin {first, second}
        BY <1>0, <2>2, <2>3, <3>3 DEF TypeOK
      <3> QED  BY <3>1, <3>2, <3>3
    <2>4. DOMAIN windows' = Ids
      BY <2>2 DEF TypeOK
    <2> QED  BY <2>3, <2>4 DEF TiledOnGrid, TiledIds
  <1>3. ASSUME NEW id \in Ids, NEW size \in Size, ResizeWindow(id, size)
        PROVE  TiledOnGrid'
    <2>1. Resized(windows[id].rect, size) \in Rect
      BY <1>0, RectTypes
    <2>2. ~ Floats(windows[id]) => OnGrid(Resized(windows[id].rect, size))
      BY <1>0 DEF Resized, OnGrid, Rect
    <2> QED  BY <1>0, <1>3, <2>1, <2>2, OneRectOnGrid, ChainOnGrid DEF ResizeWindow
  <1>4. ASSUME NEW id \in Ids, NEW p \in Origins, NEW size \in Sizes,
               ResizeWindowRect(id, RectAt(p, size))
        PROVE  TiledOnGrid'
    <2>1. RectAt(p, size) \in Rect /\ OnGrid(RectAt(p, size))
      BY <1>4, InWorldRect, WorldAssumption DEF ResizeWindowRect, GridRect
    <2> QED  BY <1>0, <1>4, <2>1, OneRectOnGrid, ChainOnGrid DEF ResizeWindowRect
  <1>5. ASSUME NEW id \in Ids, NEW size \in InitialSizes, ToggleWindowSize(id, size)
        PROVE  TiledOnGrid'
    BY <1>3, <1>5, ToggledSize DEF ToggleWindowSize
  <1> QED  BY <1>1, <1>2, <1>3, <1>4, <1>5, WorldAssumption DEF GeometryStep

\* A window that comes back to the grid comes back to a grid line.
LEMMA PropertyOnGrid ==
  ASSUME TypeOK, TiledOnGrid, PropertyStep
  PROVE  TiledOnGrid'
  <1> PICK id \in Ids, w \in Window : Constrain(id, w)
    BY PropertyConstrains
  <1>1. windows' = [windows EXCEPT ![id] = w] /\ (~ Floats(w) => OnGrid(w.rect))
    BY CommitWindows DEF Constrain, ConstraintHolds
  <1>2. DOMAIN windows' = Ids /\ windows'[id] = w /\ \A o \in Ids \ {id} : windows'[o] = windows[o]
    BY <1>1 DEF TypeOK
  <1> QED  BY <1>1, <1>2 DEF TiledOnGrid, TiledIds, Ids

-----------------------------------------------------------------------------
(* Placement without presentations *)

\* The initial window size the configuration sets is at most the viewport it
\* sets; the built-in configuration makes them equal.
SizesFit == \A s \in InitialSizes, v \in Viewports : s.w <= v.w /\ s.h <= v.h

\* Every camera shows a viewport of the configuration.
CamerasConfigured ==
  \A o \in Outputs : LET c == CameraForOutput(o) IN [w |-> c.w, h |-> c.h] \in Viewports

TilingInv == TypeOK /\ TiledDisjoint /\ TiledOnGrid /\ CamerasConfigured

\* On one axis: a span on the grid that meets a centred window no longer than
\* the view (c, w cells) meets the view, rounding down included.
LEMMA CenteredSpanSeen ==
  ASSUME NEW c \in Int, NEW w \in Nat, NEW s \in Nat, s <= w,
         NEW a \in Int, NEW e \in Int, e % Cell = 0,
         a < FloorCell(c + w - s) + Cell * s, FloorCell(c + w - s) < e
  PROVE  a < c + Cell * w /\ c < e
  <1>1. PICK q \in Int : FloorCell(c + w - s) = 2 * q /\ 2 * q <= c + w - s /\ c + w - s < 2 * q + 2
    BY DEF FloorCell, Cell
  <1>2. PICK n \in Int : e = 2 * n
    BY DEF Cell
  <1> QED  BY <1>1, <1>2 DEF Cell

\* With nothing tiled in view, the centred window meets nothing tiled.
LEMMA CenteredIsFree ==
  ASSUME TilingInv, SizesFit, NEW size \in InitialSizes, VisibleTiled(windows, camera) = {}
  PROVE  Blockers(windows, RectAt(CameraCenteredOrigin(camera, size), size)) = {}
  <1> DEFINE rect == RectAt(CameraCenteredOrigin(camera, size), size)
  <1> SUFFICES ASSUME NEW o \in TiledIds(windows), Overlaps(windows[o].rect, rect)
               PROVE  Overlaps(windows[o].rect, View(camera))
    BY DEF Blockers, VisibleTiled
  <1>1. camera \in CameraState /\ size \in Size
    BY WorldAssumption DEF TilingInv, TypeOK
  <1>2. size.w <= camera.w /\ size.h <= camera.h
    <2>1. [w |-> camera.w, h |-> camera.h] \in Viewports
      BY DEF TilingInv, CamerasConfigured, Outputs, CameraForOutput
    <2> QED  BY <2>1 DEF SizesFit
  <1>3. windows[o].rect \in Rect /\ OnGrid(windows[o].rect)
    BY DEF TilingInv, TypeOK, TiledOnGrid, TiledIds, Ids, Window
  <1>4. /\ Right(windows[o].rect) \in Int /\ Right(windows[o].rect) % Cell = 0
        /\ Bottom(windows[o].rect) \in Int /\ Bottom(windows[o].rect) % Cell = 0
    BY <1>3, EdgeOnGrid DEF Edge, Direction
  <1>5. /\ rect.x = FloorCell(camera.x + camera.w - size.w) /\ rect.w = size.w
        /\ rect.y = FloorCell(camera.y + camera.h - size.h) /\ rect.h = size.h
    BY DEF RectAt, CameraCenteredOrigin
  <1>6. SpansMeetX(windows[o].rect, View(camera))
    <2>1. /\ windows[o].rect.x < FloorCell(camera.x + camera.w - size.w) + Cell * size.w
          /\ FloorCell(camera.x + camera.w - size.w) < Right(windows[o].rect)
      BY <1>5 DEF Overlaps, SpansMeetX, Right
    <2>2. /\ camera.x \in Int /\ camera.w \in Nat /\ size.w \in Nat /\ windows[o].rect.x \in Int
      BY <1>1, <1>3 DEF CameraState, Size, Rect
    <2>3. windows[o].rect.x < camera.x + Cell * camera.w /\ camera.x < Right(windows[o].rect)
      BY <1>2, <1>4, <2>1, <2>2, CenteredSpanSeen
    <2> QED  BY <2>3 DEF SpansMeetX, View, Right
  <1>7. SpansMeetY(windows[o].rect, View(camera))
    <2>1. /\ windows[o].rect.y < FloorCell(camera.y + camera.h - size.h) + Cell * size.h
          /\ FloorCell(camera.y + camera.h - size.h) < Bottom(windows[o].rect)
      BY <1>5 DEF Overlaps, SpansMeetY, Bottom
    <2>2. /\ camera.y \in Int /\ camera.h \in Nat /\ size.h \in Nat /\ windows[o].rect.y \in Int
      BY <1>1, <1>3 DEF CameraState, Size, Rect
    <2>3. windows[o].rect.y < camera.y + Cell * camera.h /\ camera.y < Bottom(windows[o].rect)
      BY <1>2, <1>4, <2>1, <2>2, CenteredSpanSeen
    <2> QED  BY <2>3 DEF SpansMeetY, View, Bottom
  <1> QED  BY <1>6, <1>7 DEF Overlaps

\* A placed window lies on grid lines, wherever it is put.
LEMMA PlaceOnGrid ==
  ASSUME TypeOK, TiledOnGrid, NEW size \in InitialSizes, PlaceWindow(size)
  PROVE  TiledOnGrid'
  <1> DEFINE rect == RectAt(PlacementOrigin(windows, camera, focus, next_placement, size), size)
             new  == next_window_id
  <1>1. OnGrid(rect)
    BY DEF PlaceWindow, GridRect
  <1>2. windows' = [id \in Ids \cup {new} |-> IF id = new THEN NewWindow(rect) ELSE windows[id]]
    BY DEF PlaceWindow
  <1> HIDE DEF rect
  <1>3. /\ windows'[new].rect = rect
        /\ TiledIds(windows') \subseteq TiledIds(windows) \cup {new}
        /\ \A o \in Ids \ {new} : windows'[o] = windows[o]
    BY <1>2 DEF TiledIds, Ids, NewWindow
  <1> QED  BY <1>1, <1>3 DEF TiledOnGrid, TiledIds, Ids

\* Nor does anything else take a tiled window off the grid lines.
LEMMA OnGridKept ==
  ASSUME TypeOK, TiledOnGrid, [NormalNext]_vars
  PROVE  TiledOnGrid'
  <1>1. ASSUME NEW id \in Ids, RemoveWindow(id) PROVE TiledOnGrid'
    BY <1>1 DEF RemoveWindow, TiledOnGrid, TiledIds, Ids
  <1>2. CASE LifetimeStep
    BY <1>1, <1>2, PlaceOnGrid DEF LifetimeStep
  <1>3. CASE UNCHANGED windows
    BY <1>3 DEF TiledOnGrid
  <1> QED  BY <1>2, <1>3, GeometryOnGrid, PropertyOnGrid, WindowsUntouched DEF NormalNext, vars

\* A placed window takes cells nobody has.
LEMMA PlaceTiled ==
  ASSUME TilingInv, SizesFit, NEW size \in InitialSizes, PlaceWindow(size)
  PROVE  TiledDisjoint' /\ TiledOnGrid'
  <1> DEFINE origin == PlacementOrigin(windows, camera, focus, next_placement, size)
             rect   == RectAt(origin, size)
             new    == next_window_id
  <1>1. Blockers(windows, rect) = {}
    <2>1. CASE VisibleTiled(windows, camera) # {}
      BY <2>1 DEF PlaceWindow
    <2>2. CASE VisibleTiled(windows, camera) = {}
      <3>1. origin = CameraCenteredOrigin(camera, size)
        BY <2>2 DEF PlacementOrigin
      <3> QED  BY <2>2, <3>1, CenteredIsFree
    <2> QED  BY <2>1, <2>2
  <1>2. OnGrid(rect)
    BY DEF PlaceWindow, GridRect
  <1>3. windows' = [id \in Ids \cup {new} |-> IF id = new THEN NewWindow(rect) ELSE windows[id]]
    BY DEF PlaceWindow
  <1> HIDE DEF rect
  <1>4. new \notin Ids
    BY DEF TilingInv, TypeOK
  <1>5. /\ windows'[new].rect = rect
        /\ TiledIds(windows') \subseteq TiledIds(windows) \cup {new}
        /\ \A o \in TiledIds(windows) : windows'[o] = windows[o] /\ o # new
    BY <1>3, <1>4 DEF TiledIds, Ids, NewWindow
  <1>6. TiledOnGrid'
    BY <1>2, <1>5 DEF TilingInv, TiledOnGrid
  <1>7. \A o \in TiledIds(windows) : ~ Overlaps(windows[o].rect, rect) /\ ~ Overlaps(rect, windows[o].rect)
    BY <1>1 DEF Blockers, Overlaps, SpansMeetX, SpansMeetY
  <1>8. TiledDisjoint'
    BY <1>5, <1>7 DEF TilingInv, TiledDisjoint
  <1> QED  BY <1>6, <1>8

\* Cameras come from the configuration, are only exchanged, and only a reload
\* gives one another viewport.
LEMMA CamerasStayConfigured ==
  ASSUME TypeOK, CamerasConfigured, [NormalNext]_vars
  PROVE  CamerasConfigured'
  <1> DEFINE Configured(c) == [w |-> c.w, h |-> c.h] \in Viewports
  <1>0. /\ Configured(camera) /\ \A o \in DOMAIN inactive_cameras : Configured(inactive_cameras[o])
        /\ camera \in CameraState
    BY DEF CamerasConfigured, Outputs, CameraForOutput, TypeOK
  <1> SUFFICES /\ Configured(camera')
               /\ \A o \in DOMAIN inactive_cameras' : Configured(inactive_cameras'[o])
    BY DEF CamerasConfigured, Outputs, CameraForOutput
  <1>1. CASE UNCHANGED <<camera, inactive_cameras>>
    BY <1>0, <1>1
  <1>2. ASSUME NEW cam, MoveCamera(cam), Configured(cam)
        PROVE  Configured(camera') /\ UNCHANGED inactive_cameras
    BY <1>2 DEF MoveCamera
  <1>3. CASE CameraActionStep
    <2>1. ASSUME NEW x, NEW y PROVE Configured(At(camera, x, y))
      BY <1>0 DEF At, CameraState
    <2>2. ASSUME NEW zoom PROVE Configured([camera EXCEPT !.zoom = zoom])
      BY <1>0 DEF CameraState
    <2>3. PICK cam : MoveCamera(cam) /\ Configured(cam)
      BY <1>3, <2>1, <2>2 DEF CameraActionStep, CameraStep, CameraNudge, CameraPan, CameraTo,
           CameraCenter, CameraFollow, CameraZoom, Step, Nudge, Toward, ToWindow, CenterOn,
           Follow, Direction
    <2> QED  BY <1>0, <1>2, <2>3
  <1>4. ASSUME NEW size \in Viewports, ResizeCameraViewport(size)
        PROVE  Configured(camera') /\ UNCHANGED inactive_cameras
    BY <1>0, <1>4, WorldAssumption DEF ResizeCameraViewport, CameraState, Size
  <1>5. ASSUME NEW size \in Viewports, AddOutput(size)
        PROVE  /\ Configured(camera')
               /\ \A o \in DOMAIN inactive_cameras' : Configured(inactive_cameras'[o])
    BY <1>0, <1>5, WorldAssumption DEF AddOutput, NewCamera, Size
  <1>6. ASSUME NEW o, ActivateOutput(o)
        PROVE  /\ Configured(camera')
               /\ \A p \in DOMAIN inactive_cameras' : Configured(inactive_cameras'[p])
    BY <1>0, <1>6 DEF ActivateOutput
  <1>7. CASE LifetimeStep \/ GeometryStep \/ PropertyStep \/ FocusStep \/ UNCHANGED vars
    BY <1>1, <1>7, CamerasUntouched DEF outputVars
  <1> QED  BY <1>0, <1>3, <1>4, <1>5, <1>6, <1>7 DEF NormalNext, CameraMotion, OutputStep, CycleOutput

\* A window that leaves takes nothing from those that stay.
LEMMA RemoveTiled ==
  ASSUME TypeOK, TiledDisjoint, TiledOnGrid, NEW id \in Ids, RemoveWindow(id)
  PROVE  TiledDisjoint' /\ TiledOnGrid'
  <1>1. /\ TiledIds(windows') \subseteq TiledIds(windows)
        /\ \A o \in TiledIds(windows') : windows'[o] = windows[o]
    BY DEF RemoveWindow, TiledIds, Ids
  <1> QED  BY <1>1 DEF TiledDisjoint, TiledOnGrid

LEMMA TilingKept ==
  ASSUME SizesFit, TilingInv, [NormalNext]_vars
  PROVE  TilingInv'
  <1> USE DEF TilingInv
  <1>1. TypeOK'
    BY TypeKept DEF Next
  <1>2. CamerasConfigured'
    BY CamerasStayConfigured
  <1>3. TiledDisjoint' /\ TiledOnGrid'
    <2>1. CASE LifetimeStep
      BY <2>1, PlaceTiled, RemoveTiled DEF LifetimeStep
    <2>2. CASE GeometryStep \/ PropertyStep
      <3>1. NoNewCollision(windows') /\ Ids' = Ids
        BY <2>2, GeometryChecked, PropertyChecked, WindowsReplaced
      <3>2. TiledDisjoint'
        BY <3>1 DEF NoNewCollision, Collide, TiledDisjoint, TiledIds, Ids
      <3> QED  BY <2>2, <3>2, GeometryOnGrid, PropertyOnGrid
    <2>3. CASE UNCHANGED windows
      BY <2>3 DEF TiledDisjoint, TiledOnGrid
    <2> QED  BY <2>1, <2>2, <2>3, WindowsUntouched DEF NormalNext, vars
  <1> QED  BY <1>1, <1>2, <1>3

\* As long as nothing is maximized or made fullscreen, every tiled window lies on
\* grid lines, whatever sizes the configuration sets (place_window,
\* validate_window_geometry, validate_window_constraint).
THEOREM TiledWindowsAreOnGrid == NormalSpec => []TiledOnGrid
  <1>1. Init => TypeOK /\ TiledOnGrid
    BY InitType DEF Init, TiledOnGrid, TiledIds
  <1>2. TypeOK /\ TiledOnGrid /\ [NormalNext]_vars => (TypeOK /\ TiledOnGrid)'
    BY TypeKept, OnGridKept DEF Next
  <1> QED  BY <1>1, <1>2, PTL DEF NormalSpec

\* When the windows a configuration opens fit its viewports, and as long as
\* nothing is maximized or made fullscreen, the grid is exclusive: tiled
\* windows share no cell and lie on grid lines (place_window, swap_windows,
\* resize_window, resize_window_rect and the property setters together).
THEOREM GridIsExclusive ==
  ASSUME SizesFit
  PROVE  NormalSpec => [](TiledDisjoint /\ TiledOnGrid)
  <1>1. Init => TilingInv
    <2> SUFFICES ASSUME Init PROVE TilingInv
      OBVIOUS
    <2>1. TypeOK
      BY InitType
    <2>2. TiledDisjoint /\ TiledOnGrid
      BY DEF Init, TiledDisjoint, TiledOnGrid, TiledIds
    <2>3. CamerasConfigured
      BY WorldAssumption DEF Init, CamerasConfigured, Outputs, CameraForOutput, NewCamera, Size
    <2> QED  BY <2>1, <2>2, <2>3 DEF TilingInv
  <1>2. TilingInv /\ [NormalNext]_vars => TilingInv'
    BY TilingKept
  <1>3. TilingInv => TiledDisjoint /\ TiledOnGrid
    BY DEF TilingInv
  <1> QED  BY <1>1, <1>2, <1>3, PTL DEF NormalSpec

-----------------------------------------------------------------------------
(* Resizing *)

\* Of the windows that may follow an edge, those the closure of module Layout keeps.
LEMMA FollowersAreClosed ==
  ASSUME NEW wins, NEW id, NEW d, NEW f \in EdgeFollowers(wins, id, d) \cup {id},
         NEW o \in TiledIds(wins) \ {id}, Touches(wins[f].rect, wins[o].rect, d)
  PROVE  o \in EdgeFollowers(wins, id, d)
  <1> DEFINE Closed(S) == Pulled(wins, S \cup {id}, d) \subseteq S \cup {id}
  <1> SUFFICES ASSUME NEW S \in SUBSET (TiledIds(wins) \ {id}), Closed(S) PROVE o \in S
    BY DEF EdgeFollowers
  <1>1. f \in S \cup {id}
    BY DEF EdgeFollowers
  <1>2. o \in Pulled(wins, S \cup {id}, d)
    BY <1>1 DEF Pulled
  <1> QED  BY <1>2

\* Nobody follows who does not touch the window or another follower.
LEMMA FollowersAreTouched ==
  ASSUME NEW wins, NEW id, NEW d, NEW o \in EdgeFollowers(wins, id, d)
  PROVE  \E f \in EdgeFollowers(wins, id, d) \cup {id} : Touches(wins[f].rect, wins[o].rect, d)
  <1> DEFINE chain == EdgeFollowers(wins, id, d)
             S     == chain \ {o}
  <1> SUFFICES ASSUME \A f \in chain \cup {id} : ~ Touches(wins[f].rect, wins[o].rect, d)
               PROVE  FALSE
    OBVIOUS
  <1>1. chain \subseteq TiledIds(wins) \ {id}
    BY DEF EdgeFollowers
  <1>2. Pulled(wins, S \cup {id}, d) \subseteq S \cup {id}
    <2> SUFFICES ASSUME NEW c \in TiledIds(wins), NEW f \in S \cup {id}, c # id,
                        Touches(wins[f].rect, wins[c].rect, d)
                 PROVE  c \in S
      BY DEF Pulled
    <2>1. c \in chain
      BY FollowersAreClosed
    <2>2. c # o
      OBVIOUS
    <2> QED  BY <2>1, <2>2
  <1>3. S \in SUBSET (TiledIds(wins) \ {id})
    BY <1>1
  <1>4. o \in S
    <2> HIDE DEF S
    <2> QED  BY <1>2, <1>3 DEF EdgeFollowers
  <1> QED  BY <1>4

\* What the World owes a window one edge of which has moved.
CarriesChain(next, id, d) ==
  LET old   == windows[id].rect
      new   == next[id].rect
      delta == Edge(new, d) - Edge(old, d)
      moved == {o \in Ids \ {id} : next[o] # windows[o]}
  IN  OnlyEdgeMoved(old, new, d) /\ moved # {} =>
        /\ \A o \in moved :
             /\ next[o].rect = IF Horizontal(d)
                               THEN Translated(windows[o].rect, delta, 0)
                               ELSE Translated(windows[o].rect, 0, delta)
             /\ \E f \in moved \cup {id} : Touches(windows[f].rect, windows[o].rect, d)
        /\ \A f \in moved \cup {id}, o \in TiledIds(windows) \ {id} :
             Touches(windows[f].rect, windows[o].rect, d) => o \in moved

\* A rectangle that is only moved moves two edges or none.
LEMMA MovedTwoEdges ==
  ASSUME NEW r \in Rect, NEW s \in Rect, s.w = r.w, s.h = r.h, NEW d \in Direction
  PROVE  ~ OnlyEdgeMoved(r, s, d)
  <1>1. /\ r.x \in Int /\ r.y \in Int /\ s.x \in Int /\ s.y \in Int
        /\ r.w \in Int /\ r.h \in Int
    BY DEF Rect
  <1>2. \A i, j, n \in Int : (i # j) <=> (i + 2 * n # j + 2 * n)
    OBVIOUS
  <1>3. (Edge(r, "Left") # Edge(s, "Left")) <=> (Edge(r, "Right") # Edge(s, "Right"))
    <2>1. /\ Edge(r, "Left") = r.x /\ Edge(r, "Right") = r.x + 2 * r.w
          /\ Edge(s, "Left") = s.x /\ Edge(s, "Right") = s.x + 2 * r.w
      BY DEF Edge, Right, Cell
    <2> QED  BY <1>1, <1>2, <2>1
  <1>4. (Edge(r, "Up") # Edge(s, "Up")) <=> (Edge(r, "Down") # Edge(s, "Down"))
    <2>1. /\ Edge(r, "Up") = r.y /\ Edge(r, "Down") = r.y + 2 * r.h
          /\ Edge(s, "Up") = s.y /\ Edge(s, "Down") = s.y + 2 * r.h
      BY DEF Edge, Bottom, Cell
    <2> QED  BY <1>1, <1>2, <2>1
  <1>5. ASSUME OnlyEdgeMoved(r, s, d)
        PROVE  /\ (Edge(r, "Left") # Edge(s, "Left")) <=> ("Left" = d)
               /\ (Edge(r, "Right") # Edge(s, "Right")) <=> ("Right" = d)
               /\ (Edge(r, "Up") # Edge(s, "Up")) <=> ("Up" = d)
               /\ (Edge(r, "Down") # Edge(s, "Down")) <=> ("Down" = d)
    <2>1. "Left" \in Direction /\ "Right" \in Direction /\ "Up" \in Direction /\ "Down" \in Direction
      BY DEF Direction
    <2> QED  BY <1>5, <2>1 DEF OnlyEdgeMoved
  <1>6. d \in {"Left", "Right", "Up", "Down"}
    BY DEF Direction
  <1> QED  BY <1>3, <1>4, <1>5, <1>6


\* One edge of the resized window moved, and the others are where they were.
LEMMA OnePull ==
  ASSUME NEW id \in Ids, NEW rect, NEW d \in Direction,
         OnlyEdgeMoved(windows[id].rect, rect, d), NEW e \in Direction,
         windows[id].rect \in Rect, rect \in Rect
  PROVE  LET pulls == Pulls(windows, id, rect)
         IN  IF e = d THEN /\ pulls[e].delta = Edge(rect, d) - Edge(windows[id].rect, d)
                           /\ pulls[e].delta \in Int \ {0}
                           /\ pulls[e].chain = EdgeFollowers(windows, id, d)
                      ELSE pulls[e].delta = 0 /\ pulls[e].chain = {}
  <1> DEFINE pulls == Pulls(windows, id, rect)
  <1>1. pulls[e] = EdgePull(windows, id, rect, e)
    BY DEF Pulls, Direction
  <1>2. Edge(rect, e) \in Int /\ Edge(windows[id].rect, e) \in Int
    BY RectTypes
  <1>3. (Edge(rect, e) # Edge(windows[id].rect, e)) <=> (e = d)
    BY DEF OnlyEdgeMoved
  <1> HIDE DEF pulls
  <1>4. /\ pulls[e].delta = Edge(rect, e) - Edge(windows[id].rect, e)
        /\ pulls[e].chain = IF pulls[e].delta = 0 THEN {} ELSE EdgeFollowers(windows, id, e)
    BY <1>1 DEF EdgePull
  <1>5. pulls[e].delta \in Int /\ (pulls[e].delta = 0 <=> e # d)
    BY <1>2, <1>3, <1>4
  <1> QED  BY <1>4, <1>5 DEF pulls

\* resize_tiled_with_followers and its pointer twin move the chain and nothing else.
LEMMA FollowersCarry ==
  ASSUME TypeOK, NEW id \in Ids, NEW rect \in Rect, NEW d \in Direction
  PROVE  CarriesChain(WithFollowers(windows, id, rect, Pulls(windows, id, rect)), id, d)
  <1> DEFINE pulls == Pulls(windows, id, rect)
             next  == WithFollowers(windows, id, rect, pulls)
             chain == EdgeFollowers(windows, id, d)
             delta == Edge(rect, d) - Edge(windows[id].rect, d)
             moved == {o \in Ids \ {id} : next[o] # windows[o]}
  <1>1. \A o \in Ids : windows[o] \in Window /\ windows[o].rect \in Rect
    BY DEF TypeOK, Window
  <1>2. next[id].rect = rect
    BY <1>1 DEF WithFollowers, Ids, Window
  <1> SUFFICES ASSUME OnlyEdgeMoved(windows[id].rect, rect, d)
               PROVE  CarriesChain(next, id, d)
    BY <1>2 DEF CarriesChain
  <1>3. /\ pulls[d].delta = delta /\ delta \in Int \ {0} /\ pulls[d].chain = chain
        /\ \A e \in Direction \ {d} : pulls[e].delta = 0 /\ pulls[e].chain = {}
    <2>1. ASSUME NEW e \in Direction
          PROVE  IF e = d THEN /\ pulls[e].delta = delta
                               /\ pulls[e].delta \in Int \ {0}
                               /\ pulls[e].chain = chain
                          ELSE pulls[e].delta = 0 /\ pulls[e].chain = {}
      <3>1. windows[id].rect \in Rect
        BY <1>1
      <3> QED  BY <3>1, OnePull, Zenon
    <2> HIDE DEF pulls, delta, chain
    <2> QED  BY <2>1
  <1> HIDE DEF pulls
  <1>4. chain \subseteq TiledIds(windows) \ {id} /\ chain \subseteq Ids
    BY DEF EdgeFollowers, TiledIds, Ids
  <1>5. Dragged(pulls) = chain
    BY <1>3 DEF Dragged
  <1>6. \A o \in Ids \ ({id} \cup chain) : next[o] = windows[o]
    BY <1>5, UndraggedStay
  <1>7. ASSUME NEW o \in chain
        PROVE  /\ next[o].rect = IF Horizontal(d) THEN Translated(windows[o].rect, delta, 0)
                                                  ELSE Translated(windows[o].rect, 0, delta)
               /\ next[o] # windows[o]
    <2> DEFINE Shift(e) == IF o \in pulls[e].chain THEN pulls[e].delta ELSE 0
    <2>1. o \in Ids /\ o # id
      BY <1>4
    <2>2. next[o].rect = Translated(windows[o].rect, Shift("Left") + Shift("Right"),
                                                     Shift("Up") + Shift("Down"))
      BY <1>1, <2>1 DEF WithFollowers, Ids, Window
    <2>3. Shift(d) = delta /\ \A e \in Direction \ {d} : Shift(e) = 0
      BY <1>3
    <2> HIDE DEF Shift, next, delta
    <2>4. next[o].rect = IF Horizontal(d) THEN Translated(windows[o].rect, delta, 0)
                                          ELSE Translated(windows[o].rect, 0, delta)
      <3>1. CASE d = "Left"
        <4>1. Shift("Left") + Shift("Right") = delta /\ Shift("Up") + Shift("Down") = 0
          BY <1>3, <2>3, <3>1 DEF Direction
        <4> QED  BY <2>2, <3>1, <4>1 DEF Horizontal
      <3>2. CASE d = "Right"
        <4>1. Shift("Left") + Shift("Right") = delta /\ Shift("Up") + Shift("Down") = 0
          BY <1>3, <2>3, <3>2 DEF Direction
        <4> QED  BY <2>2, <3>2, <4>1 DEF Horizontal
      <3>3. CASE d = "Up"
        <4>1. Shift("Left") + Shift("Right") = 0 /\ Shift("Up") + Shift("Down") = delta
          BY <1>3, <2>3, <3>3 DEF Direction
        <4> QED  BY <2>2, <3>3, <4>1 DEF Horizontal
      <3>4. CASE d = "Down"
        <4>1. Shift("Left") + Shift("Right") = 0 /\ Shift("Up") + Shift("Down") = delta
          BY <1>3, <2>3, <3>4 DEF Direction
        <4> QED  BY <2>2, <3>4, <4>1 DEF Horizontal
      <3> QED  BY <3>1, <3>2, <3>3, <3>4 DEF Direction
    <2>5. next[o].rect # windows[o].rect
      <3>1. /\ Translated(windows[o].rect, delta, 0).x = windows[o].rect.x + delta
            /\ Translated(windows[o].rect, 0, delta).y = windows[o].rect.y + delta
            /\ windows[o].rect.x \in Int /\ windows[o].rect.y \in Int
        BY <1>1, <2>1 DEF Translated, Rect
      <3> QED  BY <1>3, <2>4, <3>1
    <2> QED  BY <2>4, <2>5
  <1>8. moved = chain
    BY <1>4, <1>6, <1>7
  <1>9. \A o \in chain : \E f \in chain \cup {id} : Touches(windows[f].rect, windows[o].rect, d)
    BY FollowersAreTouched
  <1>10. \A f \in chain \cup {id}, o \in TiledIds(windows) \ {id} :
           Touches(windows[f].rect, windows[o].rect, d) => o \in chain
    BY FollowersAreClosed
  <1> HIDE DEF next, chain
  <1> QED  BY <1>2, <1>7, <1>8, <1>9, <1>10 DEF CarriesChain

\* A step that moves one window alone, and one that moves a window by both of its
\* edges or not at all, owe it nothing.
LEMMA AloneCarries ==
  ASSUME NEW next, NEW id \in Ids, NEW d,
         \A o \in Ids \ {id} : next[o] = windows[o]
  PROVE  CarriesChain(next, id, d)
  BY DEF CarriesChain

LEMMA MovedCarries ==
  ASSUME TypeOK, NEW next, NEW id \in Ids, NEW d \in Direction, next[id].rect \in Rect,
         next[id].rect.w = windows[id].rect.w, next[id].rect.h = windows[id].rect.h
  PROVE  CarriesChain(next, id, d)
  <1>1. windows[id].rect \in Rect
    BY DEF TypeOK, Window
  <1> QED  BY <1>1, MovedTwoEdges DEF CarriesChain

\* One window is replaced: it owes itself nothing, and the others did not move.
LEMMA ReplacedCarries ==
  ASSUME TypeOK, NEW id \in Ids, NEW w, NEW o \in Ids, NEW d \in Direction
  PROVE  CarriesChain([windows EXCEPT ![id] = w], o, d)
  <1> DEFINE next == [windows EXCEPT ![id] = w]
  <1>1. \A p \in Ids \ {id} : next[p] = windows[p]
    BY DEF TypeOK
  <1> HIDE DEF next
  <1>2. ASSUME o = id PROVE CarriesChain(next, o, d)
    BY <1>1, <1>2, AloneCarries
  <1>3. ASSUME o # id PROVE CarriesChain(next, o, d)
    <2>1. windows[o].rect \in Rect
      BY DEF TypeOK, Window
    <2>2. next[o].rect \in Rect /\ next[o].rect.w = windows[o].rect.w /\ next[o].rect.h = windows[o].rect.h
      BY <1>1, <1>3, <2>1
    <2> QED  BY <2>2, MovedCarries
  <1> QED  BY <1>2, <1>3 DEF next

LEMMA ResizedCarries ==
  ASSUME TypeOK, NEW id \in Ids, NEW rect \in Rect, NEW o \in Ids, NEW d \in Direction
  PROVE  /\ CarriesChain([windows EXCEPT ![id].rect = rect], o, d)
         /\ CarriesChain(WithFollowers(windows, id, rect, Pulls(windows, id, rect)), o, d)
  <1>1. CarriesChain([windows EXCEPT ![id].rect = rect], o, d)
    <2> DEFINE w == [windows[id] EXCEPT !.rect = rect]
    <2>1. [windows EXCEPT ![id].rect = rect] = [windows EXCEPT ![id] = w]
      BY DEF TypeOK
    <2> HIDE DEF w
    <2> QED  BY <2>1, ReplacedCarries
  <1>2. CASE o = id
    BY <1>1, <1>2, FollowersCarry
  <1>3. CASE o # id
    <2> DEFINE pulls == Pulls(windows, id, rect)
               next  == WithFollowers(windows, id, rect, pulls)
    <2>1. next \in [Ids -> Window]
      BY FollowersType
    <2>2. windows[o] \in Window /\ windows[o].rect \in Rect /\ next[o].rect \in Rect
      BY <2>1 DEF TypeOK, Window
    <2>3. PICK dx, dy : next[o].rect = Translated(windows[o].rect, dx, dy)
      BY <1>3, <2>2 DEF WithFollowers, Ids, Window
    <2> HIDE DEF next
    <2>4. next[o].rect.w = windows[o].rect.w /\ next[o].rect.h = windows[o].rect.h
      BY <2>2, <2>3 DEF Translated, Rect
    <2>5. CarriesChain(next, o, d)
      BY <2>2, <2>4, MovedCarries
    <2> QED  BY <1>1, <2>5 DEF next
  <1> QED  BY <1>2, <1>3

LEMMA GeometryCarries ==
  ASSUME TypeOK, GeometryStep, NEW o \in Ids, NEW d \in Direction
  PROVE  CarriesChain(windows', o, d)
  <1>0. \A id \in Ids : windows[id].rect \in Rect
    BY DEF TypeOK, Window
  <1>1. ASSUME NEW id \in Ids, NEW rect \in Rect,
               \/ CommitRect(id, rect)
               \/ Commit(WithFollowers(windows, id, rect, Pulls(windows, id, rect)))
        PROVE  CarriesChain(windows', o, d)
    BY <1>1, ResizedCarries, CommitWindows DEF CommitRect
  <1>2. ASSUME NEW id \in Ids, NEW p \in Origins, MoveWindowContinuous(id, p)
        PROVE  CarriesChain(windows', o, d)
    <2>1. MovedTo(windows[id].rect, p) \in Rect
      BY <1>0, RectTypes, WorldAssumption
    <2> QED  BY <1>1, <1>2, <2>1 DEF MoveWindowContinuous
  <1>3. ASSUME NEW first \in Ids, NEW second \in Ids, SwapWindows(first, second)
        PROVE  CarriesChain(windows', o, d)
    <2> DEFINE a == MovedTo(windows[first].rect, Origin(windows[second].rect))
               b == MovedTo(windows[second].rect, Origin(windows[first].rect))
    <2>1. windows' = [windows EXCEPT ![first].rect = a, ![second].rect = b] /\ first # second
      BY <1>3, CommitWindows DEF SwapWindows
    <2>2. /\ a \in Rect /\ a.w = windows[first].rect.w /\ a.h = windows[first].rect.h
          /\ b \in Rect /\ b.w = windows[second].rect.w /\ b.h = windows[second].rect.h
      <3>1. a \in Rect /\ b \in Rect
        BY <1>0, RectTypes
      <3> QED  BY <1>0, <3>1 DEF MovedTo, Rect
    <2> HIDE DEF a, b
    <2>3. windows'[o].rect = IF o = first THEN a ELSE IF o = second THEN b ELSE windows[o].rect
      BY <2>1 DEF TypeOK, Window
    <2> QED  BY <1>0, <2>2, <2>3, MovedCarries
  <1>4. ASSUME NEW id \in Ids, NEW size \in Size, ResizeWindow(id, size)
        PROVE  CarriesChain(windows', o, d)
    <2>1. Resized(windows[id].rect, size) \in Rect
      BY <1>0, RectTypes
    <2> QED  BY <1>1, <1>4, <2>1 DEF ResizeWindow
  <1>5. ASSUME NEW id \in Ids, NEW p \in Origins, NEW size \in Sizes,
               ResizeWindowRect(id, RectAt(p, size))
        PROVE  CarriesChain(windows', o, d)
    <2>1. RectAt(p, size) \in Rect
      BY <1>5, InWorldRect, WorldAssumption DEF ResizeWindowRect, GridRect
    <2> QED  BY <1>1, <1>5, <2>1 DEF ResizeWindowRect
  <1>6. ASSUME NEW id \in Ids, NEW size \in InitialSizes, ToggleWindowSize(id, size)
        PROVE  CarriesChain(windows', o, d)
    BY <1>4, <1>6, ToggledSize DEF ToggleWindowSize
  <1> QED  BY <1>2, <1>3, <1>4, <1>5, <1>6, WorldAssumption DEF GeometryStep

LEMMA StepCarries ==
  ASSUME TypeOK, Next, NEW o \in Ids \cap Ids', NEW d \in Direction
  PROVE  CarriesChain(windows', o, d)
  <1>1. ASSUME windows'[o] = windows[o] PROVE CarriesChain(windows', o, d)
    <2>1. windows[o].rect \in Rect
      BY DEF TypeOK, Window
    <2> QED  BY <1>1, <2>1, MovedCarries
  <1>2. CASE LifetimeStep
    <2>1. ASSUME NEW size, PlaceWindow(size) PROVE windows'[o] = windows[o]
      <3>1. o # next_window_id
        BY DEF TypeOK
      <3> QED  BY <2>1, <3>1 DEF PlaceWindow
    <2>2. ASSUME NEW id, RemoveWindow(id) PROVE windows'[o] = windows[o]
      BY <2>2 DEF RemoveWindow, Ids
    <2> QED  BY <1>1, <1>2, <2>1, <2>2 DEF LifetimeStep
  <1>3. CASE PropertyStep
    <2>1. PICK id \in Ids, w \in Window : Constrain(id, w)
      BY <1>3, PropertyConstrains
    <2> QED  BY <2>1, ReplacedCarries, CommitWindows DEF Constrain
  <1>4. CASE PresentationStep
    <2>1. PICK id \in Ids, p \in {"Maximized", "Fullscreen"} : TogglePresentation(id, p)
      BY <1>4 DEF PresentationStep
    <2>2. windows' = [windows EXCEPT ![id] = Presented(windows[id], p)]
      BY <2>1, CommitWindows DEF TogglePresentation, TypeOK
    <2> QED  BY <2>2, ReplacedCarries
  <1>5. CASE FocusStep \/ OutputStep \/ CameraMotion
    BY <1>1, <1>5, WindowsUntouched
  <1> QED  BY <1>2, <1>3, <1>4, <1>5, GeometryCarries DEF Next, NormalNext

\* When one edge of a tiled window moves, either nothing else does or the whole
\* chain that hangs on that edge moves by exactly the same distance, and nobody
\* moves who does not hang on it (edge_followers, resize_tiled_with_followers,
\* resize_window_continuous_rect).
THEOREM ChainsAreCarried == Spec => ResizeCarriesChain
  <1>1. TypeOK /\ [Next]_vars =>
          [\A id \in TiledIds(windows) \cap Ids', d \in Direction :
             LET old   == windows[id].rect
                 new   == windows'[id].rect
                 delta == Edge(new, d) - Edge(old, d)
                 moved == {o \in Ids \ {id} : windows'[o] # windows[o]}
             IN  OnlyEdgeMoved(old, new, d) /\ moved # {} =>
                   /\ \A o \in moved :
                        /\ windows'[o].rect = IF Horizontal(d)
                                              THEN Translated(windows[o].rect, delta, 0)
                                              ELSE Translated(windows[o].rect, 0, delta)
                        /\ \E f \in moved \cup {id} : Touches(windows[f].rect, windows[o].rect, d)
                   /\ \A f \in moved \cup {id}, o \in TiledIds(windows) \ {id} :
                        Touches(windows[f].rect, windows[o].rect, d) => o \in moved]_vars
    <2> SUFFICES ASSUME TypeOK, Next,
                        NEW id \in TiledIds(windows) \cap Ids', NEW d \in Direction
                 PROVE  CarriesChain(windows', id, d)
      BY DEF CarriesChain
    <2>1. id \in Ids
      BY DEF TiledIds, Ids
    <2> QED  BY <2>1, StepCarries
  <1> QED  BY <1>1, TypeCorrect, PTL DEF Spec, ResizeCarriesChain

-----------------------------------------------------------------------------
(* Rounded quotients *)

\* The quotient of an integer is the one below it.
LEMMA DivBounds ==
  ASSUME NEW a \in Int, NEW d \in Nat \ {0}
  PROVE  a \div d \in Int /\ d * (a \div d) <= a /\ a < d * (a \div d) + d
  OBVIOUS

\* f64::round is off by half a unit at most.
LEMMA RoundedBounds ==
  ASSUME NEW n \in Int, NEW d \in Nat \ {0}
  PROVE  /\ RoundedQuotient(n, d) \in Int
         /\ 2 * (d * RoundedQuotient(n, d)) <= 2 * n + d
         /\ 2 * n - d <= 2 * (d * RoundedQuotient(n, d))
  <1> DEFINE up   == 2 * n + d
             down == d - 2 * n
             q    == up \div (2 * d)
             p    == down \div (2 * d)
  <1>1. 2 * d \in Nat \ {0} /\ up \in Int /\ down \in Int
    OBVIOUS
  <1>2. q \in Int /\ (2 * d) * q <= up /\ up < (2 * d) * q + 2 * d
    <2> HIDE DEF up
    <2> QED  BY <1>1, DivBounds
  <1>3. p \in Int /\ (2 * d) * p <= down /\ down < (2 * d) * p + 2 * d
    <2> HIDE DEF down
    <2> QED  BY <1>1, DivBounds
  <1>4. (2 * d) * q = 2 * (d * q) /\ (2 * d) * p = 2 * (d * p) /\ d * (- p) = - (d * p)
    <2> HIDE DEF q, p
    <2> QED  BY <1>2, <1>3
  <1>5. RoundedQuotient(n, d) = IF n < 0 THEN - p ELSE q
    BY DEF RoundedQuotient
  <1> HIDE DEF q, p
  <1>6. d * q \in Int /\ d * p \in Int
    BY <1>2, <1>3
  <1>7. CASE n < 0
    <2>1. RoundedQuotient(n, d) = - p
      BY <1>5, <1>7
    <2>2. d * RoundedQuotient(n, d) = - (d * p)
      BY <1>4, <2>1
    <2> DEFINE dp == d * p
    <2> HIDE DEF dp
    <2>3. 2 * dp <= down /\ down < 2 * dp + 2 * d /\ dp \in Int
      BY <1>3, <1>4, <1>6 DEF dp
    <2>4. 2 * (- dp) <= 2 * n + d /\ 2 * n - d <= 2 * (- dp)
      BY <2>3
    <2> QED  BY <1>3, <2>1, <2>2, <2>4 DEF dp
  <1>8. CASE n >= 0
    <2>1. RoundedQuotient(n, d) = q
      BY <1>5, <1>8
    <2> DEFINE dq == d * q
    <2> HIDE DEF dq
    <2>3. 2 * dq <= up /\ up < 2 * dq + 2 * d /\ dq \in Int
      BY <1>2, <1>4, <1>6 DEF dq
    <2>4. 2 * dq <= 2 * n + d /\ 2 * n - d <= 2 * dq
      BY <2>3
    <2> QED  BY <1>2, <2>1, <2>4 DEF dq
  <1> QED  BY <1>7, <1>8

\* Multiplying by a number of pixels keeps an order.
LEMMA ProductMonotone ==
  ASSUME NEW a \in Int, NEW b \in Int, NEW p \in Nat, a <= b
  PROVE  a * p \in Int /\ b * p \in Int /\ a * p <= b * p
  <1>1. b - a \in Nat /\ (b - a) * p \in Nat
    OBVIOUS
  <1>2. (b - a) * p = b * p - a * p /\ a * p \in Int /\ b * p \in Int
    OBVIOUS
  <1> QED  BY <1>1, <1>2

\* A position and a length, each rounded on its own, end one unit beyond the
\* rounded position of whatever begins where they end, at most; not even one if
\* the length rounds to nothing.
LEMMA RoundedSum ==
  ASSUME NEW n \in Int, NEW m \in Nat, NEW e \in Int, NEW d \in Nat \ {0}, n + m <= e
  PROVE  /\ RoundedQuotient(n, d) + RoundedQuotient(m, d) <= RoundedQuotient(e, d) + 1
         /\ RoundedQuotient(n, d) <= RoundedQuotient(e, d)
  <1> DEFINE rn == RoundedQuotient(n, d)
             rm == RoundedQuotient(m, d)
             re == RoundedQuotient(e, d)
  <1>1. /\ rn \in Int /\ rm \in Int /\ re \in Int
        /\ 2 * (d * rn) <= 2 * n + d /\ 2 * n - d <= 2 * (d * rn)
        /\ 2 * (d * rm) <= 2 * m + d
        /\ 2 * e - d <= 2 * (d * re)
    BY RoundedBounds
  <1>2. n = e => rn = re
    OBVIOUS
  <1> HIDE DEF rn, rm, re
  <1>3. rn + rm <= re + 1
    <2>1. SUFFICES ASSUME rn + rm >= re + 2 PROVE FALSE
      BY <1>1
    <2>2. (re + 2) * d <= (rn + rm) * d
      BY <1>1, <2>1, ProductMonotone
    <2>3. (re + 2) * d = d * re + 2 * d /\ (rn + rm) * d = d * rn + d * rm
      BY <1>1
    <2>4. d * re \in Int /\ d * rn \in Int /\ d * rm \in Int
      BY <1>1
    <2> QED  BY <1>1, <2>2, <2>3, <2>4
  <1>4. rn <= re
    <2>1. SUFFICES ASSUME rn >= re + 1 PROVE FALSE
      BY <1>1
    <2>2. (re + 1) * d <= rn * d
      BY <1>1, <2>1, ProductMonotone
    <2>3. (re + 1) * d = d * re + d /\ rn * d = d * rn
      BY <1>1
    <2>4. d * re \in Int /\ d * rn \in Int
      BY <1>1
    <2>5. n < e
      BY <1>1, <1>2, <2>1
    <2> QED  BY <1>1, <2>2, <2>3, <2>4, <2>5
  <1> QED  BY <1>3, <1>4 DEF rn, rm, re

-----------------------------------------------------------------------------
(* Windows apart *)

\* A window that ends where another begins, or earlier, does so on the screen up
\* to one pixel; each has a pixel at least.
LEMMA OneAxis ==
  ASSUME NEW low1 \in Int, NEW length1 \in Nat, NEW low2 \in Int, low1 + length1 <= low2,
         NEW from \in Int, NEW pixels \in Nat, NEW cells \in Nat \ {0}, NEW zoom \in Nat \ {0}
  PROVE  Pixels(low1 - from, pixels, cells, zoom) + Larger(1, Pixels(length1, pixels, cells, zoom))
           <= Pixels(low2 - from, pixels, cells, zoom) + 1
  <1> DEFINE n == (low1 - from) * pixels
             m == length1 * pixels
             e == (low2 - from) * pixels
             d == Cell * cells * zoom
  <1>1. d \in Nat \ {0}
    <2>1. Cell * cells \in Nat \ {0}
      BY DEF Cell
    <2> QED  BY <2>1
  <1>2. n \in Int /\ m \in Nat /\ e \in Int /\ n + m <= e
    <2>1. ((low1 - from) + length1) * pixels <= e /\ e \in Int
      <3> HIDE DEF n, m
      <3>1. (low1 - from) + length1 \in Int /\ low2 - from \in Int
            /\ (low1 - from) + length1 <= low2 - from
        OBVIOUS
      <3> QED  BY <3>1, ProductMonotone
    <2>2. ((low1 - from) + length1) * pixels = n + m /\ n \in Int /\ m \in Nat
      OBVIOUS
    <2> QED  BY <2>1, <2>2
  <1> HIDE DEF n, m, e, d
  <1>3. /\ RoundedQuotient(n, d) + RoundedQuotient(m, d) <= RoundedQuotient(e, d) + 1
        /\ RoundedQuotient(n, d) <= RoundedQuotient(e, d)
        /\ RoundedQuotient(n, d) \in Int /\ RoundedQuotient(m, d) \in Int
        /\ RoundedQuotient(e, d) \in Int
    BY <1>1, <1>2, RoundedSum, RoundedBounds
  <1> QED  BY <1>3 DEF Pixels, Larger, n, m, e, d

\* Lengths in pixels are integers.
LEMMA PixelsType ==
  ASSUME NEW length \in Int, NEW pixels \in Nat, NEW cells \in Nat \ {0}, NEW zoom \in Nat \ {0}
  PROVE  Pixels(length, pixels, cells, zoom) \in Int /\ ZoomCenterOffset(pixels, zoom) \in Int
  <1>1. length * pixels \in Int /\ pixels * (zoom - 1) \in Int /\ 2 * zoom \in Nat \ {0}
    OBVIOUS
  <1>2. Cell * cells * zoom \in Nat \ {0}
    <2>1. Cell * cells \in Nat \ {0}
      BY DEF Cell
    <2> QED  BY <2>1
  <1> QED  BY <1>1, <1>2, RoundedBounds DEF Pixels, ZoomCenterOffset

\* An inset leaves a pixel.
LEMMA InsetLeaves ==
  ASSUME NEW length \in Nat \ {0}, NEW gap \in Nat
  PROVE  Inset(length, gap) \in Nat /\ length - 2 * Inset(length, gap) > 0
  BY DEF Inset

\* The gap on the screen.
LEMMA GapType ==
  ASSUME NEW zoom \in Nat \ {0}
  PROVE  RoundedQuotient(Gap, zoom) \in Nat
  <1> DEFINE r == RoundedQuotient(Gap, zoom)
  <1>1. r \in Int /\ 2 * Gap - zoom <= 2 * (zoom * r) /\ Gap \in Nat
    <2>1. Gap \in Nat
      BY ScreenAssumption
    <2> QED  BY <2>1, RoundedBounds
  <1> HIDE DEF r
  <1>2. SUFFICES ASSUME r <= -1 PROVE FALSE
    BY <1>1 DEF r
  <1>3. r * zoom <= (-1) * zoom /\ r * zoom = zoom * r
    BY <1>1, <1>2, ProductMonotone
  <1>4. zoom * r \in Int /\ (-1) * zoom = - zoom
    BY <1>1
  <1> QED  BY <1>1, <1>3, <1>4

\* The place of a window before the gap is taken off.
LEMMA WorldToScreenType ==
  ASSUME NEW r \in Rect, NEW cam \in CameraState, NEW area \in Rect
  PROVE  WorldToScreen(r, cam, area) \in Rect
  <1>1. /\ r.x - cam.x \in Int /\ r.y - cam.y \in Int /\ Cell * r.w \in Int /\ Cell * r.h \in Int
        /\ cam.w \in Nat \ {0} /\ cam.h \in Nat \ {0} /\ cam.zoom \in Nat \ {0}
        /\ area.x \in Int /\ area.y \in Int /\ area.w \in Nat /\ area.h \in Nat
    BY DEF Rect, CameraState, Cell
  <1>2. /\ Pixels(r.x - cam.x, area.w, cam.w, cam.zoom) \in Int
        /\ Pixels(r.y - cam.y, area.h, cam.h, cam.zoom) \in Int
        /\ Pixels(Cell * r.w, area.w, cam.w, cam.zoom) \in Int
        /\ Pixels(Cell * r.h, area.h, cam.h, cam.zoom) \in Int
        /\ ZoomCenterOffset(area.w, cam.zoom) \in Int /\ ZoomCenterOffset(area.h, cam.zoom) \in Int
    BY <1>1, PixelsType
  <1> QED  BY <1>1, <1>2 DEF WorldToScreen, Rect, Larger

\* A window on the screen: a pixel of it at least, inside its place without gap.
LEMMA InsetInside ==
  ASSUME NEW s \in Rect, NEW gap \in Nat
  PROVE  LET t == InsetScreenRect(s, gap)
         IN  /\ t \in Rect
             /\ s.x <= t.x /\ t.x + t.w <= s.x + s.w
             /\ s.y <= t.y /\ t.y + t.h <= s.y + s.h
  <1> DEFINE dx == Inset(s.w, gap)
             dy == Inset(s.h, gap)
  <1>1. /\ s.x \in Int /\ s.y \in Int /\ s.w \in Nat \ {0} /\ s.h \in Nat \ {0}
    BY DEF Rect
  <1>2. dx \in Nat /\ s.w - 2 * dx > 0 /\ dy \in Nat /\ s.h - 2 * dy > 0
    BY <1>1, InsetLeaves
  <1>3. InsetScreenRect(s, gap) = [x |-> s.x + dx, y |-> s.y + dy, w |-> s.w - 2 * dx, h |-> s.h - 2 * dy]
    BY DEF InsetScreenRect
  <1> HIDE DEF dx, dy
  <1> QED  BY <1>1, <1>2, <1>3 DEF Rect

\* How far spans reach into each other, if one ends by the other's first pixel.
LEMMA CommonBound ==
  ASSUME NEW a \in Int, NEW l \in Nat, NEW b \in Int, NEW k \in Nat,
         a + l <= b + 1 \/ b + k <= a + 1
  PROVE  Common(a, l, b, k) <= 1
  BY DEF Common, Larger

\* Two windows that do not overlap in the World stay apart on the screen.
LEMMA ApartOnScreen ==
  ASSUME NEW p \in Rect, NEW q \in Rect, ~ Overlaps(p, q), NEW cam \in CameraState,
         NEW area \in Rect, NEW gap \in Nat
  PROVE  LET s == InsetScreenRect(WorldToScreen(p, cam, area), gap)
             t == InsetScreenRect(WorldToScreen(q, cam, area), gap)
         IN  Common(s.x, s.w, t.x, t.w) <= 1 \/ Common(s.y, s.h, t.y, t.h) <= 1
  <1> DEFINE u == WorldToScreen(p, cam, area)
             v == WorldToScreen(q, cam, area)
             s == InsetScreenRect(u, gap)
             t == InsetScreenRect(v, gap)
  <1>1. u \in Rect /\ v \in Rect
    BY WorldToScreenType
  <1>2. /\ s \in Rect /\ u.x <= s.x /\ s.x + s.w <= u.x + u.w /\ u.y <= s.y /\ s.y + s.h <= u.y + u.h
        /\ t \in Rect /\ v.x <= t.x /\ t.x + t.w <= v.x + v.w /\ v.y <= t.y /\ t.y + t.h <= v.y + v.h
    <2> HIDE DEF u, v
    <2> QED  BY <1>1, InsetInside
  <1>3. /\ cam.x \in Int /\ cam.y \in Int
        /\ cam.w \in Nat \ {0} /\ cam.h \in Nat \ {0} /\ cam.zoom \in Nat \ {0}
        /\ area.x \in Int /\ area.y \in Int /\ area.w \in Nat /\ area.h \in Nat
    BY DEF CameraState, Rect
  <1>4. ASSUME NEW f \in Rect, NEW g \in Rect, f.x + Cell * f.w <= g.x
        PROVE  WorldToScreen(f, cam, area).x + WorldToScreen(f, cam, area).w
                 <= WorldToScreen(g, cam, area).x + 1
    <2>1. /\ f.x \in Int /\ Cell * f.w \in Nat /\ g.x \in Int
          /\ f.x - cam.x \in Int /\ g.x - cam.x \in Int /\ Cell * f.w \in Int
      BY <1>3 DEF Rect, Cell
    <2>2. Pixels(f.x - cam.x, area.w, cam.w, cam.zoom)
            + Larger(1, Pixels(Cell * f.w, area.w, cam.w, cam.zoom))
              <= Pixels(g.x - cam.x, area.w, cam.w, cam.zoom) + 1
      BY <1>3, <1>4, <2>1, OneAxis
    <2>3. /\ Pixels(f.x - cam.x, area.w, cam.w, cam.zoom) \in Int
          /\ Pixels(g.x - cam.x, area.w, cam.w, cam.zoom) \in Int
          /\ Pixels(Cell * f.w, area.w, cam.w, cam.zoom) \in Int
          /\ ZoomCenterOffset(area.w, cam.zoom) \in Int
      BY <1>3, <2>1, PixelsType
    <2> QED  BY <1>3, <2>2, <2>3 DEF WorldToScreen, Larger
  <1>5. ASSUME NEW f \in Rect, NEW g \in Rect, f.y + Cell * f.h <= g.y
        PROVE  WorldToScreen(f, cam, area).y + WorldToScreen(f, cam, area).h
                 <= WorldToScreen(g, cam, area).y + 1
    <2>1. /\ f.y \in Int /\ Cell * f.h \in Nat /\ g.y \in Int
          /\ f.y - cam.y \in Int /\ g.y - cam.y \in Int /\ Cell * f.h \in Int
      BY <1>3 DEF Rect, Cell
    <2>2. Pixels(f.y - cam.y, area.h, cam.h, cam.zoom)
            + Larger(1, Pixels(Cell * f.h, area.h, cam.h, cam.zoom))
              <= Pixels(g.y - cam.y, area.h, cam.h, cam.zoom) + 1
      BY <1>3, <1>5, <2>1, OneAxis
    <2>3. /\ Pixels(f.y - cam.y, area.h, cam.h, cam.zoom) \in Int
          /\ Pixels(g.y - cam.y, area.h, cam.h, cam.zoom) \in Int
          /\ Pixels(Cell * f.h, area.h, cam.h, cam.zoom) \in Int
          /\ ZoomCenterOffset(area.h, cam.zoom) \in Int
      BY <1>3, <2>1, PixelsType
    <2> QED  BY <1>3, <2>2, <2>3 DEF WorldToScreen, Larger
  <1>6. \/ p.x + Cell * p.w <= q.x \/ q.x + Cell * q.w <= p.x
        \/ p.y + Cell * p.h <= q.y \/ q.y + Cell * q.h <= p.y
    BY DEF Overlaps, SpansMeetX, SpansMeetY, Right, Bottom, Rect, Cell
  <1>7. \/ u.x + u.w <= v.x + 1 \/ v.x + v.w <= u.x + 1
        \/ u.y + u.h <= v.y + 1 \/ v.y + v.h <= u.y + 1
    BY <1>4, <1>5, <1>6
  <1> HIDE DEF u, v, s, t
  <1>8. \/ s.x + s.w <= t.x + 1 \/ t.x + t.w <= s.x + 1
        \/ s.y + s.h <= t.y + 1 \/ t.y + t.h <= s.y + 1
    BY <1>1, <1>2, <1>7 DEF Rect
  <1>9. /\ s.x \in Int /\ s.y \in Int /\ s.w \in Nat /\ s.h \in Nat
        /\ t.x \in Int /\ t.y \in Int /\ t.w \in Nat /\ t.h \in Nat
    BY <1>2 DEF Rect
  <1>10. Common(s.x, s.w, t.x, t.w) <= 1 \/ Common(s.y, s.h, t.y, t.h) <= 1
    BY <1>8, <1>9, CommonBound
  <1> QED  BY <1>10 DEF s, t, u, v

-----------------------------------------------------------------------------
(* Windows on the screen *)

\* Every Output has an area to show windows in.
LEMMA RenderArea ==
  ASSUME TypeOK, NEW o \in Outputs, NEW presentation
  PROVE  OutputRenderArea(o, presentation) \in Rect
  <1>1. o \in 1 .. (LastOutputId - 1)
    BY WorldAssumption DEF TypeOK, Outputs
  <1>2. /\ Registered[o] \in Rect /\ Registered[o].h > Bar /\ Bar \in Nat
    BY <1>1, ScreenAssumption
  <1> DEFINE y == Registered[o].y + Bar
             h == Registered[o].h - Bar
  <1>3. y \in Int /\ h \in Nat \ {0}
    BY <1>2 DEF Rect
  <1>4. OutputRenderArea(o, presentation)
          = IF presentation = "Fullscreen" THEN Registered[o]
            ELSE [Registered[o] EXCEPT !.y = y, !.h = h]
    BY DEF OutputRenderArea
  <1> HIDE DEF y, h
  <1>5. [Registered[o] EXCEPT !.y = y, !.h = h] \in Rect
    BY <1>2, <1>3 DEF Rect
  <1> QED  BY <1>2, <1>4, <1>5

\* A window on the screen has a pixel.
LEMMA ScreenRectType ==
  ASSUME TypeOK, NEW o \in Outputs, NEW id \in Ids
  PROVE  /\ ScreenRect(id, o) \in Rect
         /\ CameraForOutput(o) \in CameraState
         /\ windows[id].rect \in Rect
  <1>1. CameraForOutput(o) \in CameraState
    BY WorldAssumption DEF TypeOK, CameraForOutput, Outputs
  <1>2. windows[id].rect \in Rect
    BY DEF TypeOK, Window
  <1> DEFINE cam  == CameraForOutput(o)
             area == OutputRenderArea(o, windows[id].presentation)
             gap  == RoundedQuotient(Gap, cam.zoom)
  <1>3. area \in Rect
    BY RenderArea
  <1>4. gap \in Nat
    BY <1>1, GapType DEF CameraState
  <1>5. WorldToScreen(windows[id].rect, cam, area) \in Rect
    <2> HIDE DEF area
    <2> QED  BY <1>1, <1>2, <1>3, WorldToScreenType
  <1>6. ScreenRect(id, o) = IF windows[id].presentation = "Normal"
                            THEN InsetScreenRect(WorldToScreen(windows[id].rect, cam, area), gap)
                            ELSE area
    BY DEF ScreenRect
  <1> HIDE DEF cam, area, gap
  <1>7. InsetScreenRect(WorldToScreen(windows[id].rect, cam, area), gap) \in Rect
    BY <1>4, <1>5, InsetInside
  <1> QED  BY <1>1, <1>2, <1>3, <1>6, <1>7

\* The windows of an Output are apart, whatever its Camera looks at.
LEMMA Apart ==
  ASSUME TypeOK
  PROVE  TiledApartOnScreen
  <1> SUFFICES ASSUME NEW o \in Outputs, NEW a \in Ids, NEW b \in Ids
               PROVE  LET s == ScreenRect(a, o)
                          t == ScreenRect(b, o)
                      IN  /\ s.w > 0 /\ s.h > 0
                          /\ (a # b /\ {windows[a].presentation, windows[b].presentation} = {"Normal"}
                                /\ ~ Overlaps(windows[a].rect, windows[b].rect)) =>
                               Common(s.x, s.w, t.x, t.w) <= 1 \/ Common(s.y, s.h, t.y, t.h) <= 1
    BY DEF TiledApartOnScreen
  <1>1. ScreenRect(a, o).w > 0 /\ ScreenRect(a, o).h > 0
    BY ScreenRectType DEF Rect
  <1>2. ASSUME windows[a].presentation = "Normal", windows[b].presentation = "Normal",
               ~ Overlaps(windows[a].rect, windows[b].rect)
        PROVE  LET s == ScreenRect(a, o)
                   t == ScreenRect(b, o)
               IN  Common(s.x, s.w, t.x, t.w) <= 1 \/ Common(s.y, s.h, t.y, t.h) <= 1
    <2> DEFINE cam  == CameraForOutput(o)
               area == OutputRenderArea(o, "Normal")
               gap  == RoundedQuotient(Gap, cam.zoom)
    <2>1. /\ ScreenRect(a, o) = InsetScreenRect(WorldToScreen(windows[a].rect, cam, area), gap)
          /\ ScreenRect(b, o) = InsetScreenRect(WorldToScreen(windows[b].rect, cam, area), gap)
      BY <1>2 DEF ScreenRect
    <2>2. cam \in CameraState /\ windows[a].rect \in Rect /\ windows[b].rect \in Rect
      BY ScreenRectType
    <2>3. area \in Rect
      BY RenderArea
    <2>4. gap \in Nat
      BY <2>2, GapType DEF CameraState
    <2> HIDE DEF cam, area, gap
    <2> QED  BY <1>2, <2>1, <2>2, <2>3, <2>4, ApartOnScreen
  <1> QED  BY <1>1, <1>2

\* Tiled windows stay apart on every Output up to a pixel that is lost to rounding, and
\* no window vanishes in the gaps.
THEOREM ApartOnEveryScreen == Spec => []TiledApartOnScreen
  <1>1. TypeOK => TiledApartOnScreen
    BY Apart
  <1> QED  BY <1>1, TypeCorrect, PTL
=============================================================================
