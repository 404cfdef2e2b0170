-------------------------- MODULE WorldPromiseProofs -------------------------
(***************************************************************************)
(* What the World promises about views and presentation: fullscreen holds  *)
(* every camera, a presented window comes back to the rectangle it had,    *)
(* following a window reveals it, a new window goes to the nearest free    *)
(* origin beside its anchor, and the World implements the Desktop.         *)
(***************************************************************************)
EXTENDS WorldTypeProofs, FiniteSetTheorems

LOCAL INSTANCE FiniteSetsExt

-----------------------------------------------------------------------------
(* Fullscreen holds the cameras *)

SameView(k, c) == k.x = c.x /\ k.y = c.y /\ k.zoom = c.zoom

\* Whatever is done to Outputs and cameras leaves the views of the others alone.
LEMMA OutputHoldsViews ==
  ASSUME TypeOK, OutputStep
  PROVE  \A o \in Outputs : o \in Outputs' /\ CameraForOutput(o)' = CameraForOutput(o)
  <1> SUFFICES ASSUME NEW o \in Outputs
               PROVE  o \in Outputs' /\ CameraForOutput(o)' = CameraForOutput(o)
    OBVIOUS
  <1>0. /\ DOMAIN inactive_cameras = 1 .. next_output_id - 1 \ {active_output}
        /\ next_output_id \in Nat
    BY DEF TypeOK
  <1>1. ASSUME NEW size, AddOutput(size)
        PROVE  o \in Outputs' /\ CameraForOutput(o)' = CameraForOutput(o)
    BY <1>0, <1>1 DEF AddOutput, Outputs, CameraForOutput
  <1>2. ASSUME NEW p, ActivateOutput(p)
        PROVE  o \in Outputs' /\ CameraForOutput(o)' = CameraForOutput(o)
    BY <1>0, <1>2 DEF ActivateOutput, Outputs, CameraForOutput
  <1> QED  BY <1>1, <1>2 DEF OutputStep, CycleOutput

\* Every camera action asks whether a window is fullscreen; a reload changes the
\* viewport only.
LEMMA MotionHoldsViews ==
  ASSUME TypeOK, CameraMotion, \E id \in Ids : windows[id].presentation = "Fullscreen"
  PROVE  /\ SameView(camera', camera)
         /\ UNCHANGED <<active_output, inactive_cameras>>
  <1>1. ASSUME NEW cam PROVE ~ MoveCamera(cam)
    BY DEF MoveCamera
  <1>2. PICK size \in Viewports : ResizeCameraViewport(size)
    BY <1>1 DEF CameraMotion, CameraActionStep, CameraStep, CameraNudge, CameraPan, CameraTo,
         CameraCenter, CameraFollow, CameraZoom
  <1>3. camera' = [camera EXCEPT !.w = size.w, !.h = size.h]
    BY <1>2 DEF ResizeCameraViewport
  <1>4. SameView(camera', camera)
    BY <1>3 DEF SameView, TypeOK, CameraState
  <1> QED  BY <1>2, <1>4 DEF ResizeCameraViewport

\* While any window is fullscreen no camera of any Output moves or zooms.
THEOREM FullscreenHoldsCameras == Spec => CameraHeldByFullscreen
  <1>1. TypeOK /\ [Next]_vars => [CameraHeldStep]_vars
    <2> SUFFICES ASSUME TypeOK, Next, \E id \in Ids : windows[id].presentation = "Fullscreen",
                        NEW o \in Outputs
                 PROVE  SameView(CameraForOutput(o)', CameraForOutput(o))
      BY DEF CameraHeldStep, SameView
    <2>1. CASE OutputStep
      BY <2>1, OutputHoldsViews DEF SameView
    <2>2. CASE CameraMotion
      BY <2>2, MotionHoldsViews DEF CameraForOutput, SameView
    <2>3. CASE LifetimeStep \/ GeometryStep \/ PropertyStep \/ FocusStep \/ PresentationStep
      BY <2>3, CamerasUntouched DEF CameraForOutput, SameView, outputVars
    <2> QED  BY <2>1, <2>2, <2>3 DEF Next, NormalNext
  <1> QED  BY <1>1, TypeCorrect, PTL DEF Spec, CameraHeldByFullscreen

-----------------------------------------------------------------------------
(* Presented windows come back *)

\* A presented window lies on whole cells, so that no rounding moves it, and
\* has a rectangle to come back to.
PresentedInv ==
  \A id \in Ids : windows[id].presentation # "Normal" =>
                    OnGrid(windows[id].rect) /\ windows[id].restore # None

\* Nobody's presentation or stored rectangle differs in next, and no presented
\* window's rectangle does.
PresentedKept(next) ==
  /\ DOMAIN next = Ids
  /\ \A id \in Ids :
       /\ next[id].presentation = windows[id].presentation
       /\ next[id].restore = windows[id].restore
       /\ windows[id].presentation # "Normal" => next[id].rect = windows[id].rect

\* One window that is not presented gets another rectangle.
LEMMA OneRectPresented ==
  ASSUME TypeOK, NEW id \in Ids, windows[id].presentation = "Normal", NEW rect,
         CommitRect(id, rect)
  PROVE  PresentedKept(windows')
  <1>1. windows' = [windows EXCEPT ![id].rect = rect]
    BY DEF CommitRect, Commit
  <1>2. DOMAIN windows' = Ids /\ windows'[id] = [windows[id] EXCEPT !.rect = rect]
        /\ \A o \in Ids \ {id} : windows'[o] = windows[o]
    BY <1>1 DEF TypeOK
  <1>3. windows[id] \in Window
    BY DEF TypeOK
  <1> QED  BY <1>2, <1>3 DEF PresentedKept, Window

\* A chain is dragged only when none of its windows is presented.
LEMMA ChainPresented ==
  ASSUME TypeOK, NEW id \in Ids, NEW rect, NEW pulls,
         ProposalAllowed(windows, {id} \cup Dragged(pulls),
                         WithFollowers(windows, id, rect, pulls)),
         Commit(WithFollowers(windows, id, rect, pulls))
  PROVE  PresentedKept(windows')
  <1> DEFINE proposed == WithFollowers(windows, id, rect, pulls)
  <1>1. windows' = proposed /\ DOMAIN proposed = Ids
    BY DEF Commit, WithFollowers, Ids
  <1>2. ASSUME NEW o \in {id} \cup Dragged(pulls) PROVE windows[o].presentation = "Normal"
    BY DEF ProposalAllowed
  <1>3. ASSUME NEW o \in Ids
        PROVE  proposed[o].presentation = windows[o].presentation
               /\ proposed[o].restore = windows[o].restore
    <2>1. windows[o] \in Window
      BY DEF TypeOK
    <2>2. \E r : proposed[o] = [windows[o] EXCEPT !.rect = r]
      BY DEF WithFollowers, Ids
    <2> HIDE DEF proposed
    <2> QED  BY <2>1, <2>2 DEF Window
  <1>4. ASSUME NEW o \in Ids \ ({id} \cup Dragged(pulls)) PROVE proposed[o] = windows[o]
    BY UndraggedStay
  <1> HIDE DEF proposed
  <1> QED  BY <1>1, <1>2, <1>3, <1>4 DEF PresentedKept

\* Moves, swaps and resizes, of the window or of a neighbour.
LEMMA GeometryPresented ==
  ASSUME TypeOK, GeometryStep
  PROVE  PresentedKept(windows')
  <1>1. ASSUME NEW id \in Ids, NEW rect, GeometryAllowed(windows, id, rect), CommitRect(id, rect)
        PROVE  PresentedKept(windows')
    BY <1>1, OneRectPresented DEF GeometryAllowed
  <1>2. ASSUME NEW id \in Ids, NEW size, ResizeWindow(id, size)
        PROVE  PresentedKept(windows')
    BY <1>1, <1>2, ChainPresented DEF ResizeWindow
  <1>3. ASSUME NEW first \in Ids, NEW second \in Ids, SwapWindows(first, second)
        PROVE  PresentedKept(windows')
    <2> DEFINE a == MovedTo(windows[first].rect, Origin(windows[second].rect))
               b == MovedTo(windows[second].rect, Origin(windows[first].rect))
    <2>1. windows' = [windows EXCEPT ![first].rect = a, ![second].rect = b] /\ first # second
      BY <1>3 DEF SwapWindows, Commit
    <2>2. windows[first].presentation = "Normal" /\ windows[second].presentation = "Normal"
      BY <1>3 DEF SwapWindows, SwapAllowed
    <2> HIDE DEF a, b
    <2>3. /\ DOMAIN windows' = Ids
          /\ windows'[first] = [windows[first] EXCEPT !.rect = a]
          /\ windows'[second] = [windows[second] EXCEPT !.rect = b]
          /\ \A o \in Ids \ {first, second} : windows'[o] = windows[o]
      BY <2>1 DEF TypeOK
    <2>4. windows[first] \in Window /\ windows[second] \in Window
      BY DEF TypeOK
    <2> QED  BY <2>2, <2>3, <2>4 DEF PresentedKept, Window
  <1>4. ASSUME NEW id \in Ids, NEW rect, ResizeWindowRect(id, rect)
        PROVE  PresentedKept(windows')
    BY <1>1, <1>4, ChainPresented DEF ResizeWindowRect
  <1>5. ASSUME NEW id \in Ids, NEW p, MoveWindowContinuous(id, p)
        PROVE  PresentedKept(windows')
    BY <1>1, <1>5 DEF MoveWindowContinuous
  <1> QED  BY <1>2, <1>3, <1>4, <1>5 DEF GeometryStep, ToggleWindowSize

\* toggle_floating rounds the rectangle of a presented window too, which is on
\* the grid already.
LEMMA PropertyPresented ==
  ASSUME TypeOK, PresentedInv, PropertyStep
  PROVE  PresentedKept(windows')
  <1> DEFINE Like(id, w) == /\ w.presentation = windows[id].presentation
                            /\ w.restore = windows[id].restore
                            /\ windows[id].presentation # "Normal" => w.rect = windows[id].rect
  <1>0. ASSUME NEW id \in Ids, NEW w, Constrain(id, w), Like(id, w)
        PROVE  PresentedKept(windows')
    <2>1. windows' = [windows EXCEPT ![id] = w]
      BY <1>0 DEF Constrain, Commit
    <2> QED  BY <1>0, <2>1 DEF PresentedKept, TypeOK
  <1>1. ASSUME NEW id \in Ids, ToggleFloating(id) PROVE PresentedKept(windows')
    <2> DEFINE w == windows[id]
               aligned == [w EXCEPT !.runtime = "tiled",
                             !.rect.x = RoundCell(@), !.rect.y = RoundCell(@)]
    <2>1. w \in Window /\ w.rect \in Rect
      BY DEF TypeOK, Window
    <2>2. Like(id, aligned)
      <3>1. aligned.presentation = w.presentation /\ aligned.restore = w.restore
            /\ aligned.rect = [w.rect EXCEPT !.x = RoundCell(@), !.y = RoundCell(@)]
        BY <2>1 DEF Window, Rect
      <3>2. w.presentation # "Normal" => RoundCell(w.rect.x) = w.rect.x
                                         /\ RoundCell(w.rect.y) = w.rect.y
        BY DEF PresentedInv, OnGrid, RoundCell
      <3>3. w.presentation # "Normal" => aligned.rect = w.rect
        BY <2>1, <3>1, <3>2 DEF Rect
      <3> QED  BY <3>1, <3>3
    <2>3. Like(id, [w EXCEPT !.runtime = "floating"])
      BY <2>1 DEF Window
    <2> QED  BY <1>0, <1>1, <2>2, <2>3 DEF ToggleFloating
  <1>2. ASSUME NEW id \in Ids, NEW v
        PROVE  /\ Like(id, [windows[id] EXCEPT !.runtime = v])
               /\ Like(id, [windows[id] EXCEPT !.config = v])
    BY DEF TypeOK, Window
  <1> QED  BY <1>0, <1>1, <1>2 DEF PropertyStep, SetWindowProperty, ClearWindowProperty,
                                   ReplaceConfigProperties

\* Entering a presentation, changing it and ending it.
LEMMA PresentationPresented ==
  ASSUME TypeOK, PresentedInv, PresentationStep
  PROVE  PresentedStep /\ PresentedInv'
  <1> PICK id \in Ids, p \in {"Maximized", "Fullscreen"} : TogglePresentation(id, p)
    BY DEF PresentationStep
  <1> DEFINE w == windows[id]
             v == Presented(w, p)
  <1>1. windows' = [windows EXCEPT ![id] = v]
    BY DEF TogglePresentation, Commit
  <1>2. Ids' = Ids /\ windows'[id] = v /\ \A o \in Ids \ {id} : windows'[o] = windows[o]
    BY <1>1 DEF TypeOK, Ids
  <1>3. w \in Window /\ w.rect \in Rect /\ w.rect # None
    BY NoneAssumption DEF TypeOK, Window
  <1>4. OnGrid(Viewport(camera))
    <2>1. camera.x \in Int /\ camera.y \in Int
      BY DEF TypeOK, CameraState
    <2>2. FloorCell(camera.x) % Cell = 0 /\ FloorCell(camera.y) % Cell = 0
      BY <2>1 DEF FloorCell, Cell
    <2> QED  BY <2>2 DEF OnGrid, Viewport, View
  <1>5. CASE p = w.presentation
    <2>1. v.presentation = "Normal" /\ v.rect = w.restore /\ w.presentation # "Normal"
      BY <1>3, <1>5 DEF Presented, Window, PresentedInv
    <2> HIDE DEF v
    <2> QED  BY <1>2, <2>1 DEF PresentedStep, NormalRect, PresentedInv
  <1>6. CASE p # w.presentation
    <2>1. /\ v.presentation = p /\ p # "Normal" /\ v.rect = Viewport(camera)
          /\ v.restore = NormalRect(w)
      BY <1>3, <1>6 DEF Presented, Window, NormalRect
    <2>2. v.restore # None
      BY <1>3, <2>1 DEF PresentedInv, NormalRect
    <2> HIDE DEF v
    <2> QED  BY <1>2, <1>4, <1>6, <2>1, <2>2 DEF PresentedStep, NormalRect, PresentedInv
  <1> QED  BY <1>5, <1>6

\* Whatever happens to a window while it is presented, it comes back to the
\* rectangle it had before, and it stays where its presentation put it.
THEOREM PresentedComesBack == Spec => PresentationRoundTrip
  <1>1. Init => PresentedInv
    BY DEF Init, PresentedInv, Ids
  <1>2. TypeOK /\ PresentedInv /\ [Next]_vars => PresentedInv' /\ [PresentedStep]_vars
    <2> SUFFICES ASSUME TypeOK, PresentedInv, [Next]_vars PROVE PresentedInv' /\ PresentedStep
      OBVIOUS
    <2>1. ASSUME PresentedKept(windows') PROVE PresentedInv' /\ PresentedStep
      BY <2>1 DEF PresentedKept, PresentedInv, PresentedStep, NormalRect, Ids
    <2>2. CASE GeometryStep \/ PropertyStep
      BY <2>1, <2>2, GeometryPresented, PropertyPresented
    <2>3. CASE PresentationStep
      BY <2>3, PresentationPresented
    <2>4. CASE UNCHANGED windows
      BY <2>4 DEF PresentedInv, PresentedStep, NormalRect, Ids
    <2>5. CASE LifetimeStep
      <3>1. ASSUME NEW size, PlaceWindow(size) PROVE PresentedInv' /\ PresentedStep
        <4>1. PICK rect : windows' = [o \in Ids \cup {next_window_id} |->
                            IF o = next_window_id THEN NewWindow(rect) ELSE windows[o]]
          BY <3>1 DEF PlaceWindow
        <4>2. next_window_id \notin Ids
          BY DEF TypeOK
        <4>3. Ids' = Ids \cup {next_window_id} /\ \A o \in Ids : windows'[o] = windows[o]
          BY <4>1, <4>2 DEF Ids
        <4>4. windows'[next_window_id].presentation = "Normal"
          BY <4>1 DEF NewWindow
        <4> QED  BY <4>2, <4>3, <4>4 DEF PresentedInv, PresentedStep, NormalRect
      <3>2. ASSUME NEW id, RemoveWindow(id) PROVE PresentedInv' /\ PresentedStep
        <4>1. Ids' \subseteq Ids /\ \A o \in Ids' : windows'[o] = windows[o]
          BY <3>2 DEF RemoveWindow, Ids
        <4> QED  BY <4>1 DEF PresentedInv, PresentedStep, NormalRect
      <3> QED  BY <2>5, <3>1, <3>2 DEF LifetimeStep
    <2> QED  BY <2>2, <2>3, <2>4, <2>5, WindowsUntouched DEF Next, NormalNext, vars
  <1> QED  BY <1>1, <1>2, TypeCorrect, PTL DEF Spec, PresentationRoundTrip

-----------------------------------------------------------------------------
(* CameraFollow reveals *)

\* On one axis: a span that fits is brought into view, one in view moves nothing.
LEMMA RevealSpan ==
  ASSUME NEW p \in Int, NEW e \in Int, NEW v \in Int, NEW low \in Int, NEW high \in Int,
         high - low <= v
  PROVE  /\ Reveal(p, e, v, low, high) \in Int
         /\ Reveal(p, e, v, low, high) - e <= low
         /\ high <= Reveal(p, e, v, low, high) - e + v
         /\ p - e <= low /\ high <= p - e + v => Reveal(p, e, v, low, high) = p
  BY DEF Reveal

\* What a camera sees is the viewport and the extra on either side, wherever it is.
LEMMA SeenAt ==
  ASSUME NEW cam \in CameraState, NEW x \in Int, NEW y \in Int
  PROVE  /\ ExtraX(cam) \in Int /\ ExtraX(cam) = Seen(cam).w - cam.w
         /\ ExtraY(cam) \in Int /\ ExtraY(cam) = Seen(cam).h - cam.h
         /\ Seen(cam).w \in Nat /\ Seen(cam).h \in Nat
         /\ Seen(At(cam, x, y)).x = x - ExtraX(cam) /\ Seen(At(cam, x, y)).w = Seen(cam).w
         /\ Seen(At(cam, x, y)).y = y - ExtraY(cam) /\ Seen(At(cam, x, y)).h = Seen(cam).h
  <1>1. cam.w \in Nat /\ cam.h \in Nat /\ cam.zoom \in Nat \ {0}
    BY DEF CameraState
  <1>2. ASSUME NEW n \in Nat, NEW z \in Nat \ {0}
        PROVE  n * (z - 1) \in Int /\ n * z \in Nat /\ n * (z - 1) = n * z - n
    OBVIOUS
  <1>3. At(cam, x, y).x = x /\ At(cam, x, y).y = y /\ At(cam, x, y).w = cam.w
        /\ At(cam, x, y).h = cam.h /\ At(cam, x, y).zoom = cam.zoom
    BY DEF At, CameraState
  <1>4. /\ ExtraX(cam) \in Int /\ ExtraX(cam) = Seen(cam).w - cam.w /\ Seen(cam).w \in Nat
        /\ ExtraY(cam) \in Int /\ ExtraY(cam) = Seen(cam).h - cam.h /\ Seen(cam).h \in Nat
    <2>1. Seen(cam).w = cam.w * cam.zoom /\ Seen(cam).h = cam.h * cam.zoom
      BY DEF Seen
    <2>2. /\ cam.w * (cam.zoom - 1) \in Int /\ cam.w * cam.zoom \in Nat
          /\ cam.w * (cam.zoom - 1) = cam.w * cam.zoom - cam.w
      BY <1>1, <1>2
    <2>3. /\ cam.h * (cam.zoom - 1) \in Int /\ cam.h * cam.zoom \in Nat
          /\ cam.h * (cam.zoom - 1) = cam.h * cam.zoom - cam.h
      BY <1>1, <1>2
    <2> QED  BY <2>1, <2>2, <2>3 DEF ExtraX, ExtraY
  <1>5. /\ Seen(At(cam, x, y)).x = x - ExtraX(cam) /\ Seen(At(cam, x, y)).w = Seen(cam).w
        /\ Seen(At(cam, x, y)).y = y - ExtraY(cam) /\ Seen(At(cam, x, y)).h = Seen(cam).h
    BY <1>3 DEF Seen, ExtraX, ExtraY
  <1> QED  BY <1>4, <1>5

\* On one axis, in integers: a span that fits and is centred on lies in view, and
\* one that lies in view fits and meets it.
LEMMA SpanInView ==
  ASSUME NEW c \in Int, NEW a \in Int, NEW m \in Nat, NEW n \in Nat, m # 0
  PROVE  /\ m <= n => a + m - n <= a /\ a + 2 * m <= a + m - n + 2 * n
         /\ c <= a /\ a + 2 * m <= c + 2 * n => m <= n /\ a < c + 2 * n /\ c < a + 2 * m
  OBVIOUS

\* Where Follow puts a camera, out of view and in view.
LEMMA FollowAt ==
  ASSUME NEW cam \in CameraState, NEW r \in Rect
  PROVE  IF ~ Overlaps(r, Seen(cam)) \/ r.w > Seen(cam).w \/ r.h > Seen(cam).h
         THEN Follow(cam, r) = At(cam, (r.x + r.w) - cam.w, (r.y + r.h) - cam.h)
         ELSE Follow(cam, r) =
                At(cam, Reveal(cam.x, ExtraX(cam), Cell * Seen(cam).w, r.x, Right(r)),
                        Reveal(cam.y, ExtraY(cam), Cell * Seen(cam).h, r.y, Bottom(r)))
  <1>1. CenterOn(cam, r) = At(cam, (r.x + r.w) - cam.w, (r.y + r.h) - cam.h)
    BY Zenon DEF CenterOn, CenterX, CenterY
  <1> QED  BY <1>1, Zenon DEF Follow

LEMMA FollowShows ==
  ASSUME NEW cam \in CameraState, NEW r \in Rect
  PROVE  LET followed == Follow(cam, r)
             fits     == r.w <= Seen(cam).w /\ r.h <= Seen(cam).h
         IN  /\ fits => Holds(Seen(followed), r)
             /\ Holds(Seen(cam), r) => followed = cam
             /\ ~ fits => CenterX(Seen(followed)) = CenterX(r)
                          /\ CenterY(Seen(followed)) = CenterY(r)
  <1> DEFINE view == Seen(cam)
             fits == r.w <= view.w /\ r.h <= view.h
             apart == ~ Overlaps(r, view) \/ r.w > view.w \/ r.h > view.h
             followed == Follow(cam, r)
             now == Seen(followed)
  <1>1. PICK cx \in Int, cy \in Int, cw \in Nat, ch \in Nat :
          cx = cam.x /\ cy = cam.y /\ cw = cam.w /\ ch = cam.h
    BY DEF CameraState
  <1>2. PICK x \in Int, y \in Int, w \in Nat, h \in Nat :
          x = r.x /\ y = r.y /\ w = r.w /\ h = r.h /\ w # 0 /\ h # 0
    BY DEF Rect
  <1>3. PICK vw \in Nat, vh \in Nat, ex \in Int, ey \in Int :
          /\ vw = view.w /\ vh = view.h /\ ex = ExtraX(cam) /\ ey = ExtraY(cam)
          /\ ex = vw - cw /\ ey = vh - ch
    BY <1>1, SeenAt
  <1>4. view.x = cx - ex /\ view.y = cy - ey
    BY <1>1, <1>3 DEF Seen
  <1>5. ASSUME NEW p \in Int, NEW q \in Int
        PROVE  /\ Seen(At(cam, p, q)).x = p - ex /\ Seen(At(cam, p, q)).w = vw
               /\ Seen(At(cam, p, q)).y = q - ey /\ Seen(At(cam, p, q)).h = vh
    <2>1. /\ Seen(At(cam, p, q)).x = p - ExtraX(cam) /\ Seen(At(cam, p, q)).w = view.w
          /\ Seen(At(cam, p, q)).y = q - ExtraY(cam) /\ Seen(At(cam, p, q)).h = view.h
      BY SeenAt
    <2> QED  BY <1>3, <2>1
  <1>6. Right(r) = x + 2 * w /\ Bottom(r) = y + 2 * h
    BY <1>2 DEF Right, Bottom, Cell
  <1>7. Right(view) = cx - ex + 2 * vw /\ Bottom(view) = cy - ey + 2 * vh
    BY <1>3, <1>4 DEF Right, Bottom, Cell
  <1>8. Holds(view, r) => fits /\ ~ apart
    <2> SUFFICES ASSUME Holds(view, r) PROVE fits /\ Overlaps(r, view)
      BY <1>2, <1>3
    <2>1. cx - ex <= x /\ x + 2 * w <= cx - ex + 2 * vw
          /\ cy - ey <= y /\ y + 2 * h <= cy - ey + 2 * vh
      BY <1>2, <1>4, <1>6, <1>7 DEF Holds
    <2>2. w <= vw /\ x < cx - ex + 2 * vw /\ cx - ex < x + 2 * w
      BY <1>2, <2>1, SpanInView
    <2>3. h <= vh /\ y < cy - ey + 2 * vh /\ cy - ey < y + 2 * h
      BY <1>2, <2>1, SpanInView
    <2> QED  BY <1>2, <1>3, <1>4, <1>6, <1>7, <2>2, <2>3 DEF Overlaps, SpansMeetX, SpansMeetY
  <1>9. CASE apart
    <2>1. followed = At(cam, (x + w) - cw, (y + h) - ch)
      BY <1>1, <1>2, <1>9, FollowAt
    <2>2. now.x = x + w - vw /\ now.y = y + h - vh /\ now.w = vw /\ now.h = vh
      <3> DEFINE p == (x + w) - cw
                 q == (y + h) - ch
      <3>1. p \in Int /\ q \in Int /\ p - ex = x + w - vw /\ q - ey = y + h - vh
        BY <1>3
      <3> HIDE DEF p, q
      <3>2. now = Seen(At(cam, p, q))
        BY <2>1 DEF p, q
      <3> HIDE DEF now
      <3>3. now.x = p - ex /\ now.y = q - ey /\ now.w = vw /\ now.h = vh
        BY <1>5, <3>1, <3>2
      <3> QED  BY <3>1, <3>3
    <2>3. CenterX(now) = CenterX(r) /\ CenterY(now) = CenterY(r)
      BY <1>2, <2>2 DEF CenterX, CenterY
    <2>4. Right(now) = x + w - vw + 2 * vw /\ Bottom(now) = y + h - vh + 2 * vh
      BY <2>2 DEF Right, Bottom, Cell
    <2>5. w <= vw /\ h <= vh => Holds(now, r)
      BY <1>2, <1>6, <2>2, <2>4, SpanInView DEF Holds
    <2> QED  BY <1>2, <1>3, <1>8, <1>9, <2>3, <2>5
  <1>10. CASE ~ apart
    <2> DEFINE qx == Reveal(cx, ex, 2 * vw, x, x + 2 * w)
               qy == Reveal(cy, ey, 2 * vh, y, y + 2 * h)
    <2>1. followed = At(cam, qx, qy)
      BY <1>1, <1>2, <1>3, <1>6, <1>10, FollowAt DEF Cell
    <2>2. w <= vw /\ h <= vh
      BY <1>2, <1>3, <1>10
    <2>3. /\ qx \in Int /\ qx - ex <= x /\ x + 2 * w <= qx - ex + 2 * vw
          /\ cx - ex <= x /\ x + 2 * w <= cx - ex + 2 * vw => qx = cx
      BY <2>2, RevealSpan
    <2>4. /\ qy \in Int /\ qy - ey <= y /\ y + 2 * h <= qy - ey + 2 * vh
          /\ cy - ey <= y /\ y + 2 * h <= cy - ey + 2 * vh => qy = cy
      BY <2>2, RevealSpan
    <2> HIDE DEF qx, qy
    <2>5. now.x = qx - ex /\ now.y = qy - ey /\ now.w = vw /\ now.h = vh
      <3>1. now = Seen(At(cam, qx, qy))
        BY <2>1
      <3> HIDE DEF now
      <3> QED  BY <1>5, <2>3, <2>4, <3>1
    <2>6. Holds(now, r)
      <3>1. Right(now) = qx - ex + 2 * vw /\ Bottom(now) = qy - ey + 2 * vh
        BY <2>5 DEF Right, Bottom, Cell
      <3> QED  BY <1>2, <1>6, <2>3, <2>4, <2>5, <3>1 DEF Holds
    <2>7. Holds(view, r) => followed = cam
      <3>1. Holds(view, r) => qx = cx /\ qy = cy
        BY <1>2, <1>4, <1>6, <1>7, <2>3, <2>4 DEF Holds
      <3>2. At(cam, cx, cy) = cam
        BY <1>1 DEF At, CameraState
      <3> QED  BY <2>1, <3>1, <3>2
    <2> QED  BY <1>2, <1>3, <2>2, <2>6, <2>7
  <1> QED  BY <1>9, <1>10

\* Following a window shows all of it where it fits, its centre where it does
\* not, and moves nothing when it was wholly visible (camera_follow_window).
THEOREM FollowingReveals == Spec => []FollowReveals
  <1>1. ASSUME TypeOK, NEW id \in Ids
        PROVE  camera \in CameraState /\ windows[id].rect \in Rect
    BY <1>1 DEF TypeOK, Window
  <1>2. TypeOK => FollowReveals
    BY <1>1, FollowShows DEF FollowReveals
  <1> QED  BY <1>2, TypeCorrect, PTL

-----------------------------------------------------------------------------
(* The World implements the Desktop *)

Views == [o \in Outputs |-> CameraForOutput(o)]

\* Every Output that was added has a view, a camera.
LEMMA ViewsType ==
  ASSUME TypeOK
  PROVE  /\ Outputs = 1 .. next_output_id - 1
         /\ Views \in [1 .. next_output_id - 1 -> CameraState]
  <1>1. Outputs = 1 .. next_output_id - 1
    BY DEF TypeOK, Outputs
  <1>2. \A o \in Outputs : CameraForOutput(o) \in CameraState
    BY DEF TypeOK, Outputs, CameraForOutput
  <1> QED  BY <1>1, <1>2 DEF Views

\* An action of the Desktop, or nothing it can see.
DesktopStep == Promise!Next \/ UNCHANGED Promise!desktopVars

\* Windows open under the next name and close with the focus they may have.
LEMMA LifetimeIsOpenOrClose ==
  ASSUME TypeOK, LifetimeStep
  PROVE  DesktopStep
  <1>0. UNCHANGED <<next_output_id, active_output, Views>>
    BY CamerasUntouched DEF outputVars, Views, Outputs, CameraForOutput
  <1>1. ASSUME NEW size, PlaceWindow(size) PROVE Promise!Open
    <2>1. next_window_id \in Int /\ (next_window_id - 1) + 1 = next_window_id
      BY DEF TypeOK
    <2>2. Ids' = Ids \cup {next_window_id} /\ next_window_id' - 1 = next_window_id
      BY <1>1, <2>1 DEF PlaceWindow, Ids
    <2>3. focus' = IF focus = None THEN next_window_id ELSE focus
      BY <1>1 DEF PlaceWindow
    <2> QED  BY <1>0, <2>1, <2>2, <2>3 DEF Promise!Open, Views
  <1>2. ASSUME NEW id \in Ids, RemoveWindow(id) PROVE Promise!Close(id)
    BY <1>0, <1>2 DEF RemoveWindow, Promise!Close, Ids, idVars, Views
  <1> QED  BY <1>1, <1>2 DEF LifetimeStep, DesktopStep, Promise!Next

\* The focus goes to a window that is there.
LEMMA FocusIsChoice ==
  ASSUME TypeOK, FocusStep
  PROVE  DesktopStep
  <1>0. UNCHANGED <<next_output_id, active_output, Views, next_window_id, Ids>>
    <2>1. UNCHANGED <<windows, next_window_id>>
      BY WindowsUntouched DEF FocusStep, FocusWindow, SetNextPlacement, FocusDirection, idVars
    <2> QED  BY <2>1, CamerasUntouched DEF outputVars, Views, Outputs, CameraForOutput, Ids
  <1>1. ASSUME NEW id \in Ids, FocusWindow(id) PROVE Promise!Choose(id)
    BY <1>0, <1>1 DEF FocusWindow, Promise!Choose, Views
  <1>2. ASSUME NEW d \in Direction, SetNextPlacement(d) PROVE UNCHANGED Promise!desktopVars
    BY <1>0, <1>2 DEF SetNextPlacement, Promise!desktopVars, Views
  <1>3. ASSUME NEW d \in Direction, FocusDirection(d)
        PROVE  \E id \in Ids : FocusWindow(id)
    BY <1>3 DEF FocusDirection, FocusEntryCandidate, DirectionalNeighbor, Ahead
  <1> QED  BY <1>1, <1>2, <1>3 DEF FocusStep, DesktopStep, Promise!Next

\* A new Output brings a view; another active Output changes none.
LEMMA OutputIsAttachOrSwitch ==
  ASSUME TypeOK, TypeOK', OutputStep
  PROVE  DesktopStep
  <1>0. \A o \in Outputs : o \in Outputs' /\ Views'[o] = Views[o]
    BY OutputHoldsViews DEF Views
  <1>1. UNCHANGED <<focus, next_window_id, Ids>>
    BY DEF OutputStep, AddOutput, ActivateOutput, CycleOutput, Ids, idVars
  <1>2. Views' \in [1 .. next_output_id' - 1 -> CameraState]
    BY ViewsType DEF Views, Outputs, CameraForOutput, TypeOK
  <1>3. ASSUME NEW size, AddOutput(size) PROVE Promise!Attach
    <2>1. next_output_id \in Int /\ next_output_id' - 1 = (next_output_id - 1) + 1
      BY <1>3 DEF TypeOK, AddOutput
    <2>2. active_output' = active_output
      BY <1>3 DEF AddOutput
    <2> QED  BY <1>0, <1>1, <1>2, <2>1, <2>2, ViewsType DEF Promise!Attach, Views
  <1>4. ASSUME NEW p, ActivateOutput(p) PROVE Promise!Switch
    <2>1. next_output_id' = next_output_id /\ active_output' \in 1 .. next_output_id - 1
      BY <1>4 DEF TypeOK, ActivateOutput
    <2>2. Views' = Views
      <3> DEFINE D == 1 .. next_output_id - 1
      <3>1. Views' \in [D -> CameraState] /\ Views \in [D -> CameraState]
        BY <1>2, <2>1, ViewsType
      <3>2. \A o \in D : Views'[o] = Views[o]
        BY <1>0, ViewsType
      <3> HIDE DEF D
      <3> QED  BY <3>1, <3>2
    <2> QED  BY <1>1, <2>1, <2>2 DEF Promise!Switch, Views
  <1> QED  BY <1>3, <1>4 DEF OutputStep, CycleOutput, DesktopStep, Promise!Next

\* A moving camera changes what the active Output shows.
LEMMA MotionIsLook ==
  ASSUME TypeOK, TypeOK', CameraMotion
  PROVE  DesktopStep
  <1>1. UNCHANGED <<windows, focus, next_window_id, next_output_id, active_output,
                    inactive_cameras>>
    BY DEF CameraMotion, CameraActionStep, CameraStep, CameraNudge, CameraPan, CameraTo,
           CameraCenter, CameraFollow, CameraZoom, MoveCamera, ResizeCameraViewport, idVars
  <1>2. Views' \in [1 .. next_output_id - 1 -> CameraState]
    <2>1. camera' \in CameraState
      BY DEF TypeOK
    <2>2. \A o \in Outputs' : CameraForOutput(o)' \in CameraState
      BY <1>1, <2>1 DEF TypeOK, Outputs, CameraForOutput
    <2>3. Outputs' = 1 .. next_output_id - 1
      BY <1>1, ViewsType DEF Outputs
    <2> QED  BY <2>2, <2>3 DEF Views
  <1>3. \A o \in 1 .. next_output_id - 1 : o # active_output => Views'[o] = Views[o]
    BY <1>1, ViewsType DEF Views, Outputs, CameraForOutput
  <1>4. Promise!Look
    BY <1>1, <1>2, <1>3 DEF Promise!Look, Views, Ids
  <1> QED  BY <1>4 DEF DesktopStep, Promise!Next

\* The World implements the Desktop: ids are never used again, the focus moves
\* by choice, by its window's end or to a first window, and every Output keeps
\* its view while it is not active (focus_window, remove_window, place_window,
\* activate_output).
THEOREM WorldIsDesktop == Spec => DesktopSpec
  <1>1. Init => Promise!Init
    <2> SUFFICES ASSUME Init PROVE Promise!Init
      OBVIOUS
    <2>1. TypeOK
      BY InitType
    <2>2. next_window_id - 1 = 0 /\ next_output_id - 1 = 1 /\ Ids = {} /\ focus = None
          /\ active_output = 1
      BY DEF Init, Ids
    <2>3. Views \in [{1} -> CameraState]
      BY <2>1, <2>2, ViewsType
    <2> QED  BY <2>2, <2>3 DEF Promise!Init, Views
  <1>2. TypeOK /\ TypeOK' /\ [Next]_vars => [Promise!Next]_(Promise!desktopVars)
    <2> SUFFICES ASSUME TypeOK, TypeOK', [Next]_vars PROVE DesktopStep
      BY DEF DesktopStep
    <2>1. CASE LifetimeStep
      BY <2>1, LifetimeIsOpenOrClose
    <2>2. CASE FocusStep
      BY <2>2, FocusIsChoice
    <2>3. CASE OutputStep
      BY <2>3, OutputIsAttachOrSwitch
    <2>4. CASE CameraMotion
      BY <2>4, MotionIsLook
    <2>5. CASE GeometryStep \/ PropertyStep \/ PresentationStep
      BY <2>5, WindowsReplaced
         DEF DesktopStep, Promise!desktopVars, outputVars, Outputs, CameraForOutput
    <2>6. CASE UNCHANGED vars
      BY <2>6 DEF DesktopStep, Promise!desktopVars, vars, outputVars, idVars, Outputs,
                  CameraForOutput, Ids
    <2> QED  BY <2>1, <2>2, <2>3, <2>4, <2>5, <2>6 DEF Next, NormalNext
  <1> QED  BY <1>1, <1>2, TypeCorrect, PTL DEF Spec, DesktopSpec, Promise!Spec

-----------------------------------------------------------------------------
(* Placement looks at tiled windows only *)

\* A bounded set of integers has a least and a greatest element.
LEMMA LeastInteger ==
  ASSUME NEW S, S \subseteq Int, S # {}, NEW lo \in Int, \A x \in S : lo <= x
  PROVE  Min(S) \in S /\ \A x \in S : Min(S) <= x
  <1> DEFINE T == {x - lo : x \in S}
  <1>1. T \subseteq Nat /\ T # {}
    <2>1. \A x \in S : x - lo \in Nat
      OBVIOUS
    <2>2. T # {}
      OBVIOUS
    <2> QED  BY <2>1, <2>2
  <1>2. PICK t \in T : \A u \in T : t <= u
    <2> HIDE DEF T
    <2> QED  BY <1>1, LeastNumber
  <1>3. PICK x \in S : t = x - lo
    BY <1>2
  <1>4. \A y \in S : x <= y
    <2> TAKE y \in S
    <2>1. y - lo \in T /\ x \in Int /\ y \in Int
      OBVIOUS
    <2>2. x - lo <= y - lo
      BY <1>2, <1>3, <2>1
    <2> QED  BY <2>1, <2>2
  <1> QED  BY <1>4 DEF Min

LEMMA GreatestInteger ==
  ASSUME NEW S, S \subseteq Int, S # {}, NEW hi \in Int, \A x \in S : x <= hi
  PROVE  Max(S) \in S /\ \A x \in S : x <= Max(S)
  <1> DEFINE T == {hi - x : x \in S}
  <1>1. T \subseteq Nat /\ T # {}
    <2>1. \A x \in S : hi - x \in Nat
      OBVIOUS
    <2>2. T # {}
      OBVIOUS
    <2> QED  BY <2>1, <2>2
  <1>2. PICK t \in T : \A u \in T : t <= u
    <2> HIDE DEF T
    <2> QED  BY <1>1, LeastNumber
  <1>3. PICK x \in S : t = hi - x
    BY <1>2
  <1>4. \A y \in S : x >= y
    <2> TAKE y \in S
    <2>1. hi - y \in T /\ x \in Int /\ y \in Int
      OBVIOUS
    <2>2. hi - x <= hi - y
      BY <1>2, <1>3, <2>1
    <2> QED  BY <2>1, <2>2
  <1>5. Max(S) \in S /\ \A y \in S : Max(S) >= y
    BY <1>4 DEF Max
  <1> QED  BY <1>5

\* No window reaches out of the World.
Bounded == \A id \in Ids : InWorld(windows[id].rect)

LEMMA BoundedKept ==
  ASSUME TypeOK, Bounded, [Next]_vars PROVE Bounded'
  <1>1. ASSUME NEW wins, Commit(wins) PROVE Bounded'
    BY <1>1 DEF Commit, Bounded, Ids
  <1>2. CASE UNCHANGED windows
    BY <1>2 DEF Bounded, Ids
  <1>3. CASE LifetimeStep
    <2>1. ASSUME NEW size, PlaceWindow(size) PROVE Bounded'
      BY <2>1 DEF PlaceWindow, GridRect, Bounded, Ids, NewWindow
    <2>2. ASSUME NEW id, RemoveWindow(id) PROVE Bounded'
      BY <2>2 DEF RemoveWindow, Bounded, Ids
    <2> QED  BY <1>3, <2>1, <2>2 DEF LifetimeStep
  <1>4. CASE GeometryStep
    <2>1. ASSUME NEW id, NEW p, MoveWindowContinuous(id, p) PROVE Bounded'
      BY <1>1, <2>1 DEF MoveWindowContinuous, CommitRect
    <2>2. ASSUME NEW first, NEW second, SwapWindows(first, second) PROVE Bounded'
      BY <1>1, <2>2 DEF SwapWindows
    <2>3. ASSUME NEW id, NEW size, ResizeWindow(id, size) PROVE Bounded'
      BY <1>1, <2>3 DEF ResizeWindow, CommitRect
    <2>4. ASSUME NEW id, NEW rect, ResizeWindowRect(id, rect) PROVE Bounded'
      BY <1>1, <2>4 DEF ResizeWindowRect, CommitRect
    <2>5. ASSUME NEW id, NEW size, ToggleWindowSize(id, size) PROVE Bounded'
      BY <2>3, <2>5 DEF ToggleWindowSize
    <2> QED  BY <1>4, <2>1, <2>2, <2>3, <2>4, <2>5 DEF GeometryStep
  <1>5. CASE PropertyStep
    BY <1>1, <1>5, PropertyConstrains DEF Constrain
  <1>6. CASE PresentationStep
    BY <1>1, <1>6 DEF PresentationStep, TogglePresentation
  <1>7. CASE FocusStep \/ OutputStep \/ CameraMotion
    BY <1>2, <1>7, WindowsUntouched
  <1> QED  BY <1>2, <1>3, <1>4, <1>5, <1>6, <1>7 DEF Next, NormalNext, vars

LEMMA BoundedAlways == Spec => [](TypeOK /\ Bounded)
  <1>1. Init => TypeOK /\ Bounded
    BY InitType DEF Init, Bounded, Ids
  <1>2. (TypeOK /\ Bounded) /\ [Next]_vars => (TypeOK /\ Bounded)'
    BY TypeKept, BoundedKept
  <1> QED  BY <1>1, <1>2, PTL DEF Spec

\* How far a rectangle reaches in a direction.
Far(r, d) ==
  CASE d = "Left" -> - r.x [] d = "Right" -> Right(r) [] d = "Up" -> - r.y [] d = "Down" -> Bottom(r)

Reach(d) == IF Horizontal(d) THEN Limit.x ELSE Limit.y

LEMMA FarBounded ==
  ASSUME NEW r \in Rect, InWorld(r), NEW d \in Direction
  PROVE  /\ Far(r, d) \in Int /\ Reach(d) \in Nat
         /\ 2 - Reach(d) <= Far(r, d) /\ Far(r, d) <= Reach(d)
  <1>1. /\ r.x \in Int /\ r.y \in Int /\ r.w \in Nat \ {0} /\ r.h \in Nat \ {0}
        /\ Limit.x \in Nat /\ Limit.y \in Nat
    BY LimitAssumption DEF Rect
  <1>2. /\ - Limit.x <= r.x /\ r.x + 2 * r.w <= Limit.x
        /\ - Limit.y <= r.y /\ r.y + 2 * r.h <= Limit.y
    BY <1>1 DEF InWorld, Right, Bottom, Cell
  <1>3. d \in {"Left", "Right", "Up", "Down"}
    BY DEF Direction
  <1> QED  BY <1>1, <1>2, <1>3 DEF Far, Reach, Horizontal, Right, Bottom, Cell

\* Furthest is the edge of one of the windows, and none of them reaches beyond it.
LEMMA FurthestReached ==
  ASSUME TypeOK, Bounded, NEW ids, ids \subseteq Ids, ids # {}, NEW d \in Direction
  PROVE  \E h \in ids : /\ Edge(windows[h].rect, d) = Furthest(windows, ids, d)
                        /\ \A o \in ids : Far(windows[o].rect, d) <= Far(windows[h].rect, d)
  <1> DEFINE edges == {Edge(windows[id].rect, d) : id \in ids}
  <1>1. \A id \in ids : windows[id].rect \in Rect /\ InWorld(windows[id].rect)
    BY DEF TypeOK, Window, Bounded
  <1>2. Reach(d) \in Nat
    BY LimitAssumption DEF Reach
  <1>3. edges \subseteq Int /\ edges # {}
    BY <1>1, RectTypes
  <1>4. CASE d \in {"Left", "Up"}
    <2>1. \A id \in ids : Far(windows[id].rect, d) = - Edge(windows[id].rect, d)
      BY <1>4 DEF Far, Edge
    <2>2. \A x \in edges : - Reach(d) <= x
      <3> SUFFICES ASSUME NEW id \in ids PROVE - Reach(d) <= Edge(windows[id].rect, d)
        OBVIOUS
      <3>1. Edge(windows[id].rect, d) \in Int /\ - Edge(windows[id].rect, d) <= Reach(d)
        BY <1>1, <2>1, FarBounded, RectTypes
      <3> QED  BY <1>2, <3>1
    <2>3. Min(edges) \in edges /\ \A x \in edges : Min(edges) <= x
      <3> HIDE DEF edges
      <3>1. - Reach(d) \in Int
        BY <1>2
      <3> QED  BY <1>3, <2>2, <3>1, LeastInteger
    <2>4. PICK h \in ids : Edge(windows[h].rect, d) = Min(edges)
      BY <2>3
    <2>5. Furthest(windows, ids, d) = Min(edges)
      BY <1>4 DEF Furthest
    <2>6. ASSUME NEW o \in ids PROVE Far(windows[o].rect, d) <= Far(windows[h].rect, d)
      <3>1. Edge(windows[h].rect, d) <= Edge(windows[o].rect, d)
        BY <2>3, <2>4
      <3>2. Edge(windows[h].rect, d) \in Int /\ Edge(windows[o].rect, d) \in Int
        BY <1>1, RectTypes
      <3> QED  BY <2>1, <3>1, <3>2
    <2> QED  BY <2>4, <2>5, <2>6
  <1>5. CASE d \notin {"Left", "Up"}
    <2>1. \A id \in ids : Far(windows[id].rect, d) = Edge(windows[id].rect, d)
      BY <1>5 DEF Far, Edge, Direction
    <2>2. \A x \in edges : x <= Reach(d)
      BY <1>1, <2>1, FarBounded
    <2>3. Max(edges) \in edges /\ \A x \in edges : x <= Max(edges)
      <3> HIDE DEF edges
      <3>1. Reach(d) \in Int
        BY <1>2
      <3> QED  BY <1>3, <2>2, <3>1, GreatestInteger
    <2>4. PICK h \in ids : Edge(windows[h].rect, d) = Max(edges)
      BY <2>3
    <2>5. Furthest(windows, ids, d) = Max(edges)
      BY <1>5 DEF Furthest
    <2>6. \A o \in ids : Far(windows[o].rect, d) <= Far(windows[h].rect, d)
      BY <2>1, <2>3, <2>4
    <2> QED  BY <2>4, <2>5, <2>6
  <1> QED  BY <1>4, <1>5

\* Outermost is one of the windows that reach furthest.
LEMMA OutermostReaches ==
  ASSUME TypeOK, Bounded, NEW ids, ids \subseteq Ids, ids # {}, NEW d \in Direction
  PROVE  LET o == Outermost(windows, ids, d)
         IN  o \in ids /\ Edge(windows[o].rect, d) = Furthest(windows, ids, d)
  <1> DEFINE tied == {id \in ids : Edge(windows[id].rect, d) = Furthest(windows, ids, d)}
             last == next_window_id
  <1>1. tied # {}
    BY FurthestReached
  <1>2. last \in Int /\ \A id \in tied : id \in Int /\ 0 <= id /\ id <= last
    <2>1. last \in Nat /\ Ids \subseteq 1 .. last - 1
      BY WorldAssumption DEF TypeOK
    <2>2. tied \subseteq Ids
      OBVIOUS
    <2> HIDE DEF tied, last
    <2> QED  BY <2>1, <2>2
  <1>3. Outermost(windows, ids, d) = IF d \in {"Left", "Up"} THEN Min(tied) ELSE Max(tied)
    BY DEF Outermost
  <1>4. Min(tied) \in tied /\ Max(tied) \in tied
    <2> HIDE DEF tied, last
    <2>1. tied \subseteq Int /\ 0 \in Int
      BY <1>2
    <2>2. Min(tied) \in tied
      BY <1>1, <1>2, <2>1, LeastInteger
    <2>3. Max(tied) \in tied
      BY <1>1, <1>2, <2>1, GreatestInteger
    <2> QED  BY <2>2, <2>3
  <1> QED  BY <1>3, <1>4

Tiled == [id \in TiledIds(windows) |-> windows[id]]

\* The grid is the same without the floating windows.
LEMMA SameGrid ==
  /\ TiledIds(Tiled) = TiledIds(windows)
  /\ \A id \in TiledIds(windows) : Tiled[id] = windows[id]
  /\ \A rect : Blockers(Tiled, rect) = Blockers(windows, rect)
  /\ VisibleTiled(Tiled, camera) = VisibleTiled(windows, camera)
  /\ \A request : PlacementAnchor(Tiled, camera, focus, request)
                    = PlacementAnchor(windows, camera, focus, request)
  <1>1. DOMAIN Tiled = TiledIds(windows) /\ \A id \in TiledIds(windows) : Tiled[id] = windows[id]
    BY DEF Tiled
  <1>2. TiledIds(Tiled) = TiledIds(windows)
    BY <1>1 DEF TiledIds
  <1>3. \A rect : Blockers(Tiled, rect) = Blockers(windows, rect)
    BY <1>1, <1>2 DEF Blockers
  <1>4. VisibleTiled(Tiled, camera) = VisibleTiled(windows, camera)
    BY <1>1, <1>2 DEF VisibleTiled
  <1>5. ASSUME NEW request
        PROVE  PlacementAnchor(Tiled, camera, focus, request)
                 = PlacementAnchor(windows, camera, focus, request)
    <2> DEFINE captured  == IF request = None THEN None ELSE request.anchor
               seen(wins) == {id \in DOMAIN wins : id = focus /\ Overlaps(wins[id].rect, View(camera))}
    <2>1. seen(Tiled) \cap TiledIds(windows) = seen(windows) \cap TiledIds(windows)
      BY <1>1 DEF TiledIds
    <2> HIDE DEF seen
    <2>2. \A wins : PlacementAnchor(wins, camera, focus, request)
                      = (IF captured # None THEN {captured} ELSE seen(wins)) \cap TiledIds(wins)
      BY DEF PlacementAnchor, seen
    <2> QED  BY <1>2, <2>1, <2>2
  <1> QED  BY <1>1, <1>2, <1>3, <1>4, <1>5

LEMMA SameFurthest ==
  ASSUME NEW ids, ids \subseteq TiledIds(windows), NEW d
  PROVE  /\ Furthest(Tiled, ids, d) = Furthest(windows, ids, d)
         /\ Outermost(Tiled, ids, d) = Outermost(windows, ids, d)
  <1>1. \A id \in ids : Tiled[id] = windows[id]
    BY SameGrid
  <1>2. {Edge(Tiled[id].rect, d) : id \in ids} = {Edge(windows[id].rect, d) : id \in ids}
    BY <1>1
  <1>3. Furthest(Tiled, ids, d) = Furthest(windows, ids, d)
    BY <1>2 DEF Furthest
  <1>4. {id \in ids : Edge(Tiled[id].rect, d) = Furthest(Tiled, ids, d)}
          = {id \in ids : Edge(windows[id].rect, d) = Furthest(windows, ids, d)}
    BY <1>1, <1>3
  <1>5. Outermost(Tiled, ids, d) = Outermost(windows, ids, d)
    BY <1>4 DEF Outermost
  <1> QED  BY <1>3, <1>5

\* One round of the loop of advance_placement_past_occupied, and the search it makes.
Hop(wins, p, size, d) ==
  LET hit == Blockers(wins, RectAt(p, size))
  IN  IF hit = {} THEN p ELSE Beyond(p, Furthest(wins, hit, d), size, d)

Search(f, wins, start, size, d, n) ==
  f = [k \in 0 .. n |-> IF k = 0 THEN start ELSE Hop(wins, f[k - 1], size, d)]

LEMMA AdvanceIsSearch ==
  ASSUME NEW wins, NEW start, NEW size, NEW d
  PROVE  AdvancePastOccupied(wins, start, size, d)
           = (CHOOSE f : Search(f, wins, start, size, d, Cardinality(TiledIds(wins))))
               [Cardinality(TiledIds(wins))]
  BY DEF AdvancePastOccupied, Search, Hop

LEMMA SameAdvance ==
  ASSUME NEW start, NEW size, NEW d
  PROVE  AdvancePastOccupied(Tiled, start, size, d) = AdvancePastOccupied(windows, start, size, d)
  <1> DEFINE n == Cardinality(TiledIds(windows))
  <1>1. \A p : Hop(Tiled, p, size, d) = Hop(windows, p, size, d)
    <2> SUFFICES ASSUME NEW p PROVE Hop(Tiled, p, size, d) = Hop(windows, p, size, d)
      OBVIOUS
    <2> DEFINE hit == Blockers(windows, RectAt(p, size))
    <2>1. Blockers(Tiled, RectAt(p, size)) = hit
      BY SameGrid
    <2>2. Furthest(Tiled, hit, d) = Furthest(windows, hit, d)
      BY SameFurthest DEF Blockers
    <2> QED  BY <2>1, <2>2 DEF Hop
  <1>2. \A f : Search(f, Tiled, start, size, d, n) <=> Search(f, windows, start, size, d, n)
    BY <1>1 DEF Search
  <1>3. (CHOOSE f : Search(f, Tiled, start, size, d, n)) = CHOOSE f : Search(f, windows, start, size, d, n)
    <2> HIDE DEF n
    <2> QED  BY <1>2
  <1>4. Cardinality(TiledIds(Tiled)) = n
    BY SameGrid
  <1> HIDE DEF n
  <1>5. AdvancePastOccupied(Tiled, start, size, d) = (CHOOSE f : Search(f, Tiled, start, size, d, n))[n]
    BY <1>4, AdvanceIsSearch
  <1>6. AdvancePastOccupied(windows, start, size, d) = (CHOOSE f : Search(f, windows, start, size, d, n))[n]
    BY AdvanceIsSearch DEF n
  <1> QED  BY <1>3, <1>5, <1>6

\* The windows a placement starts from, and where it starts.
Basis(wins, request) ==
  LET anchor == PlacementAnchor(wins, camera, focus, request)
  IN  IF anchor # {} THEN anchor ELSE VisibleTiled(wins, camera)

DirectionOf(request) == IF request = None THEN "Right" ELSE request.direction

LEMMA PlacementStarts ==
  ASSUME NEW wins, NEW request, NEW size
  PROVE  LET d == DirectionOf(request)
             o == Outermost(wins, Basis(wins, request), d)
         IN  PlacementOrigin(wins, camera, focus, request, size)
               = IF VisibleTiled(wins, camera) = {} THEN CameraCenteredOrigin(camera, size)
                 ELSE AdvancePastOccupied(wins, BesideOrigin(wins[o].rect, size, d), size, d)
  BY DEF PlacementOrigin, Basis, DirectionOf

LEMMA BasisTiled ==
  ASSUME NEW request, VisibleTiled(windows, camera) # {}
  PROVE  Basis(windows, request) # {} /\ Basis(windows, request) \subseteq TiledIds(windows)
  BY DEF Basis, PlacementAnchor, VisibleTiled

LEMMA FloatingSteersNot ==
  ASSUME TypeOK, Bounded PROVE FloatingNeverSteersPlacement
  <1> SUFFICES ASSUME NEW request \in Requests \cup {None}, NEW size
               PROVE  PlacementOrigin(windows, camera, focus, request, size) =
                      PlacementOrigin(Tiled, camera, focus, request, size)
    BY DEF FloatingNeverSteersPlacement, Tiled
  <1> DEFINE d == DirectionOf(request)
             basis == Basis(windows, request)
             o == Outermost(windows, basis, d)
  <1>1. VisibleTiled(Tiled, camera) = VisibleTiled(windows, camera) /\ Basis(Tiled, request) = basis
    BY SameGrid DEF Basis
  <1>2. d \in Direction
    BY DEF DirectionOf, Requests, Direction
  <1>3. CASE VisibleTiled(windows, camera) = {}
    BY <1>1, <1>3, PlacementStarts
  <1>4. CASE VisibleTiled(windows, camera) # {}
    <2>1. basis # {} /\ basis \subseteq TiledIds(windows) /\ basis \subseteq Ids
      BY <1>4, BasisTiled DEF TiledIds, Ids
    <2>2. o \in basis
      <3> HIDE DEF basis, d
      <3> QED  BY <1>2, <2>1, OutermostReaches
    <2>3. Outermost(Tiled, basis, d) = o
      BY <2>1, SameFurthest
    <2>4. Tiled[o].rect = windows[o].rect
      BY <2>1, <2>2, SameGrid
    <2> DEFINE start == BesideOrigin(windows[o].rect, size, d)
    <2>5. PlacementOrigin(windows, camera, focus, request, size)
            = AdvancePastOccupied(windows, start, size, d)
      BY <1>4, PlacementStarts
    <2>6. PlacementOrigin(Tiled, camera, focus, request, size)
            = AdvancePastOccupied(Tiled, start, size, d)
      <3>1. PlacementOrigin(Tiled, camera, focus, request, size)
              = AdvancePastOccupied(Tiled, BesideOrigin(Tiled[Outermost(Tiled, Basis(Tiled, request), d)].rect,
                                                        size, d), size, d)
        BY <1>1, <1>4, PlacementStarts
      <3> HIDE DEF basis, d, o
      <3> QED  BY <1>1, <2>3, <2>4, <3>1 DEF o
    <2> HIDE DEF start
    <2> QED  BY <2>5, <2>6, SameAdvance
  <1> QED  BY <1>3, <1>4

\* Floating windows steer the placement of a tiled window neither as what the camera
\* sees, nor as its anchor, nor as an obstacle (place_window).
THEOREM FloatingNeverSteers == Spec => []FloatingNeverSteersPlacement
  BY BoundedAlways, FloatingSteersNot, PTL

-----------------------------------------------------------------------------
(* Placement takes the nearest free origin *)

\* How far the near side of a window of this size at p lies in a direction.
Near(p, size, d) ==
  CASE d = "Left"  -> - (p.x + Cell * size.w)
    [] d = "Right" -> p.x
    [] d = "Up"    -> - (p.y + Cell * size.h)
    [] d = "Down"  -> p.y

\* So many cells along, coordinate by coordinate.
LEMMA AlongAt ==
  ASSUME NEW p \in Point, NEW d \in Direction, NEW j \in Int
  PROVE  Along(p, d, j) =
           [x |-> IF d = "Left" THEN p.x - 2 * j ELSE IF d = "Right" THEN p.x + 2 * j ELSE p.x,
            y |-> IF d = "Up" THEN p.y - 2 * j ELSE IF d = "Down" THEN p.y + 2 * j ELSE p.y]
  <1>1. p = [x |-> p.x, y |-> p.y]
    BY DEF Point
  <1> QED  BY <1>1 DEF Along, Cell, Direction

LEMMA AlongPoint ==
  ASSUME NEW p \in Point, NEW size \in Size, NEW d \in Direction, NEW j \in Int
  PROVE  /\ Along(p, d, j) \in Point
         /\ Near(p, size, d) \in Int
         /\ Near(Along(p, d, j), size, d) = Near(p, size, d) + 2 * j
  <1>1. p.x \in Int /\ p.y \in Int /\ size.w \in Int /\ size.h \in Int
    BY DEF Point, Size
  <1>2. Along(p, d, j) \in Point
    BY <1>1, AlongAt DEF Point
  <1>3. Near(p, size, d) \in Int
    BY <1>1 DEF Near, Cell, Direction
  <1>4. Near(Along(p, d, j), size, d) = Near(p, size, d) + 2 * j
    <2> DEFINE q == Along(p, d, j)
    <2>1. /\ q.x = IF d = "Left" THEN p.x - 2 * j ELSE IF d = "Right" THEN p.x + 2 * j ELSE p.x
          /\ q.y = IF d = "Up" THEN p.y - 2 * j ELSE IF d = "Down" THEN p.y + 2 * j ELSE p.y
      BY AlongAt
    <2> HIDE DEF q
    <2>2. Near(q, size, d) = Near(p, size, d) + 2 * j
      BY <1>1, <2>1 DEF Near, Cell, Direction
    <2> QED  BY <2>2 DEF q
  <1> QED  BY <1>2, <1>3, <1>4

LEMMA AlongTwice ==
  ASSUME NEW p \in Point, NEW d \in Direction, NEW j \in Int, NEW k \in Int
  PROVE  Along(Along(p, d, j), d, k) = Along(p, d, j + k) /\ Along(p, d, 0) = p
  <1>1. p.x \in Int /\ p.y \in Int /\ p = [x |-> p.x, y |-> p.y]
    BY DEF Point
  <1>2. Along(p, d, 0) = p
    BY <1>1, AlongAt
  <1>3. Along(p, d, j) \in Point
    BY <1>1, AlongAt DEF Point
  <1> DEFINE q == Along(p, d, j)
  <1>4. /\ q.x = IF d = "Left" THEN p.x - 2 * j ELSE IF d = "Right" THEN p.x + 2 * j ELSE p.x
        /\ q.y = IF d = "Up" THEN p.y - 2 * j ELSE IF d = "Down" THEN p.y + 2 * j ELSE p.y
    BY AlongAt
  <1> HIDE DEF q
  <1>5. Along(q, d, k) = Along(p, d, j + k)
    <2>1. j + k \in Int /\ q \in Point
      BY <1>3 DEF q
    <2> QED  BY <1>1, <1>4, <2>1, AlongAt
  <1> QED  BY <1>2, <1>5 DEF q

\* What is in the way reaches beyond the near side, and stays in the way until
\* the near side has got past it.
LEMMA InTheWay ==
  ASSUME NEW p \in Point, NEW size \in Size, NEW d \in Direction, NEW r \in Rect,
         Overlaps(r, RectAt(p, size))
  PROVE  /\ Far(r, d) \in Int /\ Near(p, size, d) < Far(r, d)
         /\ \A k \in Nat : Near(p, size, d) + 2 * k < Far(r, d)
                             => Overlaps(r, RectAt(Along(p, d, k), size))
  <1>1. /\ p.x \in Int /\ p.y \in Int /\ size.w \in Nat \ {0} /\ size.h \in Nat \ {0}
        /\ r.x \in Int /\ r.y \in Int /\ r.w \in Nat \ {0} /\ r.h \in Nat \ {0}
    BY DEF Point, Size, Rect
  <1>2. /\ r.x < p.x + 2 * size.w /\ p.x < r.x + 2 * r.w
        /\ r.y < p.y + 2 * size.h /\ p.y < r.y + 2 * r.h
    BY DEF Overlaps, SpansMeetX, SpansMeetY, Right, Bottom, RectAt, Cell
  <1>3. Far(r, d) \in Int /\ Near(p, size, d) < Far(r, d)
    BY <1>1, <1>2 DEF Far, Near, Right, Bottom, Cell, Direction
  <1>4. ASSUME NEW k \in Nat, Near(p, size, d) + 2 * k < Far(r, d)
        PROVE  Overlaps(r, RectAt(Along(p, d, k), size))
    <2> DEFINE q == Along(p, d, k)
    <2>1. /\ r.x < q.x + 2 * size.w /\ q.x < r.x + 2 * r.w
          /\ r.y < q.y + 2 * size.h /\ q.y < r.y + 2 * r.h
      <3>1. CASE d = "Left"
        BY <1>1, <1>2, <1>4, <3>1 DEF Near, Far, Along, Cell, Point, Right, Bottom
      <3>2. CASE d = "Right"
        BY <1>1, <1>2, <1>4, <3>2 DEF Near, Far, Along, Cell, Point, Right, Bottom
      <3>3. CASE d = "Up"
        BY <1>1, <1>2, <1>4, <3>3 DEF Near, Far, Along, Cell, Point, Right, Bottom
      <3>4. CASE d = "Down"
        BY <1>1, <1>2, <1>4, <3>4 DEF Near, Far, Along, Cell, Point, Right, Bottom
      <3> QED  BY <3>1, <3>2, <3>3, <3>4 DEF Direction
    <2> HIDE DEF q
    <2>2. Overlaps(r, RectAt(q, size))
      BY <2>1 DEF Overlaps, SpansMeetX, SpansMeetY, Right, Bottom, RectAt, Cell
    <2> QED  BY <2>2 DEF q
  <1> QED  BY <1>3, <1>4

\* Rounding up to a grid line adds less than a cell.
LEMMA CeilingIsNext ==
  ASSUME NEW v \in Int
  PROVE  /\ CeilCell(v) \in Int /\ CeilCell(v) % 2 = 0
         /\ v <= CeilCell(v) /\ CeilCell(v) < v + 2
         /\ FloorCell(- v) = - CeilCell(v)
  BY DEF CeilCell, FloorCell, Cell

\* An origin beyond an edge: its near side lies on the next grid line, and
\* nothing else of it has changed.
LEMMA BeyondEdge ==
  ASSUME NEW p \in Point, NEW size \in Size, NEW d \in Direction, NEW r \in Rect
  PROVE  LET q == Beyond(p, Edge(r, d), size, d)
         IN  /\ q \in Point /\ Near(q, size, d) = CeilCell(Far(r, d))
             /\ IF Horizontal(d) THEN q.y = p.y ELSE q.x = p.x
  <1>1. /\ p.x \in Int /\ p.y \in Int /\ size.w \in Nat /\ size.h \in Nat
        /\ r.x \in Int /\ r.y \in Int /\ r.w \in Nat /\ r.h \in Nat
    BY DEF Point, Size, Rect
  <1> DEFINE q == Beyond(p, Edge(r, d), size, d)
  <1>2. CASE d = "Left"
    <2>1. FloorCell(r.x) \in Int /\ CeilCell(Far(r, d)) = - FloorCell(r.x)
      BY <1>1, <1>2, RoundingType DEF Far, CeilCell
    <2>2. q = [p EXCEPT !.x = FloorCell(r.x) - 2 * size.w]
      BY <1>2 DEF Beyond, Edge, Cell
    <2> QED  BY <1>1, <1>2, <2>1, <2>2 DEF Point, Near, Horizontal, Cell
  <1>3. CASE d = "Right"
    <2>1. Far(r, d) = Right(r) /\ Right(r) \in Int /\ CeilCell(Right(r)) \in Int
      BY <1>1, <1>3, RoundingType DEF Far, Right, Cell
    <2>2. q = [p EXCEPT !.x = CeilCell(Right(r))]
      BY <1>3 DEF Beyond, Edge
    <2> QED  BY <1>1, <1>3, <2>1, <2>2 DEF Point, Near, Horizontal
  <1>4. CASE d = "Up"
    <2>1. FloorCell(r.y) \in Int /\ CeilCell(Far(r, d)) = - FloorCell(r.y)
      BY <1>1, <1>4, RoundingType DEF Far, CeilCell
    <2>2. q = [p EXCEPT !.y = FloorCell(r.y) - 2 * size.h]
      BY <1>4 DEF Beyond, Edge, Cell
    <2> QED  BY <1>1, <1>4, <2>1, <2>2 DEF Point, Near, Horizontal, Cell
  <1>5. CASE d = "Down"
    <2>1. Far(r, d) = Bottom(r) /\ Bottom(r) \in Int /\ CeilCell(Bottom(r)) \in Int
      BY <1>1, <1>5, RoundingType DEF Far, Bottom, Cell
    <2>2. q = [p EXCEPT !.y = CeilCell(Bottom(r))]
      BY <1>5 DEF Beyond, Edge
    <2> QED  BY <1>1, <1>5, <2>1, <2>2 DEF Point, Near, Horizontal
  <1> QED  BY <1>2, <1>3, <1>4, <1>5 DEF Direction

\* A point whose near side is on the line and whose other coordinate is kept is
\* so many cells along.
LEMMA SameLine ==
  ASSUME NEW p \in Point, NEW q \in Point, NEW size \in Size, NEW d \in Direction, NEW k \in Int,
         Near(q, size, d) = Near(p, size, d) + 2 * k,
         IF Horizontal(d) THEN q.y = p.y ELSE q.x = p.x
  PROVE  q = Along(p, d, k)
  <1>1. /\ p.x \in Int /\ p.y \in Int /\ size.w \in Int /\ size.h \in Int
        /\ q.x \in Int /\ q.y \in Int
        /\ p = [x |-> p.x, y |-> p.y] /\ q = [x |-> q.x, y |-> q.y]
    BY DEF Point, Size
  <1>2. CASE d = "Left"
    BY <1>1, <1>2 DEF Near, Along, Cell, Horizontal
  <1>3. CASE d = "Right"
    BY <1>1, <1>3 DEF Near, Along, Cell, Horizontal
  <1>4. CASE d = "Up"
    BY <1>1, <1>4 DEF Near, Along, Cell, Horizontal
  <1>5. CASE d = "Down"
    BY <1>1, <1>5 DEF Near, Along, Cell, Horizontal
  <1> QED  BY <1>2, <1>3, <1>4, <1>5 DEF Direction

\* A hop beyond what is in the way goes a whole number of cells, and no further
\* than it must.
LEMMA HopLength ==
  ASSUME NEW p \in Point, NEW size \in Size, NEW d \in Direction, NEW r \in Rect,
         Near(p, size, d) % 2 = 0, Near(p, size, d) < Far(r, d)
  PROVE  \E k \in Nat \ {0} :
           /\ Beyond(p, Edge(r, d), size, d) = Along(p, d, k)
           /\ Far(r, d) <= Near(p, size, d) + 2 * k
           /\ Near(p, size, d) + 2 * k < Far(r, d) + 2
  <1> DEFINE near == Near(p, size, d)
             far == Far(r, d)
             q == Beyond(p, Edge(r, d), size, d)
  <1>1. near \in Int /\ far \in Int
    <2>1. far \in Int
      BY DEF Rect, Far, Right, Bottom, Cell, Direction
    <2> QED  BY <2>1, AlongPoint
  <1>2. /\ q \in Point /\ Near(q, size, d) = CeilCell(far)
        /\ IF Horizontal(d) THEN q.y = p.y ELSE q.x = p.x
    BY BeyondEdge
  <1>3. \E k \in Nat \ {0} : CeilCell(far) = near + 2 * k
    <2> HIDE DEF near, far
    <2>1. near % 2 = 0 /\ near < far
      BY DEF near, far
    <2>2. CeilCell(far) \in Int /\ CeilCell(far) % 2 = 0 /\ near < CeilCell(far)
      BY <1>1, <2>1, CeilingIsNext
    <2>3. \A a, b \in Int : a % 2 = 0 /\ b % 2 = 0 /\ a < b =>
            (b - a) \div 2 \in Nat \ {0} /\ b = a + 2 * ((b - a) \div 2)
      OBVIOUS
    <2> QED  BY <1>1, <2>1, <2>2, <2>3
  <1>4. PICK k \in Nat \ {0} : CeilCell(far) = near + 2 * k
    BY <1>3
  <1>5. q = Along(p, d, k)
    <2> HIDE DEF q
    <2> QED  BY <1>2, <1>4, SameLine
  <1>6. far <= near + 2 * k /\ near + 2 * k < far + 2
    BY <1>1, <1>4, CeilingIsNext
  <1> QED  BY <1>4, <1>5, <1>6

InWay(p, size) == Blockers(windows, RectAt(p, size))

\* The windows a new one at p has not passed yet.
StillAhead(p, size, d) == {o \in TiledIds(windows) : Near(p, size, d) < Far(windows[o].rect, d)}

LEMMA RectsBounded ==
  ASSUME TypeOK, Bounded
  PROVE  /\ TiledIds(windows) \subseteq Ids
         /\ \A o \in TiledIds(windows) : windows[o].rect \in Rect /\ InWorld(windows[o].rect)
  BY DEF TypeOK, Bounded, Window, TiledIds, Ids

LEMMA InWayAhead ==
  ASSUME TypeOK, Bounded, NEW p \in Point, NEW size \in Size, NEW d \in Direction
  PROVE  InWay(p, size) \subseteq StillAhead(p, size, d)
  <1> SUFFICES ASSUME NEW o \in InWay(p, size) PROVE o \in StillAhead(p, size, d)
    OBVIOUS
  <1>1. o \in TiledIds(windows) /\ Overlaps(windows[o].rect, RectAt(p, size))
    BY DEF InWay, Blockers
  <1> QED  BY <1>1, RectsBounded, InTheWay DEF StillAhead

\* One hop goes to the first origin that whatever is in the way now does not
\* block, all origins on the way there are blocked, and a window is passed.
LEMMA HopAdvances ==
  ASSUME TypeOK, Bounded, NEW p \in Point, NEW size \in Size, NEW d \in Direction,
         Near(p, size, d) % 2 = 0, InWay(p, size) # {}
  PROVE  \E k \in Nat \ {0} :
           /\ Hop(windows, p, size, d) = Along(p, d, k)
           /\ \A j \in 0 .. k - 1 : InWay(Along(p, d, j), size) # {}
           /\ \E h \in StillAhead(p, size, d) :
                StillAhead(Along(p, d, k), size, d) \subseteq StillAhead(p, size, d) \ {h}
  <1>1. InWay(p, size) \subseteq TiledIds(windows) /\ InWay(p, size) \subseteq Ids
    BY RectsBounded DEF InWay, Blockers
  <1>2. PICK h \in InWay(p, size) :
               Edge(windows[h].rect, d) = Furthest(windows, InWay(p, size), d)
    BY <1>1, FurthestReached
  <1> DEFINE r == windows[h].rect
             near == Near(p, size, d)
  <1>3. r \in Rect /\ Overlaps(r, RectAt(p, size)) /\ h \in TiledIds(windows)
    BY <1>1, RectsBounded DEF InWay, Blockers
  <1>4. /\ Far(r, d) \in Int /\ near < Far(r, d) /\ near \in Int
        /\ \A k \in Nat : near + 2 * k < Far(r, d) => Overlaps(r, RectAt(Along(p, d, k), size))
    <2>1. near \in Int
      BY AlongPoint
    <2> HIDE DEF r
    <2> QED  BY <1>3, <2>1, InTheWay
  <1>5. PICK k \in Nat \ {0} : /\ Beyond(p, Edge(r, d), size, d) = Along(p, d, k)
                               /\ Far(r, d) <= near + 2 * k /\ near + 2 * k < Far(r, d) + 2
    <2> HIDE DEF r
    <2> QED  BY <1>3, <1>4, HopLength
  <1>6. Hop(windows, p, size, d) = Along(p, d, k)
    BY <1>2, <1>5 DEF Hop, InWay
  <1>7. ASSUME NEW j \in 0 .. k - 1 PROVE InWay(Along(p, d, j), size) # {}
    <2> HIDE DEF near, r
    <2>1. j \in Nat /\ near + 2 * j < Far(r, d)
      BY <1>4, <1>5
    <2>2. Overlaps(r, RectAt(Along(p, d, j), size))
      BY <1>4, <2>1
    <2> QED  BY <1>3, <2>2 DEF InWay, Blockers, r
  <1>8. h \in StillAhead(p, size, d)
    BY <1>3, <1>4 DEF StillAhead
  <1>9. StillAhead(Along(p, d, k), size, d) \subseteq StillAhead(p, size, d) \ {h}
    <2> SUFFICES ASSUME NEW o \in StillAhead(Along(p, d, k), size, d)
                 PROVE  o \in StillAhead(p, size, d) /\ o # h
      OBVIOUS
    <2>1. Near(Along(p, d, k), size, d) = near + 2 * k
      BY AlongPoint
    <2>2. o \in TiledIds(windows) /\ near + 2 * k < Far(windows[o].rect, d)
      BY <2>1 DEF StillAhead
    <2>3. Far(windows[o].rect, d) \in Int
      BY <2>2, RectsBounded, FarBounded
    <2> HIDE DEF near
    <2>4. near < Far(windows[o].rect, d)
      BY <1>4, <2>2, <2>3
    <2>5. o # h
      BY <1>4, <1>5, <2>2
    <2> QED  BY <2>2, <2>4, <2>5 DEF StillAhead, near
  <1> QED  BY <1>6, <1>7, <1>8, <1>9

\* p is so far along that everything before it is blocked.
Reached(p, start, size, d) ==
  \E c \in Nat : /\ p = Along(start, d, c)
                 /\ \A m \in 0 .. c - 1 : InWay(Along(start, d, m), size) # {}

LEMMA HopReaches ==
  ASSUME TypeOK, Bounded, NEW start \in Point, NEW size \in Size, NEW d \in Direction,
         Near(start, size, d) % 2 = 0, NEW p, Reached(p, start, size, d), InWay(p, size) # {}
  PROVE  /\ p \in Point /\ Reached(Hop(windows, p, size, d), start, size, d)
         /\ \E h \in StillAhead(p, size, d) :
              StillAhead(Hop(windows, p, size, d), size, d) \subseteq StillAhead(p, size, d) \ {h}
  <1>1. PICK c \in Nat : /\ p = Along(start, d, c)
                         /\ \A m \in 0 .. c - 1 : InWay(Along(start, d, m), size) # {}
    BY DEF Reached
  <1>2. p \in Point /\ Near(p, size, d) % 2 = 0
    <2>1. p \in Point /\ Near(p, size, d) = Near(start, size, d) + 2 * c /\ Near(start, size, d) \in Int
      BY <1>1, AlongPoint
    <2>2. \A v \in Int : v % 2 = 0 => (v + 2 * c) % 2 = 0
      OBVIOUS
    <2> QED  BY <2>1, <2>2
  <1>3. PICK k \in Nat \ {0} :
           /\ Hop(windows, p, size, d) = Along(p, d, k)
           /\ \A j \in 0 .. k - 1 : InWay(Along(p, d, j), size) # {}
           /\ \E h \in StillAhead(p, size, d) :
                StillAhead(Along(p, d, k), size, d) \subseteq StillAhead(p, size, d) \ {h}
    BY <1>2, HopAdvances
  <1>4. Along(p, d, k) = Along(start, d, c + k)
    BY <1>1, AlongTwice
  <1>5. ASSUME NEW m \in 0 .. (c + k) - 1 PROVE InWay(Along(start, d, m), size) # {}
    <2>1. CASE m \in 0 .. c - 1
      BY <1>1, <2>1
    <2>2. CASE m \notin 0 .. c - 1
      <3>1. m - c \in 0 .. k - 1 /\ c + (m - c) = m /\ m - c \in Int
        BY <2>2
      <3>2. Along(p, d, m - c) = Along(start, d, m)
        BY <1>1, <3>1, AlongTwice
      <3> QED  BY <1>3, <3>1, <3>2
    <2> QED  BY <2>1, <2>2
  <1>6. Reached(Hop(windows, p, size, d), start, size, d)
    <2>1. c + k \in Nat
      OBVIOUS
    <2> QED  BY <1>3, <1>4, <1>5, <2>1 DEF Reached
  <1> QED  BY <1>2, <1>3, <1>6

LEMMA SearchExists ==
  ASSUME NEW wins, NEW start, NEW size, NEW d, NEW n \in Nat
  PROVE  \E f : Search(f, wins, start, size, d, n)
  <1> DEFINE bad == {k \in Nat : ~ \E f : Search(f, wins, start, size, d, k)}
  <1>1. SUFFICES ASSUME bad # {} PROVE FALSE
    OBVIOUS
  <1>2. PICK k \in bad : \A j \in bad : k <= j
    <2>1. bad \subseteq Nat
      OBVIOUS
    <2> HIDE DEF bad
    <2> QED  BY <1>1, <2>1, LeastNumber
  <1>3. k \in Nat /\ ~ \E f : Search(f, wins, start, size, d, k)
    BY <1>2
  <1>4. k # 0
    <2>1. Search([j \in 0 .. 0 |-> start], wins, start, size, d, 0)
      BY DEF Search
    <2> QED  BY <1>3, <2>1
  <1>5. k - 1 \in Nat /\ k - 1 \notin bad
    BY <1>2, <1>3, <1>4
  <1>6. PICK f : Search(f, wins, start, size, d, k - 1)
    BY <1>5
  <1> DEFINE g == [j \in 0 .. k |-> IF j = k THEN Hop(wins, f[k - 1], size, d) ELSE f[j]]
  <1>7. ASSUME NEW j \in 0 .. k
        PROVE  g[j] = IF j = 0 THEN start ELSE Hop(wins, g[j - 1], size, d)
    <2>1. CASE j = k
      <3>1. g[j] = Hop(wins, f[k - 1], size, d) /\ g[k - 1] = f[k - 1]
        BY <1>3, <1>4, <2>1
      <3> QED  BY <1>4, <2>1, <3>1
    <2>2. CASE j # k
      <3>1. j \in 0 .. k - 1 /\ g[j] = f[j] /\ (j # 0 => g[j - 1] = f[j - 1])
        BY <1>3, <1>4, <2>2
      <3>2. f[j] = IF j = 0 THEN start ELSE Hop(wins, f[j - 1], size, d)
        BY <1>6, <3>1 DEF Search
      <3> QED  BY <3>1, <3>2
    <2> QED  BY <2>1, <2>2
  <1>8. Search(g, wins, start, size, d, k)
    <2>1. g = [j \in 0 .. k |-> g[j]]
      OBVIOUS
    <2> HIDE DEF g
    <2> QED  BY <1>7, <2>1 DEF Search
  <1> QED  BY <1>3, <1>8

\* Every round of the search stands at an origin before which all are blocked,
\* and either it is free or the round has passed one more window.
LEMMA SearchPasses ==
  ASSUME TypeOK, Bounded, NEW start \in Point, NEW size \in Size, NEW d \in Direction,
         Near(start, size, d) % 2 = 0, IsFiniteSet(TiledIds(windows)),
         NEW n \in Nat, NEW f, Search(f, windows, start, size, d, n), NEW k \in 0 .. n
  PROVE  /\ Reached(f[k], start, size, d)
         /\ \/ InWay(f[k], size) = {}
            \/ Cardinality(StillAhead(f[k], size, d)) + k <= Cardinality(TiledIds(windows))
  <1> DEFINE all == TiledIds(windows)
             Good(j) == /\ Reached(f[j], start, size, d)
                        /\ \/ InWay(f[j], size) = {}
                           \/ Cardinality(StillAhead(f[j], size, d)) + j <= Cardinality(all)
             bad == {j \in 0 .. n : ~ Good(j)}
  <1>0. \A p : /\ StillAhead(p, size, d) \in SUBSET all /\ IsFiniteSet(StillAhead(p, size, d))
               /\ Cardinality(StillAhead(p, size, d)) \in Nat
               /\ Cardinality(StillAhead(p, size, d)) <= Cardinality(all)
    <2> SUFFICES ASSUME NEW p
                 PROVE  /\ StillAhead(p, size, d) \in SUBSET all /\ IsFiniteSet(StillAhead(p, size, d))
                        /\ Cardinality(StillAhead(p, size, d)) \in Nat
                        /\ Cardinality(StillAhead(p, size, d)) <= Cardinality(all)
      OBVIOUS
    <2>1. StillAhead(p, size, d) \in SUBSET all
      BY DEF StillAhead
    <2>2. IsFiniteSet(StillAhead(p, size, d)) /\ Cardinality(StillAhead(p, size, d)) <= Cardinality(all)
      BY <2>1, FS_Subset
    <2> QED  BY <2>1, <2>2, FS_CardinalityType
  <1>1. SUFFICES ASSUME bad # {} PROVE FALSE
    OBVIOUS
  <1>2. PICK j \in bad : \A i \in bad : j <= i
    <2>1. bad \subseteq Nat
      OBVIOUS
    <2> HIDE DEF bad
    <2> QED  BY <1>1, <2>1, LeastNumber
  <1>3. j \in 0 .. n /\ ~ Good(j)
    BY <1>2
  <1>4. f[j] = IF j = 0 THEN start ELSE Hop(windows, f[j - 1], size, d)
    BY <1>3 DEF Search
  <1>5. CASE j = 0
    <2>1. f[j] = start /\ start = Along(start, d, 0)
      BY <1>4, <1>5, AlongTwice
    <2>2. Reached(f[j], start, size, d)
      <3>1. 0 \in Nat /\ 0 .. 0 - 1 = {}
        OBVIOUS
      <3> QED  BY <2>1, <3>1 DEF Reached
    <2>3. Cardinality(StillAhead(f[j], size, d)) + j <= Cardinality(all)
      BY <1>0, <1>5
    <2> QED  BY <1>3, <2>2, <2>3
  <1>6. CASE j # 0
    <2> DEFINE p == f[j - 1]
    <2>1. j - 1 \in 0 .. n /\ Good(j - 1)
      <3>1. j - 1 \in 0 .. n /\ j - 1 \notin bad
        BY <1>2, <1>3, <1>6
      <3> QED  BY <3>1
    <2>2. f[j] = Hop(windows, p, size, d) /\ Reached(p, start, size, d)
      BY <1>4, <1>6, <2>1
    <2>3. CASE InWay(p, size) = {}
      <3>1. f[j] = p
        BY <2>2, <2>3 DEF Hop, InWay
      <3> QED  BY <1>3, <2>2, <2>3, <3>1
    <2>4. CASE InWay(p, size) # {}
      <3>1. /\ Reached(f[j], start, size, d)
            /\ \E h \in StillAhead(p, size, d) : StillAhead(f[j], size, d) \subseteq StillAhead(p, size, d) \ {h}
        <4> HIDE DEF p
        <4> QED  BY <2>2, <2>4, HopReaches
      <3>2. PICK h \in StillAhead(p, size, d) :
                   StillAhead(f[j], size, d) \subseteq StillAhead(p, size, d) \ {h}
        BY <3>1
      <3> DEFINE old == StillAhead(p, size, d)
                 new == StillAhead(f[j], size, d)
      <3>3. Cardinality(new) <= Cardinality(old) - 1
        <4>1. IsFiniteSet(old) /\ h \in old /\ new \in SUBSET (old \ {h})
          BY <1>0, <3>2
        <4> HIDE DEF old, new
        <4>2. IsFiniteSet(old \ {h}) /\ Cardinality(old \ {h}) = Cardinality(old) - 1
          BY <4>1, FS_RemoveElement
        <4>3. Cardinality(new) <= Cardinality(old \ {h})
          BY <4>1, <4>2, FS_Subset
        <4> QED  BY <4>2, <4>3
      <3>4. Cardinality(old) + (j - 1) <= Cardinality(all)
        BY <2>1, <2>4
      <3>5. Cardinality(new) \in Nat /\ Cardinality(old) \in Nat /\ Cardinality(all) \in Nat
        BY <1>0, FS_CardinalityType
      <3> HIDE DEF old, new, all
      <3>6. Cardinality(new) + j <= Cardinality(all)
        <4>1. j \in Nat
          BY <1>3
        <4> QED  BY <3>3, <3>4, <3>5, <4>1
      <3> QED  BY <1>3, <3>1, <3>6 DEF new, all
    <2> QED  BY <2>3, <2>4
  <1> QED  BY <1>5, <1>6

\* The search ends at the first free origin.
LEMMA AdvanceIsNearest ==
  ASSUME TypeOK, Bounded, NEW start \in Point, NEW size \in Size, NEW d \in Direction,
         Near(start, size, d) % 2 = 0
  PROVE  LET p == AdvancePastOccupied(windows, start, size, d)
         IN  Reached(p, start, size, d) /\ InWay(p, size) = {}
  <1> DEFINE n == Cardinality(TiledIds(windows))
             f == CHOOSE g : Search(g, windows, start, size, d, n)
             p == AdvancePastOccupied(windows, start, size, d)
  <1>1. IsFiniteSet(TiledIds(windows)) /\ n \in Nat
    <2>1. next_window_id - 1 \in Int
      BY WorldAssumption DEF TypeOK
    <2>2. IsFiniteSet(1 .. next_window_id - 1)
      BY <2>1, FS_Interval
    <2>3. TiledIds(windows) \in SUBSET (1 .. next_window_id - 1)
      BY DEF TypeOK, TiledIds, Ids
    <2> QED  BY <2>2, <2>3, FS_Subset, FS_CardinalityType
  <1>2. Search(f, windows, start, size, d, n) /\ p = f[n]
    <2>1. p = f[n]
      BY AdvanceIsSearch
    <2>2. \E g : Search(g, windows, start, size, d, n)
      <3> HIDE DEF n
      <3> QED  BY <1>1, SearchExists
    <2> HIDE DEF n
    <2>3. Search(f, windows, start, size, d, n)
      BY <2>2
    <2> QED  BY <2>1, <2>3
  <1> HIDE DEF f, p
  <1>3. /\ Reached(p, start, size, d)
        /\ InWay(p, size) = {} \/ Cardinality(StillAhead(p, size, d)) + n <= n
    <2>1. n \in 0 .. n
      BY <1>1
    <2>2. /\ Reached(f[n], start, size, d)
          /\ \/ InWay(f[n], size) = {}
             \/ Cardinality(StillAhead(f[n], size, d)) + n <= Cardinality(TiledIds(windows))
      <3> HIDE DEF n
      <3> QED  BY <1>1, <1>2, <2>1, SearchPasses
    <2> QED  BY <1>2, <2>2
  <1>4. ASSUME Cardinality(StillAhead(p, size, d)) + n <= n PROVE InWay(p, size) = {}
    <2>1. StillAhead(p, size, d) \in SUBSET TiledIds(windows)
      BY DEF StillAhead
    <2>2. IsFiniteSet(StillAhead(p, size, d)) /\ Cardinality(StillAhead(p, size, d)) \in Nat
      BY <1>1, <2>1, FS_Subset, FS_CardinalityType
    <2>3. Cardinality(StillAhead(p, size, d)) = 0
      <3> HIDE DEF n
      <3> QED  BY <1>1, <1>4, <2>2
    <2>4. StillAhead(p, size, d) = {}
      BY <2>2, <2>3, FS_EmptySet
    <2>5. p \in Point
      BY <1>3, AlongPoint DEF Reached
    <2> QED  BY <2>4, <2>5, InWayAhead
  <1> QED  BY <1>3, <1>4 DEF p

LEMMA RequestIsNot ==
  ASSUME TypeOK, NEW request \in Requests PROVE request # None
  <1>1. next_window_id \in Nat
    BY WorldAssumption DEF TypeOK
  <1>2. request \in [direction : Direction, anchor : Nat \cup {None}]
    BY <1>1 DEF Requests
  <1> QED  BY <1>2, NoneAssumption

\* A placement starts beside one of the windows it may start from.
LEMMA BasisStarts ==
  ASSUME TypeOK, Bounded, NEW request \in Requests, VisibleTiled(windows, camera) # {}
  PROVE  LET o == Outermost(windows, Basis(windows, request), request.direction)
         IN  o \in Starts(request) /\ o \in TiledIds(windows)
  <1> DEFINE d == request.direction
             visible == VisibleTiled(windows, camera)
             basis == Basis(windows, request)
             o == Outermost(windows, basis, d)
             anchor == PlacementAnchor(windows, camera, focus, request)
  <1>1. d \in Direction /\ (request.anchor = None \/ request.anchor # None)
    BY DEF Requests
  <1>2. request # None
    BY RequestIsNot
  <1>3. anchor = IF request.anchor = None THEN {focus} \cap visible
                 ELSE {request.anchor} \cap TiledIds(windows)
    BY <1>2 DEF PlacementAnchor, VisibleTiled, TiledIds
  <1>4. basis # {} /\ basis \subseteq TiledIds(windows) /\ basis \subseteq Ids
    BY BasisTiled, RectsBounded
  <1>5. o \in basis /\ Edge(windows[o].rect, d) = Furthest(windows, basis, d)
    <2> HIDE DEF basis, d
    <2> QED  BY <1>1, <1>4, OutermostReaches
  <1>6. CASE anchor # {}
    <2>1. basis = anchor
      BY <1>6 DEF Basis
    <2>2. Starts(request) = anchor
      BY <1>3, <1>6 DEF Starts
    <2> QED  BY <1>4, <1>5, <2>1, <2>2
  <1>7. CASE anchor = {}
    <2>1. basis = visible
      BY <1>7 DEF Basis
    <2>2. Starts(request) = {id \in visible : Edge(windows[id].rect, d) = Furthest(windows, visible, d)}
      BY <1>3, <1>7 DEF Starts
    <2> QED  BY <1>4, <1>5, <2>1, <2>2
  <1> QED  BY <1>6, <1>7

LEMMA NearestFound ==
  ASSUME TypeOK, Bounded PROVE PlacementIsNearest
  <1> SUFFICES ASSUME NEW request \in Requests, NEW size \in InitialSizes,
                      VisibleTiled(windows, camera) # {}
               PROVE  LET p == PlacementOrigin(windows, camera, focus, request, size)
                          d == request.direction
                          Free(start, n) == Blockers(windows, RectAt(Along(start, d, n), size)) = {}
                      IN  \E id \in Starts(request), cells \in 0 .. Limit.x + Limit.y :
                            LET start == BesideOrigin(windows[id].rect, size, d)
                            IN  /\ p = Along(start, d, cells)
                                /\ Free(start, cells) /\ \A n \in 0 .. cells - 1 : ~ Free(start, n)
    BY DEF PlacementIsNearest
  <1> DEFINE d == request.direction
             o == Outermost(windows, Basis(windows, request), d)
             r == windows[o].rect
             start == BesideOrigin(r, size, d)
             p == PlacementOrigin(windows, camera, focus, request, size)
  <1>1. d \in Direction /\ size \in Size
    BY WorldAssumption DEF Requests
  <1>2. o \in Starts(request) /\ r \in Rect /\ InWorld(r)
    BY BasisStarts, RectsBounded
  <1>3. p = AdvancePastOccupied(windows, start, size, d)
    <2>1. DirectionOf(request) = d
      BY RequestIsNot DEF DirectionOf
    <2> QED  BY <2>1, PlacementStarts
  <1> HIDE DEF r, d, p
  <1>4. start \in Point /\ Near(start, size, d) = CeilCell(Far(r, d))
    <2>1. [x |-> FloorCell(r.x), y |-> FloorCell(r.y)] \in Point
      BY <1>2, RoundingType DEF Point, Rect
    <2> QED  BY <1>1, <1>2, <2>1, BeyondEdge DEF BesideOrigin
  <1> HIDE DEF start
  <1>5. /\ Near(start, size, d) \in Int /\ Near(start, size, d) % 2 = 0
        /\ Far(r, d) \in Int /\ Far(r, d) <= Near(start, size, d)
        /\ Reach(d) \in Nat /\ 2 - Reach(d) <= Far(r, d)
    <2>1. Far(r, d) \in Int /\ Reach(d) \in Nat /\ 2 - Reach(d) <= Far(r, d)
      BY <1>1, <1>2, FarBounded
    <2> QED  BY <1>4, <2>1, CeilingIsNext
  <1>6. Reached(p, start, size, d) /\ InWay(p, size) = {}
    BY <1>1, <1>3, <1>4, <1>5, AdvanceIsNearest
  <1>7. PICK c \in Nat : /\ p = Along(start, d, c)
                         /\ \A m \in 0 .. c - 1 : InWay(Along(start, d, m), size) # {}
    BY <1>6 DEF Reached
  <1>8. c <= Reach(d)
    <2>1. CASE c = 0
      BY <1>5, <2>1
    <2>2. CASE c # 0
      <3>1. c - 1 \in 0 .. c - 1 /\ c - 1 \in Int
        BY <2>2
      <3>2. PICK b \in InWay(Along(start, d, c - 1), size) : TRUE
        BY <1>7, <3>1
      <3> DEFINE q == Along(start, d, c - 1)
                 s == windows[b].rect
      <3>3. s \in Rect /\ InWorld(s) /\ Overlaps(s, RectAt(q, size))
        BY <3>2, RectsBounded DEF InWay, Blockers
      <3>4. q \in Point /\ Near(q, size, d) = Near(start, size, d) + 2 * (c - 1)
        BY <1>1, <1>4, <3>1, AlongPoint
      <3> HIDE DEF q, s
      <3>5. Far(s, d) \in Int /\ Near(q, size, d) < Far(s, d) /\ Far(s, d) <= Reach(d)
        BY <1>1, <3>3, <3>4, InTheWay, FarBounded
      <3> QED  BY <1>5, <3>4, <3>5
    <2> QED  BY <2>1, <2>2
  <1>9. c \in 0 .. Limit.x + Limit.y
    <2>1. Limit.x \in Nat /\ Limit.y \in Nat
      BY LimitAssumption
    <2> QED  BY <1>8, <2>1 DEF Reach
  <1> QED  BY <1>2, <1>6, <1>7, <1>9 DEF InWay, r, d, p, start

\* A new window goes beside the anchor, on the asked side, to the nearest free
\* origin in that direction: the loop of advance_placement_past_occupied, which
\* hops over several blockers at once, skips no gap that is wide enough and does
\* not stop on an occupied one.
THEOREM NearestIsFound == Spec => []PlacementIsNearest
  BY BoundedAlways, NearestFound, PTL
==============================================================================
