------------------------------- MODULE Camera -------------------------------
(***************************************************************************)
(* The Camera that looks at the World (mio-core/src/camera.rs and the      *)
(* camera_* methods of world.rs): a position in units, a viewport in whole *)
(* cells and a zoom.  zoom = z stands for the magnification 1/z, so that   *)
(* the visible extent is z viewports and stays an integer; magnifications  *)
(* above 1 only shrink what CameraFollow calls visible.                    *)
(***************************************************************************)
EXTENDS Geometry

CameraState == [x : Int, y : Int, w : Nat \ {0}, h : Nat \ {0}, zoom : Nat \ {0}]

NewCamera(p, size) == [x |-> p.x, y |-> p.y, w |-> size.w, h |-> size.h, zoom |-> 1]

At(cam, x, y) == [cam EXCEPT !.x = x, !.y = y]

\* Moves cam by (dx, dy) taken along direction d.
Toward(cam, d, dx, dy) ==
  CASE d = "Left"  -> At(cam, cam.x - dx, cam.y)
    [] d = "Right" -> At(cam, cam.x + dx, cam.y)
    [] d = "Up"    -> At(cam, cam.x, cam.y - dy)
    [] d = "Down"  -> At(cam, cam.x, cam.y + dy)

Step(cam, d)  == Toward(cam, d, Cell * cam.w, Cell * cam.h)
Nudge(cam, d) == Toward(cam, d, Cell, Cell)

\* The viewport stop that holds the window's centre.
ToWindow(cam, r) ==
  LET stopX == Cell * cam.w
      stopY == Cell * cam.h
  IN  At(cam, (CenterX(r) \div stopX) * stopX, (CenterY(r) \div stopY) * stopY)

CenterOn(cam, r) == At(cam, CenterX(r) - cam.w, CenterY(r) - cam.h)

\* Mutant: the margins that zooming out adds are forgotten.
RevealUnzoomed(position, extra, visible, low, high) ==
  IF low < position THEN low
  ELSE IF high > position + visible THEN high - visible
  ELSE position

\* The smallest move that brings [low, high) into the span that starts at
\* position - extra and is as long as visible.
Reveal(position, extra, visible, low, high) ==
  IF low < position - extra THEN low + extra
  ELSE IF high > position - extra + visible THEN high - visible + extra
  ELSE position

\* What the zoomed camera sees: as much more on either side as zooming out adds.
ExtraX(cam) == cam.w * (cam.zoom - 1)
ExtraY(cam) == cam.h * (cam.zoom - 1)
Seen(cam)   == [x |-> cam.x - ExtraX(cam), y |-> cam.y - ExtraY(cam),
                w |-> cam.w * cam.zoom, h |-> cam.h * cam.zoom]

Follow(cam, r) ==
  LET seen == Seen(cam)
  IN  IF ~ Overlaps(r, seen) \/ r.w > seen.w \/ r.h > seen.h
      THEN CenterOn(cam, r)
      ELSE At(cam, Reveal(cam.x, ExtraX(cam), Cell * seen.w, r.x, Right(r)),
                   Reveal(cam.y, ExtraY(cam), Cell * seen.h, r.y, Bottom(r)))
=============================================================================
