-------------------------------- MODULE Screen --------------------------------
(***************************************************************************)
(* From the World to pixels (layout.rs, state.rs): where an Output shows a *)
(* window, and which area an Output has.  Pixels and cells are integers,   *)
(* quotients are rounded as f64::round does; the None of a coordinate      *)
(* beyond 32 bits is left out.                                             *)
(***************************************************************************)
EXTENDS World

CONSTANTS
  Registered,  \* the geometry of every Output of the World (state.outputs, Space)
  Bar,         \* the height that panels keep free at the top (non_exclusive_zone)
  Gap          \* appearance.gaps

ASSUME ScreenAssumption ==
  /\ Bar \in Nat /\ Gap \in Nat
  /\ Registered \in [1..(LastOutputId - 1) -> Rect]
  /\ \A o \in DOMAIN Registered : Registered[o].h > Bar

\* f64::round of n / d: half away from zero.
RoundedQuotient(n, d) ==
  IF n < 0 THEN - ((d - 2 * n) \div (2 * d)) ELSE (2 * n + d) \div (2 * d)

Larger(a, b) == IF a < b THEN b ELSE a

\* MeasureInput::resolve, of a length in units.
Pixels(length, pixels, cells, zoom) == RoundedQuotient(length * pixels, Cell * cells * zoom)

ZoomCenterOffset(pixels, zoom) == RoundedQuotient(pixels * (zoom - 1), 2 * zoom)

\* world_to_screen, world_to_output_area: position and size are rounded each on its own.
WorldToScreen(r, cam, area) ==
  [x |-> area.x + Pixels(r.x - cam.x, area.w, cam.w, cam.zoom) + ZoomCenterOffset(area.w, cam.zoom),
   y |-> area.y + Pixels(r.y - cam.y, area.h, cam.h, cam.zoom) + ZoomCenterOffset(area.h, cam.zoom),
   w |-> Larger(1, Pixels(Cell * r.w, area.w, cam.w, cam.zoom)),
   h |-> Larger(1, Pixels(Cell * r.h, area.h, cam.h, cam.zoom))]

\* Mutant: the gap is taken whatever is left of the window.
WholeInset(length, gap) == gap

\* As much of the gap as leaves a pixel.
Inset(length, gap) == LET most == (length - 1) \div 2 IN IF gap < most THEN gap ELSE most

\* inset_screen_rect.
InsetScreenRect(s, gap) ==
  LET dx == Inset(s.w, gap)
      dy == Inset(s.h, gap)
  IN  [x |-> s.x + dx, y |-> s.y + dy, w |-> s.w - 2 * dx, h |-> s.h - 2 * dy]

\* output_render_area_for: without the panels, unless a window is fullscreen.  The
\* backends map every Output of the World before anything is laid out
\* (set_output_size), so split_output_area has nothing to divide.
OutputRenderArea(o, presentation) ==
  IF presentation = "Fullscreen" THEN Registered[o]
  ELSE [Registered[o] EXCEPT !.y = @ + Bar, !.h = @ - Bar]

\* window_layouts, sync_virtual_render_rects: what the rectangle of a window on an
\* Output moves to.
ScreenRect(id, o) ==
  LET win  == windows[id]
      cam  == CameraForOutput(o)
      area == OutputRenderArea(o, win.presentation)
  IN  IF win.presentation = "Normal"
      THEN InsetScreenRect(WorldToScreen(win.rect, cam, area), RoundedQuotient(Gap, cam.zoom))
      ELSE area

-----------------------------------------------------------------------------
\* How far two spans reach into each other, in pixels.
Common(low1, length1, low2, length2) ==
  LET high(a, b) == IF a < b THEN a ELSE b
  IN  high(low1 + length1, low2 + length2) - Larger(low1, low2)

\* Tiled windows stay apart on every Output: whatever is rounded at any position of
\* its Camera, at any zoom, they reach into each other by one pixel at most, and
\* every window has at least one pixel of each side (inset_screen_rect).
TiledApartOnScreen ==
  \A o \in Outputs : \A a, b \in Ids :
    LET s == ScreenRect(a, o)
        t == ScreenRect(b, o)
    IN  /\ s.w > 0 /\ s.h > 0
        /\ (a # b /\ {windows[a].presentation, windows[b].presentation} = {"Normal"}
              /\ ~ Overlaps(windows[a].rect, windows[b].rect)) =>
             Common(s.x, s.w, t.x, t.w) <= 1 \/ Common(s.y, s.h, t.y, t.h) <= 1
=============================================================================
