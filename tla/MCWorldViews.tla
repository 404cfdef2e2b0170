---------------------------- MODULE MCWorldViews ----------------------------
\* Two stories of two windows and two Outputs: cameras that wander over the windows,
\* and windows that are maximized and made fullscreen in both views.
EXTENDS WorldProperties, Screen

VARIABLE story

MCLimit     == [x |-> 8, y |-> 2]
MCOrigins   == {[x |-> x, y |-> 0] : x \in {-2, 1, 2}}
MCSizes     == {[w |-> 1, h |-> 1], [w |-> 2, h |-> 1]}
MCViewports == MCSizes
MCPans      == {[x |-> 1, y |-> 0]}

\* A host's window of 15 pixels in two regions (Nested): a cell is 7 or 8 pixels or,
\* zoomed out, half as many wide.
MCRegistered == <<[x |-> 0, y |-> 0, w |-> 7, h |-> 5], [x |-> 7, y |-> 0, w |-> 8, h |-> 5]>>

\* To bound the first story, it stays within a cell around the origin, with windows and
\* viewports of one cell; windows open and close while the active camera is at home and
\* only the first window is made fullscreen.
AtHome == camera.x = 0 /\ camera.y = 0

Near(p) == p.x \in -2..2 /\ p.y \in -2..2 /\ p.w = 1

AllNear ==
  /\ \A id \in Ids : Near(windows[id].rect)
  /\ \A o \in Outputs : Near(CameraForOutput(o))

WanderNext ==
  \/ AtHome /\ LifetimeStep
  \/ AtHome /\ SetNextPlacement("Up")
  \/ 1 \in Ids /\ TogglePresentation(1, "Fullscreen")
  \/ \E id \in Ids : FocusWindow(id)
  \/ \E d \in Direction : FocusDirection(d)
  \/ OutputStep
  \/ CameraMotion

PresentNext ==
  \/ LifetimeStep \/ GeometryStep \/ PresentationStep \/ OutputStep
  \/ \E id \in Ids : ToggleFloating(id)

MCInit ==
  /\ Init
  /\ \/ story = "wander" /\ camera.w = 1
     \/ story = "present" /\ camera.w = 2

MCNext ==
  /\ \/ story = "wander" /\ WanderNext /\ AllNear'
     \/ story = "present" /\ PresentNext
  /\ UNCHANGED story

MCSpec == MCInit /\ [][MCNext]_<<vars, story>>
=============================================================================
