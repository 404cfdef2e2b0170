----------------------------- MODULE MCWorldGrid -----------------------------
\* A field of four by two cells in two stories: three tiled windows, and two that
\* float to half cells and come back to the grid.
EXTENDS WorldProperties

VARIABLE story

MCLimit     == [x |-> 4, y |-> 2]
MCOrigins   == {[x |-> -4, y |-> -2], [x |-> 0, y |-> -2], [x |-> 0, y |-> 0], [x |-> 2, y |-> 0],
                [x |-> 1, y |-> 0], [x |-> -3, y |-> -1]}
MCSizes     == [w : {1, 2}, h : {1, 2}]
MCInitial   == {[w |-> 1, h |-> 1], [w |-> 2, h |-> 1]}
MCViewports == {[w |-> 2, h |-> 1], [w |-> 2, h |-> 2]}

\* To bound the second story, its windows have one cell of height.
Flat == 3 \notin Ids /\ \A id \in Ids : windows[id].rect.h = 1

MCInit ==
  /\ Init
  /\ \/ story = "tiled" /\ camera.h = 2
     \/ story = "floating" /\ camera.h = 1

MCNext ==
  /\ \/ LifetimeStep \/ GeometryStep
     \/ story = "floating" /\ PropertyStep
  /\ story = "floating" => Flat'
  /\ UNCHANGED story

MCSpec == MCInit /\ [][MCNext]_<<vars, story>>
=============================================================================
