------------------------------ MODULE MCGestures ------------------------------
\* The shipped bindings (config/mio.kdl), with the edge of one window and the edge
\* of the Output.  Nobody unlocks the session while a button is down.
EXTENDS GesturesProperties, FiniteSets

Inside(id) == [over |-> id, handle |-> None, edge |-> FALSE]

Edge(id) == [over |-> id, handle |-> id, edge |-> FALSE]

Ground == [over |-> None, handle |-> None, edge |-> TRUE]

CONSTANTS
  Resizable,  \* the window whose edge is visited, and that may end
  MaxTaken    \* once close gestures have taken more releases, nothing is pressed

Visited == {Ground} \cup { Inside(id) : id \in Windows } \cup { Edge(id) : id \in Resizable }

MCNext ==
  \/ \E b \in Buttons : (Cardinality(robbed) <= MaxTaken /\ Press(b)) \/ Release(b)
  \/ \E spot \in Visited, far \in BOOLEAN : Move(spot, far, far)
  \/ Wheel \/ Expire \/ Flush \/ Lock
  \/ (phys = {} /\ Unlock)
  \/ \E id \in Resizable : WindowGoes(id)

MCSpec == Init /\ [][MCNext]_vars

FairSpec == MCSpec /\ Fairness
=============================================================================
