--------------------------- MODULE MotionProperties ---------------------------
(***************************************************************************)
(* What is drawn of a window and told to its client agrees with the World. *)
(***************************************************************************)
EXTENDS Motion

\* Outside a gesture and the lock, what is drawn heads for where the World has the
\* window, and its client knows how it is shown, whichever of the operations
\* changed it last.  It needs a focused window: a lock drops a resize without a
\* sync, and the unlock makes up for that only if it has a window to return to.
LayoutFollowsWorld ==
  desk.there /\ view.output =>
    /\ told.shown = desk.shown
    /\ grip = NoGrip /\ ~ view.locked /\ desk.focus =>
         drawn.rect.target = ScreenSize(desk) /\ drawn.client.target = ClientSize(desk)

Undisturbed(size) ==
  /\ desk.there /\ view.output /\ desk.focus /\ drawn.ready
  /\ grip = NoGrip /\ ~ view.locked /\ ClientSize(desk) = size

\* Once a frame is due, the client is told in the end the size that the World gives
\* it, whatever it was told on the way: frames go on until everything has arrived,
\* also when the rectangle is there before the client is.
SizeSettles ==
  \A size \in Sizes \cup {Area} :
    (due /\ Undisturbed(size)) ~> (told.size = size \/ ~ Undisturbed(size))
=============================================================================
