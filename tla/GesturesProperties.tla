-------------------------- MODULE GesturesProperties --------------------------
(***************************************************************************)
(* What has to be true of pointer gestures, however buttons, motions,      *)
(* deadlines and the session lock interleave.                              *)
(***************************************************************************)
EXTENDS Gestures

Gesture ==
  [camera : CameraDrag \cup {None}, drag : WindowDrag \cup {None},
   resize : Windows \cup {None}, chord : FloatingChord \cup {None}, edge : BOOLEAN,
   closing : BOOLEAN, chordClick : ChordClick \cup {None}, panClick : PanClick \cup {None},
   releases : SUBSET {MoveHold, MovePress}, focusClick : BOOLEAN]

\* The fields hold what their types allow, and the compositor holds no button that
\* is not down.
GesturesTypeOK ==
  /\ phys \subseteq Buttons /\ held \subseteq phys
  /\ client \in [down : SUBSET Buttons, stray : SUBSET Buttons, grabbed : BOOLEAN]
  /\ pending \in Gesture
  /\ at \in Spots
  /\ world \in [windows : SUBSET Windows, focus : Windows \cup {None}]
  /\ locked \in BOOLEAN /\ robbed \subseteq Buttons

\* While the session is locked no gesture begun before it is left, so that none of
\* its clicks is replayed to the lock surface and none of its actions runs (lock()).
LockedIsIdle == locked => pending = Idle

\* A client is sent the release of a button only if it was sent the press: whoever
\* consumes a press also consumes its release, or sends both.  A button that was
\* down when the session was locked is the exception: lock() forgets who consumed
\* its press, which can be seen from pointer_buttons_held.
ReleaseAfterPress == [][client'.stray \subseteq client.stray \cup (phys \ held)]_vars

\* No client is left with a button that is no longer down, through chords, drags,
\* clicks that are replayed, locks and close gestures.  The exception is a button
\* whose release a close gesture has swallowed although the client, or a gesture
\* begun before, had its press: closing_pointer_chord swallows whatever is
\* released until no button is held (ClosingTakesNothing).
NoButtonSticks == client.down \subseteq phys \cup robbed

\* Whatever swallows the rest of a close gesture ends with the last button, and so
\* the next click is nobody's but its own (closing_pointer_chord).
SwallowingEnds == pending.closing => held # {}

\* A click that may be the first of several is not kept for ever: once the user
\* lets the buttons be, the frame after its deadline replays it or runs its actions
\* (flush_pending_pointer_click), wherever the pointer goes and whatever closes.
ClickAnswered ==
  <>[][phys' = phys]_vars => []<>(pending.panClick = None /\ pending.chordClick = None)

\* The time passes, and there is always another frame.
Fairness == WF_vars(Expire) /\ WF_vars(Flush)

-----------------------------------------------------------------------------
(* What the documents say and the code does not do *)

\* docs/requirements.md:553: the camera follows the pointer from the press of its
\* button to the release, and no longer.  When every button is up, no
\* motion pans it.
PanEndsWithButton == phys = {} => pending.camera = None

\* docs/spec.md:852: the events that a close gesture consumes leave no effect on a
\* client.  A client is given the release of what it was given the press of.
ClosingTakesNothing == client.down \subseteq phys
=============================================================================
