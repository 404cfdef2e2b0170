------------------------------- MODULE Gestures -------------------------------
(***************************************************************************)
(* The pointer gestures of the compositor (mio-compositor, input.rs): a    *)
(* button event is looked at by every gesture that is under way, then by   *)
(* every gesture it may begin, and what nobody consumes goes to the client *)
(* under the pointer.  Clicks that may be the first of several are kept    *)
(* back until a deadline, which the next frame notices.                    *)
(*                                                                         *)
(* A position is what is under it and how it compares with where a gesture *)
(* began: within the six pixels of a click, or further.                    *)
(***************************************************************************)
EXTENDS Naturals

CONSTANTS
  Windows,                \* the windows of the World
  None,                   \* no window, no gesture, no button
  Left,                   \* the button whose first click only focuses
  PanButton,              \* drags the camera, and clicks (camera-pan)
  MoveHold, MovePress,    \* the chord that moves a window (move-window)
  ResizeButton,           \* drags the edge of a window (resize-window)
  FloatHold, FloatPress,  \* the chord of toggle-floating
  PlaceButton,            \* clicks at the edge of the Output (place-next)
  ZoomButton,             \* is held while the wheel zooms (camera-zoom)
  PanClicks,              \* how many clicks of PanButton act; 0 if none do
  CloseClicks,            \* the clicks of the move chord whose actions close
  OtherClicks,            \* the clicks of the move chord with other actions
  EdgeCommand             \* a short click of PanButton at an edge runs a command

Buttons == {Left, PanButton, MoveHold, MovePress, ResizeButton, FloatHold, FloatPress,
            PlaceButton} \ {None}

ChordClicks == CloseClicks \cup OtherClicks

\* What is remembered of a gesture under way (the Pending structs of state.rs).  A
\* click counts up to six, one more than any gesture asks for.
CameraDrag == [window : Windows \cup {None}, dragging : BOOLEAN]
WindowDrag == [id : Windows, moved : BOOLEAN]
FloatingChord == [id : Windows, held : (SUBSET {FloatHold, FloatPress}) \ {{}}]
ChordClick == [id : Windows, clicks : 1..6, expired : BOOLEAN]
PanClick == [window : Windows \cup {None}, clicks : 1..6, expired : BOOLEAN]

\* validate_mouse: two different buttons make a chord, clicks are 1 to 5, the clicks
\* of one button sequence differ, and click gestures start with the camera's button.
\* Of the model: toggle-floating has a chord of its own, which the camera's button
\* begins, as in the built-in configuration.
ASSUME GesturesAssumption ==
  /\ None \notin Windows /\ Left # None
  /\ MoveHold # MovePress \/ MoveHold = None
  /\ FloatHold # FloatPress \/ FloatHold = None
  /\ PanClicks \in 0..5 /\ ChordClicks \subseteq 1..5 /\ CloseClicks \cap OtherClicks = {}
  /\ ChordClicks # {} => MoveHold = PanButton /\ MoveHold # None
  /\ PanClicks # 0 => PanButton # None
  /\ FloatHold # None => FloatHold = PanButton /\ (MoveHold # None => FloatPress # MovePress)
  /\ EdgeCommand \in BOOLEAN
  /\ None \notin CameraDrag \cup WindowDrag \cup FloatingChord \cup ChordClick \cup PanClick

VARIABLES
  phys,     \* the buttons that are down
  held,     \* pointer_buttons_held
  client,   \* the pointer's client: buttons down, ups it got without a down, the grab
  robbed,   \* history: the buttons whose release a close gesture took from others
  pending,  \* the gestures under way (the pending_, closing_ and suppressed_ fields)
  at,       \* where the pointer is
  world,    \* windows, focus
  locked    \* session_locked

vars == <<phys, held, client, robbed, pending, at, world, locked>>

\* over: the window whose surface is there; handle: the window whose edge can be
\* dragged from there; edge: within reach of the edge of the Output.
Spots == [over : Windows \cup {None}, handle : Windows \cup {None}, edge : BOOLEAN]

Idle ==
  [camera |-> None, drag |-> None, resize |-> None, chord |-> None, edge |-> FALSE,
   closing |-> FALSE, chordClick |-> None, panClick |-> None,
   releases |-> {}, focusClick |-> FALSE]

Init ==
  /\ phys = {} /\ held = {}
  /\ client = [down |-> {}, stray |-> {}, grabbed |-> FALSE] /\ robbed = {}
  /\ pending = Idle
  /\ at = [over |-> None, handle |-> None, edge |-> FALSE]
  /\ world = [windows |-> Windows, focus |-> None]
  /\ locked = FALSE

-----------------------------------------------------------------------------
(* The pointer of smithay: a button that goes down grabs the pointer for the     *)
(* client until the last one is up.                                              *)

SendDown(c, b) ==
  [down |-> c.down \cup {b}, stray |-> c.stray \ {b}, grabbed |-> TRUE]

SendUp(c, b) ==
  [down    |-> c.down \ {b},
   stray   |-> IF b \in c.down THEN c.stray ELSE c.stray \cup {b},
   grabbed |-> c.grabbed /\ c.down \ {b} # {}]

SendClick(c, b) == SendUp(SendDown(c, b), b)

\* What surface_under finds; under the lock, only lock surfaces.  A window that the
\* World has forgotten is found until it has faded out, however long that takes.
Over == IF locked THEN None ELSE at.over

Focused(w, id) == IF id \in w.windows THEN [w EXCEPT !.focus = id] ELSE w

\* remove_toplevel.
Without(w, id) ==
  [windows |-> w.windows \ {id}, focus |-> IF w.focus = id THEN None ELSE w.focus]

-----------------------------------------------------------------------------
(* Steps of a handler.  A step is given and returns what the handler has made of *)
(* the gestures, the client and the World so far.                                *)

Now == [pending |-> pending, client |-> client, world |-> world]

Become(s) == pending' = s.pending /\ client' = s.client /\ world' = s.world

With(s, p) == [s EXCEPT !.pending = p]

\* replay_pending_pointer_click.
ReplayPanClick(s) ==
  IF s.pending.panClick = None THEN s
  ELSE [s EXCEPT !.pending.panClick = None, !.client = SendClick(@, PanButton)]

\* run_window_click_actions; the actions may close the window, or its client will.
RunClickActions(s, id, gone) ==
  [s EXCEPT !.world = IF gone /\ id \in @.windows THEN Without(Focused(@, id), id)
                      ELSE Focused(@, id)]

\* More clicks than any gesture asks for are as good as one more.
OneMore(clicks) ==
  IF clicks <= PanClicks \/ \E n \in ChordClicks : clicks <= n THEN clicks + 1 ELSE clicks

\* complete_pending_window_click.
CompleteChordClick(s, click, heldNow, gone) ==
  IF click.clicks \notin ChordClicks THEN s
  ELSE RunClickActions(
         [s EXCEPT !.pending.closing = IF click.clicks \in CloseClicks THEN heldNow # {} ELSE @],
         click.id, gone /\ click.clicks \in CloseClicks)

\* update_pending_window_click, of a press: another click of the chord, or none.
CountChordClick(p, b) ==
  IF /\ ~ locked /\ ChordClicks # {} /\ b = MovePress /\ MoveHold \in held /\ p.chordClick # None
  THEN IF p.chordClick.id = Over /\ ~ p.chordClick.expired
       THEN [p EXCEPT !.chordClick.clicks = OneMore(@)]
       ELSE [p EXCEPT !.chordClick = None]
  ELSE p

-----------------------------------------------------------------------------
(* A button goes down *)

\* begin_configured_pointer_interaction and begin_camera_drag.  The first gesture
\* that accepts the press consumes it; place_next forgets an earlier press.
DragsEdge(b) ==
  b = ResizeButton /\ MoveHold \notin held \cup {b} /\ at.handle \in world.windows

TogglesFloating(b) == b = FloatPress /\ FloatHold \in held /\ Over # None

MovesWindow(b) == b = MovePress /\ MoveHold \in held /\ Over \in world.windows

Unplaced(p, b) == IF b = PlaceButton THEN [p EXCEPT !.edge = at.edge] ELSE p

Begin(p, b) ==
  IF DragsEdge(b) THEN [p EXCEPT !.resize = at.handle]
  ELSE IF TogglesFloating(b)
  THEN [p EXCEPT !.camera = None,
                 !.chord = [id |-> Over, held |-> {FloatHold, FloatPress}]]
  ELSE IF b = PlaceButton /\ at.edge THEN [p EXCEPT !.edge = TRUE]
  ELSE IF MovesWindow(b)
  THEN [Unplaced(p, b) EXCEPT !.camera = None, !.drag = [id |-> Over, moved |-> FALSE]]
  ELSE [Unplaced(p, b) EXCEPT !.camera = [window |-> Over, dragging |-> FALSE]]

Begins(b) ==
  /\ ~ locked
  /\ DragsEdge(b) \/ TogglesFloating(b) \/ (b = PlaceButton /\ at.edge) \/ MovesWindow(b)
     \/ b = PanButton

\* Mutant: the client gets the first click all the same.
DeliverAnyway(s, b) ==
  LET target  == IF s.client.grabbed THEN None ELSE Over
      focused == [s EXCEPT !.world = Focused(@, target)]
  IN  IF b = Left /\ target # None /\ target # s.world.focus
      THEN [focused EXCEPT !.pending.focusClick = TRUE, !.client = SendDown(@, b)]
      ELSE [focused EXCEPT !.client = SendDown(@, b)]

\* resolve_pointer_button_focus and the end of process_pointer_button.  The first
\* left click on a window that has not the focus is not for the client.
Deliver(s, b) ==
  LET target  == IF s.client.grabbed THEN None ELSE Over
      focused == [s EXCEPT !.world = Focused(@, target)]
  IN  IF b = Left /\ target # None /\ target # s.world.focus
      THEN [focused EXCEPT !.pending.focusClick = TRUE]
      ELSE [focused EXCEPT !.client = SendDown(@, b)]

Press(b) ==
  /\ b \notin phys
  /\ phys' = phys \cup {b} /\ held' = held \cup {b}
  /\ LET stale == pending.panClick # None /\ (b # PanButton \/ pending.panClick.expired)
         s     == IF stale THEN ReplayPanClick(Now) ELSE Now
         p     == CountChordClick(s.pending, b)
     IN  Become(IF pending.closing THEN s
                ELSE IF Begins(b) THEN With(s, Begin(p, b))
                ELSE Deliver(With(s, IF locked THEN p ELSE Unplaced(p, b)), b))
  /\ UNCHANGED <<at, robbed, locked>>

-----------------------------------------------------------------------------
(* A button goes up *)

ChordButtons(chord) == IF chord = None THEN {} ELSE chord.held

\* A gesture consumes the release of b.
Owns(p, b) ==
  \/ p.camera # None /\ b = PanButton
  \/ p.drag # None /\ b \in {MoveHold, MovePress}
  \/ p.resize # None /\ b = ResizeButton
  \/ b \in ChordButtons(p.chord)
  \/ p.edge /\ b = PlaceButton
  \/ b \in p.releases
  \/ p.focusClick /\ b = Left

\* Somebody but a gesture that began with the camera's button waits for the release.
Awaited(b) == b \in client.down \/ (b # PanButton /\ Owns(pending, b))

\* process_floating_chord_release: the first of the two toggles.
ReleaseChord(s, b, ok) ==
  LET rest == s.pending.chord.held \ {b}
      p    == [s.pending EXCEPT !.chord = IF rest = {} THEN None ELSE [@ EXCEPT !.held = rest]]
  IN  [s EXCEPT !.pending = p,
                !.world = IF ok /\ s.pending.chord.held = {FloatHold, FloatPress}
                          THEN Focused(@, s.pending.chord.id) ELSE @]

\* Mutant: the other button of the chord is forgotten.
ReleaseDragForgetting(s, b, heldNow, ok) ==
  [s EXCEPT !.pending.drag = None, !.pending.chordClick = None,
            !.world = IF ok /\ s.pending.drag.moved THEN Focused(@, s.pending.drag.id) ELSE @]

\* finish_pending_window_drag_release.  A drag that did not move is a click of the
\* chord; the release of its other button will be swallowed.
ReleaseDrag(s, b, heldNow, ok) ==
  LET drag  == s.pending.drag
      count == IF s.pending.chordClick # None /\ s.pending.chordClick.id = drag.id
               THEN s.pending.chordClick.clicks ELSE 1
      click == IF ChordClicks # {} /\ b = MovePress /\ MoveHold \in heldNow /\ ~ drag.moved
               THEN [id |-> drag.id, clicks |-> count, expired |-> FALSE] ELSE None
  IN  [s EXCEPT !.pending.drag = None,
                !.pending.chordClick = click,
                !.pending.releases = {MoveHold, MovePress} \cap heldNow,
                !.world = IF ok /\ drag.moved THEN Focused(@, drag.id) ELSE @]

\* defer_or_complete_pointer_click, of a click that began on window.
DeferPanClick(s, window) ==
  LET first == s.pending.panClick
      same  == first # None /\ window # None /\ first.window = window /\ ~ first.expired
      again == IF same THEN OneMore(first.clicks) ELSE 1
      s1    == IF same THEN s ELSE ReplayPanClick(s)
  IN  IF again >= PanClicks
      THEN RunClickActions([s1 EXCEPT !.pending.panClick = None], window, FALSE)
      ELSE [s1 EXCEPT !.pending.panClick =
              [window |-> window, clicks |-> again, expired |-> FALSE]]

\* finish_camera_drag and handle_replayed_camera_click.
ReleaseCamera(s) ==
  LET drag == s.pending.camera
      s1   == [s EXCEPT !.pending.camera = None]
      s2   == IF s.client.grabbed THEN s1 ELSE [s1 EXCEPT !.world = Focused(@, Over)]
  IN  IF drag.dragging \/ (at.edge /\ EdgeCommand) THEN s1
      ELSE IF PanClicks = 0 THEN [s2 EXCEPT !.client = SendClick(@, PanButton)]
      ELSE DeferPanClick(s2, drag.window)

\* finish_active_pointer_interaction, then the rest of process_pointer_button.
Released(s, b, heldNow, ok) ==
  LET p == s.pending
  IN  IF b \in ChordButtons(p.chord)
      THEN ReleaseChord(s, b, ok)
      ELSE IF p.edge /\ b = PlaceButton THEN [s EXCEPT !.pending.edge = FALSE]
      ELSE IF p.resize # None /\ b = ResizeButton
      THEN [s EXCEPT !.pending.resize = None, !.world = Focused(@, p.resize)]
      ELSE IF b \in p.releases THEN [s EXCEPT !.pending.releases = @ \ {b}]
      ELSE IF p.drag # None /\ b \in {MoveHold, MovePress} THEN ReleaseDrag(s, b, heldNow, ok)
      ELSE IF b = Left /\ p.focusClick THEN [s EXCEPT !.pending.focusClick = FALSE]
      ELSE IF ~ locked /\ b = PanButton /\ p.camera # None THEN ReleaseCamera(s)
      ELSE [s EXCEPT !.client = SendUp(@, b)]

\* ok: the World accepts what the gesture asks of it; gone: the window that is asked
\* to close does so at once.
Release(b) ==
  /\ b \in phys
  /\ phys' = phys \ {b} /\ held' = held \ {b}
  /\ robbed' = IF pending.closing /\ Awaited(b) THEN robbed \cup {b} ELSE robbed
  /\ \E ok, gone \in BOOLEAN :
       LET click == pending.chordClick
           s     == IF b = MoveHold /\ click # None
                    THEN CompleteChordClick(With(Now, [pending EXCEPT !.chordClick = None]),
                                            click, held', gone)
                    ELSE Now
       IN  Become(IF pending.closing THEN With(Now, [pending EXCEPT !.closing = held' # {}])
                  ELSE Released(s, b, held', ok))
  /\ UNCHANGED <<at, locked>>

-----------------------------------------------------------------------------
(* The pointer moves, the wheel turns, time passes *)

\* process_pointer_position.  fromPress: far from where the button went down;
\* fromClick: far from the click that is kept back.
Move(spot, fromPress, fromClick) ==
  LET drag   == pending.drag
      camera == pending.camera
      drags  == camera.dragging \/ fromPress
      p == [pending EXCEPT
              !.chordClick = IF fromClick THEN None ELSE @,
              !.drag = IF drag = None THEN None ELSE [drag EXCEPT !.moved = fromPress],
              !.camera = IF camera = None \/ drag # None THEN camera
                         ELSE [camera EXCEPT !.dragging = drags]]
      s == With(Now, p)
  IN  /\ at' = spot
      /\ Become(IF fromClick THEN ReplayPanClick(s) ELSE s)
      /\ UNCHANGED <<phys, held, robbed, locked>>

\* consume_camera_zoom_axis: the wheel makes a gesture of the press.
Wheel ==
  /\ ~ locked /\ ZoomButton \in held /\ pending.camera # None
  /\ pending' = [pending EXCEPT !.camera.dragging = TRUE]
  /\ UNCHANGED <<phys, held, client, robbed, at, world, locked>>

\* The deadline of a click that is kept back passes.
Expire ==
  /\ \/ /\ pending.panClick # None
        /\ pending' = [pending EXCEPT !.panClick.expired = TRUE]
     \/ /\ pending.chordClick # None
        /\ pending' = [pending EXCEPT !.chordClick.expired = TRUE]
  /\ UNCHANGED <<phys, held, client, robbed, at, world, locked>>

\* Mutant: a frame looks at the clicks of the camera's button only.
FlushPanOnly ==
  /\ pending.panClick # None /\ pending.panClick.expired
  /\ Become(ReplayPanClick(Now))
  /\ UNCHANGED <<phys, held, robbed, at, locked>>

\* flush_pending_pointer_click, at the head of a frame.
Flush ==
  LET late(click) == IF click = None THEN FALSE ELSE click.expired
      s == IF late(pending.panClick) THEN ReplayPanClick(Now) ELSE Now
  IN  /\ late(pending.panClick) \/ late(pending.chordClick)
      /\ \E gone \in BOOLEAN :
           Become(IF late(pending.chordClick)
                  THEN CompleteChordClick([s EXCEPT !.pending.chordClick = None],
                                          pending.chordClick, held, gone)
                  ELSE s)
      /\ UNCHANGED <<phys, held, robbed, at, locked>>

-----------------------------------------------------------------------------
(* The session lock and the other clients *)

\* Mutant: a click that is kept back survives the lock.
LockKeepsClick ==
  /\ locked' = TRUE
  /\ pending' = [Idle EXCEPT !.panClick = pending.panClick]
  /\ held' = {}
  /\ client' = [client EXCEPT !.grabbed = FALSE]
  /\ UNCHANGED <<phys, robbed, at, world>>

\* lock: every gesture is forgotten, whatever buttons are still down.
Lock ==
  /\ locked' = TRUE
  /\ pending' = Idle
  /\ held' = {}
  /\ client' = [client EXCEPT !.grabbed = FALSE]
  /\ UNCHANGED <<phys, robbed, at, world>>

Unlock ==
  /\ locked /\ locked' = FALSE
  /\ UNCHANGED <<phys, held, client, robbed, pending, at, world>>

\* A window ends; it may go on fading out under the pointer.
WindowGoes(id) ==
  /\ id \in world.windows
  /\ world' = Without(world, id)
  /\ UNCHANGED <<phys, held, client, robbed, pending, at, locked>>

FocusMoves(id) ==
  /\ id \in world.windows
  /\ world' = Focused(world, id)
  /\ UNCHANGED <<phys, held, client, robbed, pending, at, locked>>

-----------------------------------------------------------------------------
UserStep ==
  \/ \E b \in Buttons : Press(b) \/ Release(b)
  \/ \E spot \in Spots, fromPress, fromClick \in BOOLEAN : Move(spot, fromPress, fromClick)
  \/ Wheel

SessionStep ==
  \/ Lock \/ Unlock
  \/ \E id \in Windows : FocusMoves(id) \/ WindowGoes(id)

Next == UserStep \/ Expire \/ Flush \/ SessionStep

Spec == Init /\ [][Next]_vars
=============================================================================
