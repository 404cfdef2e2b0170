-------------------------------- MODULE Motion --------------------------------
(***************************************************************************)
(* One window between the World and the screen (mio-compositor, state.rs,  *)
(* input.rs, animation.rs).  The World gives it whole cells; sync_layout   *)
(* turns them into targets; frames move what is drawn towards the targets  *)
(* and tell the client the size it has on the way.  A pointer that drags   *)
(* an edge goes past the World until the button is released.               *)
(*                                                                         *)
(* Every operation must sync the layout by itself, and only some of the    *)
(* syncs tell the client its presentation.  Places are left out, and so is *)
(* the speed a rectangle keeps when its target changes.                    *)
(***************************************************************************)
EXTENDS Integers

CONSTANTS
  Sizes,   \* the widths a window can have, in cells of one unit at zoom 1
  Zooms,   \* the zooms of the camera
  Area     \* the width of the Output, which a window is maximized to

ASSUME MotionAssumption ==
  /\ Sizes \subseteq Nat \ {0} /\ Zooms \subseteq Nat \ {0} /\ 1 \in Zooms
  /\ Area \in Nat \ {0}

VARIABLES
  desk,   \* the World: whether the window is in it, its size, how it is shown, the
          \* zoom, and whether a window has the focus
  view,   \* output_size is known; session_locked
  drawn,  \* render_rect, client_width, and ready_to_present
  told,   \* last_configured_size, and the presentation the client has been told
  grip,   \* pending_window_resize, if this window is in it, and the width it had
  due     \* a frame has been asked for

motion_vars == <<desk, view, drawn, told, grip, due>>

-----------------------------------------------------------------------------
Presentations == {"Normal", "Maximized", "Fullscreen"}

Unset == 0

NoGrip == [role |-> "none", from |-> Unset]

At(v) == [now |-> v, target |-> v]

NoRect == At(Unset)

MotionInit ==
  /\ \E s \in Sizes : desk = [there |-> FALSE, size |-> s, shown |-> "Normal", zoom |-> 1,
                              focus |-> FALSE]
  /\ view = [output |-> FALSE, locked |-> FALSE]
  /\ drawn = [rect |-> NoRect, client |-> At(1), ready |-> FALSE]
  /\ told = [size |-> Unset, shown |-> "Normal"]
  /\ grip = NoGrip
  /\ due = FALSE

\* presentation_screen_rect, by the camera and by the same camera at zoom 1.
ScreenSize(d) == IF d.shown = "Normal" THEN d.size * d.zoom ELSE Area
ClientSize(d) == IF d.shown = "Normal" THEN d.size ELSE Area

\* The first target is where a rectangle is.
Aimed(a, target) == IF a.now = Unset THEN At(target) ELSE [a EXCEPT !.target = target]

\* update_managed_layout and configure_toplevel_presentation: what a sync makes of
\* what is drawn and told.  A window that is being resized is left alone, except
\* that it is told its presentation.
LaidOut(d, v, g, dr, t, configure_sizes) ==
  IF ~ v.output \/ ~ d.there THEN [drawn |-> dr, told |-> t]
  ELSE LET shown == IF configure_sizes THEN d.shown ELSE t.shown
       IN  IF g # NoGrip THEN [drawn |-> dr, told |-> [t EXCEPT !.shown = shown]]
           ELSE [drawn |-> [dr EXCEPT !.rect = Aimed(@, ScreenSize(d)),
                                      !.client = IF t.size = Unset THEN At(ClientSize(d))
                                                 ELSE [@ EXCEPT !.target = ClientSize(d)]],
                 told |-> [size |-> IF t.size = Unset THEN ClientSize(d) ELSE t.size,
                           shown |-> shown]]

\* sync_layout, at the end of a handler that leaves `dr' to it.
SyncLayout(dr, configure_sizes) ==
  LET laid == LaidOut(desk', view', grip', dr, told, configure_sizes)
  IN  drawn' = laid.drawn /\ told' = laid.told

-----------------------------------------------------------------------------
(* Frames *)

\* AnimatedValue::advance and AnimatedRect::advance.
Advance(a) ==
  [a EXCEPT !.now = IF @ < a.target THEN @ + 1 ELSE IF @ > a.target THEN @ - 1 ELSE @]

\* Mutant: only the rectangle counts as a motion.
MovingRect(dr) == dr.rect.now # dr.rect.target

\* What advance_frame answers: anything that has not arrived wants another frame.
Moving(dr) == dr.rect.now # dr.rect.target \/ dr.client.now # dr.client.target

\* advance_frame, of a window that is presented and has a rectangle.
Advanced(dr) == [dr EXCEPT !.rect = Advance(@), !.client = Advance(@)]

\* advance_animations: the zoom the wheel has left is applied, and everything
\* moves on.  A frame of the session lock asks for no other.
Frame(zoom) ==
  /\ due
  /\ zoom = desk.zoom \/ desk.shown # "Fullscreen"
  /\ desk' = [desk EXCEPT !.zoom = zoom]
  /\ LET laid == IF zoom = desk.zoom THEN [drawn |-> drawn, told |-> told]
                 ELSE LaidOut(desk', view, grip, drawn, told, FALSE)
     IN  IF laid.drawn.ready /\ laid.drawn.rect # NoRect
         THEN /\ drawn' = Advanced(laid.drawn)
              /\ told' = [laid.told EXCEPT !.size = drawn'.client.now]
              /\ due' = (Moving(drawn') /\ ~ view.locked)
         ELSE drawn' = laid.drawn /\ told' = laid.told /\ due' = FALSE
  /\ UNCHANGED <<view, grip>>

-----------------------------------------------------------------------------
(* The window comes *)

\* add_toplevel.  The first window of an empty World has its focus.
AddToplevel ==
  /\ ~ desk.there
  /\ desk' = [desk EXCEPT !.there = TRUE, !.focus = TRUE]
  /\ UNCHANGED <<view, grip, due>>
  /\ SyncLayout(drawn, TRUE)

\* present_toplevel, by a commit, which asks for a frame.
PresentToplevel ==
  /\ desk.there /\ ~ drawn.ready
  /\ desk' = [desk EXCEPT !.focus = TRUE]
  /\ due' = TRUE
  /\ UNCHANGED <<view, grip>>
  /\ SyncLayout([drawn EXCEPT !.ready = TRUE], FALSE)

-----------------------------------------------------------------------------
(* Operations.  Those of the keyboard and the pointer are followed by a frame; *)
(* an IPC request and a request of the client are not.                         *)

Followed == due' = TRUE

\* ResizeWindow, by a shortcut or ipc_resize; the World refuses a window that is
\* not Normal.
ResizeWindow(size) ==
  /\ desk.there /\ desk.shown = "Normal" /\ size \in {desk.size - 1, desk.size + 1}
  /\ desk' = [desk EXCEPT !.size = size]
  /\ UNCHANGED <<view, grip>>
  /\ SyncLayout(drawn, TRUE)
  /\ Followed \/ UNCHANGED due

\* toggle_window_size.
ToggleWindowSize(size) ==
  /\ desk.there /\ desk.focus /\ desk.shown = "Normal"
  /\ desk' = [desk EXCEPT !.size = size]
  /\ UNCHANGED <<view, grip>>
  /\ SyncLayout(drawn, TRUE)
  /\ Followed

\* toggle_focused_presentation, and a request of the client, who may ask for
\* Fullscreen only.
TogglePresentation(shown) ==
  /\ desk.there
  /\ desk' = [desk EXCEPT !.shown = IF @ = shown THEN "Normal" ELSE shown]
  /\ UNCHANGED <<view, grip>>
  /\ SyncLayout(drawn, TRUE)
  /\ Followed \/ (shown = "Fullscreen" /\ UNCHANGED due)

\* apply_and_sync_layout of a zoom, which a fullscreen window refuses.
CameraZoom(zoom) ==
  /\ desk.shown # "Fullscreen"
  /\ desk' = [desk EXCEPT !.zoom = zoom]
  /\ UNCHANGED <<view, grip>>
  /\ SyncLayout(drawn, FALSE)
  /\ Followed

\* Whatever else ends in a sync: other windows, layers, properties, moves; a
\* reload tells everybody everything.  The focus of the World may come and go.
OtherOperation(focus, configure_sizes) ==
  /\ desk' = [desk EXCEPT !.focus = focus]
  /\ UNCHANGED <<view, grip>>
  /\ SyncLayout(drawn, configure_sizes)
  /\ Followed \/ UNCHANGED due

\* reset_window_presentation or reset_all_window_presentations, and a sync: a
\* drag that failed, a pan of the camera, a dialog that is placed.
ResetPresentation ==
  /\ UNCHANGED <<desk, view, grip>>
  /\ SyncLayout([drawn EXCEPT !.rect = NoRect], FALSE)
  /\ Followed \/ UNCHANGED due

\* set_output_size.
SetOutputSize ==
  /\ view' = [view EXCEPT !.output = TRUE]
  /\ UNCHANGED <<desk, grip>>
  /\ SyncLayout(drawn, TRUE)
  /\ Followed

-----------------------------------------------------------------------------
(* An edge is dragged *)

\* begin_window_resize: of this window, or of another that this one follows.
BeginWindowResize(role) ==
  /\ grip = NoGrip /\ ~ view.locked
  /\ desk.there /\ desk.shown = "Normal" /\ drawn.ready /\ drawn.rect # NoRect
  /\ grip' = [role |-> role, from |-> drawn.rect.now]
  /\ Followed
  /\ UNCHANGED <<desk, view, drawn, told>>

\* update_window_resize: set_interactive_resize_preview, and
\* set_interactive_move_preview of the followers.
UpdateWindowResize(width) ==
  /\ grip # NoGrip
  /\ IF grip.role = "edge"
     THEN /\ drawn' = [drawn EXCEPT !.rect = At(width), !.client = At(width)]
          /\ told' = [told EXCEPT !.size = width]
     ELSE drawn' = [drawn EXCEPT !.rect = At(grip.from)] /\ UNCHANGED told
  /\ Followed
  /\ UNCHANGED <<desk, view, grip>>

\* Mutant: the layout is synced before the preview ends.
FinishResizeSyncedFirst(size) ==
  /\ grip # NoGrip
  /\ desk' = [desk EXCEPT !.size = size, !.focus = TRUE]
  /\ size = desk.size \/ (grip.role = "edge" /\ desk.shown = "Normal" /\ view.output)
  /\ grip' = NoGrip
  /\ LET laid == LaidOut(desk', view, grip, drawn, told, TRUE)
     IN  drawn' = laid.drawn /\ told' = laid.told
  /\ Followed
  /\ UNCHANGED view

\* finish_window_resize.  The World may refuse the size.
FinishWindowResize(size) ==
  /\ grip # NoGrip
  /\ size = desk.size \/ (grip.role = "edge" /\ desk.shown = "Normal" /\ view.output)
  /\ desk' = [desk EXCEPT !.size = size, !.focus = TRUE]
  /\ grip' = NoGrip
  /\ UNCHANGED view
  /\ SyncLayout(IF grip.role = "edge" THEN [drawn EXCEPT !.rect = NoRect] ELSE drawn, TRUE)
  /\ Followed

-----------------------------------------------------------------------------
(* The session lock ends every gesture, and returns to the focused window. *)

LockSession ==
  /\ view' = [view EXCEPT !.locked = TRUE]
  /\ grip' = NoGrip
  /\ Followed
  /\ UNCHANGED <<desk, drawn, told>>

UnlockSession ==
  /\ view.locked
  /\ view' = [view EXCEPT !.locked = FALSE]
  /\ UNCHANGED <<desk, grip>>
  /\ IF desk.focus THEN SyncLayout(drawn, FALSE) ELSE UNCHANGED <<drawn, told>>
  /\ Followed

-----------------------------------------------------------------------------
FrameStep == \E zoom \in Zooms : Frame(zoom)

MotionNext ==
  \/ FrameStep \/ AddToplevel \/ PresentToplevel
  \/ \E size \in Sizes :
       ResizeWindow(size) \/ ToggleWindowSize(size) \/ FinishWindowResize(size)
  \/ \E shown \in Presentations \ {"Normal"} : TogglePresentation(shown)
  \/ \E zoom \in Zooms : CameraZoom(zoom)
  \/ \E focus, configure_sizes \in BOOLEAN : OtherOperation(focus, configure_sizes)
  \/ ResetPresentation \/ SetOutputSize
  \/ \E role \in {"edge", "follower"} : BeginWindowResize(role)
  \/ \E width \in 1 .. Area : UpdateWindowResize(width)
  \/ LockSession \/ UnlockSession

\* The loop draws the frames that are due.
MotionFairness == WF_motion_vars(FrameStep)

MotionSpec == MotionInit /\ [][MotionNext]_motion_vars /\ MotionFairness
=============================================================================
