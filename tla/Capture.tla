-------------------------------- MODULE Capture --------------------------------
(***************************************************************************)
(* The frames of a backend and what is taken along with them: screen       *)
(* captures (screencopy.rs, image_copy_capture.rs), the confirmation of a  *)
(* session lock, the clicks whose time has passed.  The nested backend     *)
(* (winit.rs) draws when somebody has asked its host for a redraw and ends *)
(* the program when drawing fails; the direct one (udev.rs) draws while it *)
(* has an Output -- Frames says how its loop keeps going -- and carries on.*)
(***************************************************************************)
EXTENDS Naturals, FiniteSets

CONSTANT
  Captures  \* the captures that clients ever ask for

VARIABLES
  backend,     \* "nested" or "direct"
  running,     \* the loop runs
  output,      \* an Output is mapped
  session,     \* session_locked, and a confirmation that is due (pending_session_lock)
  config_error,
  redraw,      \* the nested backend's host has been asked for a redraw
  click,       \* pending_pointer_click or pending_close_click: one at a time here
  screen,      \* what the last frame showed: its scene, and the error over it
  capture,     \* what has become of each capture
  pending      \* pending_screencopies, pending_image_copy_captures

capture_vars ==
  <<backend, running, output, session, config_error, redraw, click, screen, capture, pending>>

Clicks == {"pan", "close"}

NoClick == [kind |-> "none", due |-> FALSE]

CaptureInit ==
  /\ backend \in {"nested", "direct"}
  /\ running = TRUE
  /\ output \in (IF backend = "nested" THEN {TRUE} ELSE BOOLEAN)
  /\ session = [on |-> FALSE, confirm |-> FALSE]
  /\ config_error \in BOOLEAN
  /\ redraw = (backend = "nested")
  /\ click = NoClick
  /\ screen = [scene |-> "off", error |-> FALSE]
  /\ capture = [c \in Captures |-> [at |-> "none"]]
  /\ pending = {}

\* Mutant: nobody listens to redraw_sender.
WakeNobody == UNCHANGED redraw

\* redraw_sender: the nested backend asks its host, the direct one draws at once, as
\* it always may here.
Wake == redraw' = (redraw \/ backend = "nested")

-----------------------------------------------------------------------------
(* Requests for a capture *)

\* A frame object of a client: which protocol, whether the cursor is asked for
\* (overlay_cursor, PaintCursors), used (FrameData), the answers of frames, the
\* picture and whether that has the cursor; whether the client waits for the buffer
\* of a copy that was queued, and for one of a copy refused while locked.
Opened(kind, cursor) ==
  [at |-> "open", kind |-> kind, cursor |-> cursor, used |-> FALSE, answers |-> 0,
   picture |-> "none", painted |-> FALSE, lent |-> FALSE, refused |-> FALSE]

Alive(c) == capture[c].at \in {"open", "asked"}

\* The client is told: ready, success, failed, fail.
Told(r) == [r EXCEPT !.answers = @ + 1]

\* A frame that is neither queued nor alive.
Over == [at |-> "over"]

\* The frame of a region that is not on an Output fails at once.
OpenScreencopy(c, cursor, empty) ==
  /\ capture[c].at = "none"
  /\ output \/ empty
  /\ LET r == Opened("screencopy", cursor)
     IN capture' = [capture EXCEPT ![c] = IF empty THEN Over ELSE r]
  /\ UNCHANGED <<backend, running, output, session, config_error, redraw, click, screen,
                 pending>>

\* What is left of a frame object that goes: the queue keeps its entry.
Left(c) == IF c \in pending THEN [capture[c] EXCEPT !.at = "gone"] ELSE Over

\* The error of a protocol ends its client with all that it has.
ProtocolError(c) ==
  /\ capture' = [capture EXCEPT ![c] = Left(c)]
  /\ UNCHANGED pending

Enqueue(c) ==
  /\ capture' = [capture EXCEPT ![c] =
                   [@ EXCEPT !.at = "asked", !.used = TRUE, !.lent = (@ \/ capture[c].kind = "screencopy")]]
  /\ pending' = pending \cup {c}

\* While locked a frame is told that it has failed, whatever it was asked before,
\* and may be asked again; the buffer is not released.
Refuse(c) ==
  /\ capture' = [capture EXCEPT ![c].refused = TRUE]
  /\ UNCHANGED pending

\* queue_screencopy: used once, and only with a buffer of the size and format
\* that were advertised.
Copy(c, valid) ==
  /\ Alive(c) /\ capture[c].kind = "screencopy"
  /\ \/ session.on /\ Refuse(c) /\ UNCHANGED redraw
     \/ ~session.on /\ (capture[c].used \/ ~valid) /\ ProtocolError(c) /\ UNCHANGED redraw
     \/ ~session.on /\ ~capture[c].used /\ valid /\ Enqueue(c) /\ Wake
  /\ UNCHANGED <<backend, running, output, session, config_error, click, screen>>

\* A frame of an image copy session: smithay hands it out with its buffer.
ImageFrame(c, cursor) ==
  /\ capture[c].at = "none"
  /\ LET r == Opened("image_copy", cursor)
     IN IF session.on \/ ~output
        THEN /\ capture' = [capture EXCEPT ![c] = Over]
             /\ UNCHANGED <<pending, redraw>>
        ELSE /\ capture' = [capture EXCEPT ![c] = [r EXCEPT !.at = "asked", !.used = TRUE]]
             /\ pending' = pending \cup {c} /\ Wake
  /\ UNCHANGED <<backend, running, output, session, config_error, click, screen>>

\* The client destroys its frame, at any moment.
Destroy(c) ==
  /\ Alive(c)
  /\ capture' = [capture EXCEPT ![c] = Left(c)]
  /\ UNCHANGED <<backend, running, output, session, config_error, redraw, click, screen,
                 pending>>

-----------------------------------------------------------------------------
(* The answers, in a frame that draws `scene` *)

\* cursor_filter: the direct backend answers the captures with and those without
\* a cursor from two pictures; the nested one has one picture for all.
Matching(painted) ==
  {c \in pending : backend = "direct" => capture[c].cursor = painted}

\* Mutant: a frame that has gone is dropped with its buffer.
AnswerLiving(r, scene, painted, broken) ==
  IF r.at = "gone" THEN r
  ELSE IF broken THEN [Told(r) EXCEPT !.lent = FALSE]
  ELSE [Told(r) EXCEPT !.picture = scene, !.painted = painted, !.lent = FALSE]

\* A read-back picture, or none when reading it back has failed; the buffer goes
\* back to the client, even when its frame has gone.
Answer(r, scene, painted, broken) ==
  IF r.at = "gone" THEN Over
  ELSE IF broken THEN [Told(r) EXCEPT !.lent = FALSE]
  ELSE [Told(r) EXCEPT !.picture = scene, !.painted = painted, !.lent = FALSE]

Fulfill(served, scene, painted, broken) ==
  /\ capture' = [c \in Captures |->
                   IF c \in served THEN Answer(capture[c], scene, c \in painted, c \in broken)
                   ELSE capture[c]]
  /\ pending' = pending \ served

-----------------------------------------------------------------------------
(* Frames *)

\* Mutant: a lock is shown once it has been confirmed.
SceneOnceConfirmed == IF session.on /\ ~session.confirm THEN "lock" ELSE "desktop"

\* direct_scene, and the same choice in the nested backend.
Scene == IF session.on THEN "lock" ELSE "desktop"

\* render_config_error_overlay.
ErrorShown == config_error /\ ~session.on

\* flush_pending_pointer_click.
Flushed == IF click.due THEN NoClick ELSE click

Shown == screen' = [scene |-> Scene, error |-> ErrorShown]

Confirmed == session' = IF session.on THEN [session EXCEPT !.confirm = FALSE] ELSE session

\* The next frame is asked for by what moves and by a
\* click that waits: not by pending_close_click.
Chained(moving) == redraw' = (moving \/ Flushed.kind = "pan")

\* The handler of Redraw: captures are read back from the bare scene, then the
\* error and the pointer are drawn over it and it is submitted.
NestedFrame(moving, broken) ==
  /\ backend = "nested" /\ running /\ redraw
  /\ click' = Flushed
  /\ Fulfill(pending, Scene, {}, broken)
  /\ Shown /\ Confirmed /\ Chained(moving)
  /\ UNCHANGED <<backend, running, output, config_error>>

\* Drawing the scene, or what comes over it once the captures have been
\* answered, fails: the loop ends.
NestedFailure(answered) ==
  /\ backend = "nested" /\ running /\ redraw
  /\ running' = FALSE /\ redraw' = FALSE
  /\ click' = Flushed
  /\ IF answered THEN Fulfill(pending, Scene, {}, {}) ELSE UNCHANGED <<capture, pending>>
  /\ UNCHANGED <<backend, output, session, config_error, screen>>

\* DirectBackend::render and render_session_lock: captures only from the desktop;
\* each of the two pictures, `made`, may fail and leaves its captures for the next
\* frame.  A frame that is not drawn, or is not queued, or has no damage, shows and
\* confirms nothing.
DirectFrame(made, broken, shows) ==
  /\ backend = "direct" /\ running /\ output
  /\ click' = Flushed
  /\ IF session.on THEN UNCHANGED <<capture, pending>>
     ELSE Fulfill(UNION {Matching(p) : p \in made}, Scene,
                  IF TRUE \in made THEN Matching(TRUE) ELSE {}, broken)
  /\ IF shows THEN Shown /\ Confirmed ELSE UNCHANGED <<screen, session>>
  /\ UNCHANGED <<backend, running, output, config_error, redraw>>

-----------------------------------------------------------------------------
(* The rest of the system *)

\* session_lock.rs lock, for the first locker or one that takes over: what the
\* pointer was about is forgotten.
Lock ==
  /\ session' = [on |-> TRUE, confirm |-> TRUE]
  /\ click' = NoClick
  /\ Wake
  /\ UNCHANGED <<backend, running, output, config_error, screen, capture, pending>>

\* Only a confirmed lock can be undone.
Unlock ==
  /\ session.on /\ ~session.confirm
  /\ session' = [on |-> FALSE, confirm |-> FALSE]
  /\ Wake
  /\ UNCHANGED <<backend, running, output, config_error, click, screen, capture, pending>>

\* A click that may be the first of a double click; host input asks for a redraw.
Click(k) ==
  /\ ~session.on /\ click = NoClick
  /\ click' = [kind |-> k, due |-> FALSE]
  /\ Wake
  /\ UNCHANGED <<backend, running, output, session, config_error, screen, capture, pending>>

ClickFallsDue ==
  /\ click # NoClick /\ ~click.due
  /\ click' = [click EXCEPT !.due = TRUE]
  /\ UNCHANGED <<backend, running, output, session, config_error, redraw, screen, capture,
                 pending>>

\* reload_config, by a shortcut.
ConfigReloaded(bad) ==
  /\ ~session.on /\ bad # config_error
  /\ config_error' = bad
  /\ Wake
  /\ UNCHANGED <<backend, running, output, session, click, screen, capture, pending>>

\* Commits, input and new clients ask for a redraw.
Activity ==
  /\ backend = "nested" /\ ~redraw /\ Wake
  /\ UNCHANGED <<backend, running, output, session, config_error, click, screen, capture,
                 pending>>

\* connect_output, disconnect_output of the direct backend.
Hotplug ==
  /\ backend = "direct" /\ output' = ~output
  /\ UNCHANGED <<backend, running, session, config_error, redraw, click, screen, capture,
                 pending>>

-----------------------------------------------------------------------------
Draw ==
  \/ \E broken \in SUBSET pending :
       \/ \E moving \in BOOLEAN : NestedFrame(moving, broken)
       \/ \E made \in SUBSET BOOLEAN, shows \in BOOLEAN : DirectFrame(made, broken, shows)
  \/ \E answered \in BOOLEAN : NestedFailure(answered)

Client(c) ==
  \/ \E cursor \in BOOLEAN :
       ImageFrame(c, cursor) \/ \E empty \in BOOLEAN : OpenScreencopy(c, cursor, empty)
  \/ \E valid \in BOOLEAN : Copy(c, valid)
  \/ Destroy(c)

CaptureNext ==
  /\ running
  /\ \/ Draw
     \/ \E c \in Captures : Client(c)
     \/ Lock \/ Unlock \/ Activity \/ Hotplug \/ ClickFallsDue
     \/ \E k \in Clicks : Click(k)
     \/ \E bad \in BOOLEAN : ConfigReloaded(bad)

CaptureSpec == CaptureInit /\ [][CaptureNext]_capture_vars

\* A picture of either kind is made sooner or later by a direct backend that has
\* frames of the desktop: rendering does not fail for ever.
Picture(p) == \E made \in SUBSET BOOLEAN :
  /\ p \in made /\ Matching(p) # {} /\ ~session.on
  /\ \E broken \in SUBSET pending, shows \in BOOLEAN : DirectFrame(made, broken, shows)

\* The host answers a request for a redraw, the direct loop goes on while there
\* is an Output (Frames).
CaptureFairness ==
  /\ WF_capture_vars(running /\ \E moving \in BOOLEAN, broken \in SUBSET pending : NestedFrame(moving, broken))
  /\ WF_capture_vars(running /\ \E made \in SUBSET BOOLEAN, broken \in SUBSET pending,
                               shows \in BOOLEAN : DirectFrame(made, broken, shows))
  /\ \A p \in BOOLEAN : WF_capture_vars(running /\ Picture(p))
=============================================================================
