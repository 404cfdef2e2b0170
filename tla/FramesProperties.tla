--------------------------- MODULE FramesProperties ---------------------------
(***************************************************************************)
(* What keeps the direct backend drawing, whatever the session, the        *)
(* connectors and the clients do.                                          *)
(***************************************************************************)
EXTENDS Frames

BackendState ==
  [active : BOOLEAN, device : BOOLEAN, crtc : Connectors \cup {None},
   frame_pending : BOOLEAN, repaint_scheduled : BOOLEAN]

DesktopState ==
  [session_locked : BOOLEAN, pending_session_lock : BOOLEAN, animating : BOOLEAN,
   deferred : BOOLEAN, waiting : SUBSET Scene, redraws : 0 .. MaxRedraws]

ScreenState ==
  [damage : BOOLEAN, shown : Scene \cup {None}, flips : [Connectors -> 0 .. MaxFlips]]

\* The fields hold what their types allow (struct DirectBackend, struct MioState),
\* a lock waits for its confirmation and its surfaces for a frame only while the
\* session is locked (session_lock_surfaces), and a rescan has one event for each
\* connector it has seen change.
FramesTypeOK ==
  /\ backend \in BackendState
  /\ desktop \in DesktopState
  /\ screen \in ScreenState
  /\ plug \in [Connectors -> Plugged] /\ seen \in [Connectors -> Plugged]
  /\ hotplug \in BOOLEAN
  /\ scan \in SUBSET HotplugEvent
  /\ faults \in 0 .. MaxFaults
  /\ desktop.pending_session_lock \/ "SessionLock" \in desktop.waiting => desktop.session_locked
  /\ \A e, f \in scan : e.connector = f.connector => e = f

\* There is an output and the session may draw on it.
Usable == backend.active /\ backend.crtc # None

\* While frame_pending is set render does nothing, so the kernel has to owe a
\* VBlank of the present CRTC: through VT switches, reconnections of the same
\* connector and page flips of earlier frames that are reported late.
PendingHasFlip ==
  backend.frame_pending => Usable /\ screen.flips[backend.crtc] > 0

\* Unless a call has failed, something will render again: a page flip, the timer
\* or a message.  Work that wakes nobody relies on it (ipc.rs, handlers/mod.rs,
\* finish_close_transitions): it is done by whichever frame comes next.
LoopArmed ==
  Usable /\ faults = 0 =>
    \/ backend.repaint_scheduled
    \/ desktop.redraws > 0
    \/ screen.flips[backend.crtc] > 0

\* Once a lock is confirmed the last frame queued shows the lock scene, although
\* frames of the desktop may be pending when the lock is asked for, the lock may
\* be asked for twice and the output may come and go (render_session_lock).
LockShown ==
  desktop.session_locked /\ ~ desktop.pending_session_lock =>
    screen.shown \in {"SessionLock", None}

\* The output in use is one the scanner has last seen plugged in, with modes,
\* unless that connector's event is still to be handled (rescan_connectors).
OutputPlugged ==
  LET c == backend.crtc
  IN c # None /\ (\A event \in scan : event.connector # c) => seen[c] \in {"modes", "other"}

\* An output is given up only for an event of its own connector, never for what
\* happens to another monitor.
OutputKept ==
  [][backend.crtc # None /\ backend'.crtc # backend.crtc =>
       \E event \in scan \ scan' : event.connector = backend.crtc]_vars

-----------------------------------------------------------------------------
(* Progress.  It is promised once the connectors have come to rest: each        *)
(* reconnection starts over.  A failed call may leave the loop unarmed until    *)
(* somebody wakes it, and without an output nothing is drawn: both end the      *)
(* promise.                                                                     *)

AtRest == ~ hotplug /\ Idle

Excused == ~ Usable \/ faults > 0

\* A surface of the scene that is drawn gets its frame callback: from a VBlank if
\* its commit changed the picture, from the timer if the frame was empty.
CallbackArrives ==
  <>[]AtRest =>
    \A scene \in Scene :
      scene \in desktop.waiting ~> \/ scene \notin desktop.waiting
                                   \/ scene # direct_scene(desktop)
                                   \/ Excused

\* What only render does is done (pending_dmabuf_imports, advance_animations,
\* flush_pending_pointer_click), although nobody asked for a frame.
DeferredWorkDone ==
  <>[]AtRest => (desktop.deferred ~> ~ desktop.deferred \/ Excused)

\* A lock that changes the picture is confirmed (session_lock.rs, render_session_lock).
LockConfirmed ==
  <>[]AtRest => (desktop.pending_session_lock /\ screen.damage ~>
                   ~ desktop.pending_session_lock \/ Excused)
=============================================================================
