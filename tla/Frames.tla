-------------------------------- MODULE Frames --------------------------------
(***************************************************************************)
(* The frame loop of the direct backend (udev.rs): when a frame is drawn,  *)
(* what makes the next one happen, and which connector is shown.           *)
(*                                                                         *)
(* Every handler runs to its end on one thread.  The exception is the      *)
(* rescan of the connectors: it handles one event after the other, in an   *)
(* order the scanner chooses, and `scan' holds those it has left.  Nothing *)
(* but the hardware moves in between.                                      *)
(***************************************************************************)
EXTENDS Naturals

CONSTANTS
  Connectors,  \* connectors of the GPU; each is driven by a CRTC of its own
  None,        \* no CRTC, no frame
  MaxFlips,    \* page flips of one CRTC under way: one submitted, one queued
  MaxRedraws,  \* messages in the redraw channel that are told apart
  MaxFaults    \* calls into the renderer and the DRM device that may fail

ASSUME NoneAssumption == None \notin Connectors
ASSUME BoundAssumption == MaxFlips \in Nat \ {0} /\ MaxRedraws \in Nat \ {0} /\ MaxFaults \in Nat

VARIABLES
  backend,  \* struct DirectBackend: session active, device, crtc and the two flags
  desktop,  \* struct MioState, what the frame loop reads and writes of it
  screen,   \* damage since the last frame, what that frame showed, and the page
            \* flips the kernel has not yet reported for each CRTC
  plug,     \* what is plugged in
  hotplug,  \* udev has reported a change nobody has looked at
  seen,     \* what the scanner found when it last looked
  scan,     \* events of the rescan under way
  faults    \* how many calls have failed

vars == <<backend, desktop, screen, plug, hotplug, seen, scan, faults>>

-----------------------------------------------------------------------------
Scene == {"Desktop", "SessionLock"}

\* Nothing plugged in, a monitor that lists no mode yet, and two mode lists.
Plugged == {"off", "blank", "modes", "other"}

HotplugEvent == [connector : Connectors, kind : {"Connected", "Disconnected", "Changed"}]

\* Mutant: the scene changes once the lock is confirmed.
SceneOnceConfirmed(d) ==
  IF d.session_locked /\ ~ d.pending_session_lock THEN "SessionLock" ELSE "Desktop"

direct_scene(d) == IF d.session_locked THEN "SessionLock" ELSE "Desktop"

\* Mutant: any connector that goes away takes the output with it.
ClassifyAnyConnector(active_crtc, event) ==
  CASE event.kind = "Connected"    /\ active_crtc = None            -> "Connect"
    [] event.kind = "Disconnected" /\ active_crtc # None            -> "Disconnect"
    [] event.kind = "Changed"      /\ active_crtc = event.connector -> "Reconnect"
    [] OTHER                                                        -> "Ignore"

classify_hotplug(active_crtc, event) ==
  CASE event.kind = "Connected"    /\ active_crtc = None            -> "Connect"
    [] event.kind = "Disconnected" /\ active_crtc = event.connector -> "Disconnect"
    [] event.kind = "Changed"      /\ active_crtc = event.connector -> "Reconnect"
    [] OTHER                                                        -> "Ignore"

\* init scans the connectors and connects the first that is plugged in, whatever
\* comes of it.  The redraw is the render at the end of init.
Init ==
  /\ plug \in [Connectors -> Plugged]
  /\ seen = plug
  /\ hotplug = FALSE
  /\ LET found == { [connector |-> c, kind |-> "Connected"] :
                      c \in { d \in Connectors : plug[d] # "off" } }
     IN IF found = {} THEN scan = {} ELSE \E first \in found : scan = {first}
  /\ backend = [active |-> TRUE, device |-> TRUE, crtc |-> None,
                frame_pending |-> FALSE, repaint_scheduled |-> FALSE]
  /\ desktop = [session_locked |-> FALSE, pending_session_lock |-> FALSE,
                animating |-> FALSE, deferred |-> FALSE, waiting |-> {}, redraws |-> 1]
  /\ screen = [damage |-> FALSE, shown |-> None, flips |-> [c \in Connectors |-> 0]]
  /\ faults = 0

Idle == scan = {}

\* Something outside Mio fails.
Fault == faults < MaxFaults /\ faults' = faults + 1

\* The handlers of the event sources leave the connectors alone.
NoHotplug == UNCHANGED <<plug, hotplug, seen, scan>>

Woken(d) == [d EXCEPT !.redraws = IF @ < MaxRedraws THEN @ + 1 ELSE @]

Damaged(s) == [s EXCEPT !.damage = TRUE]

\* send_frame_callbacks, to the surfaces of the scene that is drawn.
CallbacksSent(b, d) ==
  IF b.crtc = None THEN d ELSE [d EXCEPT !.waiting = @ \ {direct_scene(d)}]

\* Page flips of a scanout that has been paused or dropped may never be reported.
FlipsLost(s, cs) ==
  { [s EXCEPT !.flips = f] : f \in { g \in [Connectors -> 0 .. MaxFlips] :
      \A c \in Connectors : IF c \in cs THEN g[c] <= s.flips[c] ELSE g[c] = s.flips[c] } }

-----------------------------------------------------------------------------
(* Drawing.  b, d and s are what the handler that calls render has made of *)
(* the backend, the desktop and the screen.                                *)

Drawable(b) == ~ b.frame_pending /\ b.active /\ b.crtc # None

Leave(b, d, s) == backend' = b /\ desktop' = d /\ screen' = s

\* Mutant: a lock is confirmed by the frame after the first one.
QueueConfirmingLate(b, d, s) ==
  /\ b.device
  /\ Leave([b EXCEPT !.frame_pending = TRUE],
           [d EXCEPT !.pending_session_lock = @ /\ s.shown # "SessionLock"],
           [damage |-> FALSE, shown |-> direct_scene(d),
            flips |-> [s.flips EXCEPT ![b.crtc] = IF @ < MaxFlips THEN @ + 1 ELSE @]])
  /\ UNCHANGED faults

\* A frame is queued; the kernel owes a page flip.  With the lock scene this is
\* the moment the lock is confirmed.
QueueFrame(b, d, s) ==
  /\ b.device
  /\ Leave([b EXCEPT !.frame_pending = TRUE],
           [d EXCEPT !.pending_session_lock = @ /\ ~ d.session_locked],
           [damage |-> FALSE, shown |-> direct_scene(d),
            flips |-> [s.flips EXCEPT ![b.crtc] = IF @ < MaxFlips THEN @ + 1 ELSE @]])
  /\ UNCHANGED faults

\* Mutant: an empty frame is not paced by the timer.
EmptyUnpaced(b, d, s) ==
  /\ b.device /\ ~ s.damage
  /\ Leave(b, d, s)
  /\ UNCHANGED faults

\* Damage tracking finds nothing to show.
EmptyFrame(b, d, s) ==
  /\ b.device /\ ~ s.damage
  /\ Leave([b EXCEPT !.repaint_scheduled = TRUE], d, s)
  /\ UNCHANGED faults

\* The frame cannot be rendered or queued.  While the device is paused, or the
\* CRTC still flips to a frame of an earlier scanout, that needs no other cause.
FailedFrame(b, d, s) ==
  /\ Leave(b, d, s)
  /\ \/ Fault
     \/ (~ b.device \/ s.flips[b.crtc] > 0) /\ UNCHANGED faults

\* Deferred work is done and animations advance, some of them to their end.
Advanced(d, moves) == [d EXCEPT !.deferred = FALSE, !.animating = @ /\ moves]

\* A desktop that still moves, and in every scene an animated cursor, asks for
\* another frame.
Scheduled(b, d, cursor) ==
  [b EXCEPT !.repaint_scheduled = @ \/ cursor \/ (d.animating /\ ~ d.session_locked)]

\* render and render_session_lock; the elements of the desktop may fail to be
\* collected before anything is scheduled.
Draw(b, d, s, cursor) ==
  \/ QueueFrame(Scheduled(b, d, cursor), d, s)
  \/ EmptyFrame(Scheduled(b, d, cursor), d, s)
  \/ FailedFrame(Scheduled(b, d, cursor), d, s)
  \/ ~ d.session_locked /\ Fault /\ Leave(b, d, s)

Render(b, d, s) ==
  \/ ~ Drawable(b) /\ Leave(b, d, s) /\ UNCHANGED faults
  \/ Drawable(b) /\ \E moves, cursor \in BOOLEAN : Draw(b, Advanced(d, moves), s, cursor)

-----------------------------------------------------------------------------
(* The event sources *)

\* The 16 ms timer.
RepaintTimer ==
  /\ Idle
  /\ backend.repaint_scheduled /\ ~ backend.frame_pending /\ backend.active
  /\ Render([backend EXCEPT !.repaint_scheduled = FALSE], CallbacksSent(backend, desktop), screen)
  /\ NoHotplug

\* A message of redraw_sender.
Redraw ==
  /\ Idle /\ desktop.redraws > 0
  /\ Render(backend, [desktop EXCEPT !.redraws = @ - 1], screen)
  /\ NoHotplug

\* Mutant: a page flip sends callbacks and leaves the next frame to the clients.
VBlankWithoutRender(c) ==
  LET submitted == [backend EXCEPT !.frame_pending = FALSE]
      flipped == [screen EXCEPT !.flips[c] = @ - 1]
  IN /\ Idle /\ screen.flips[c] > 0
     /\ \/ c # backend.crtc /\ Leave(backend, desktop, flipped)
        \/ c = backend.crtc /\ Leave(submitted, CallbacksSent(submitted, desktop), flipped)
     /\ UNCHANGED faults /\ NoHotplug

\* The kernel reports a page flip: of another CRTC, of the frame Mio waits for,
\* or of one it no longer thinks about.
VBlank(c) ==
  LET submitted == [backend EXCEPT !.frame_pending = FALSE]
      flipped == [screen EXCEPT !.flips[c] = @ - 1]
  IN /\ Idle /\ screen.flips[c] > 0
     /\ \/ c # backend.crtc /\ Leave(backend, desktop, flipped) /\ UNCHANGED faults
        \/ c = backend.crtc /\ Fault /\ Leave(submitted, desktop, flipped)
        \/ c = backend.crtc /\ Render(submitted, CallbacksSent(submitted, desktop), flipped)
     /\ NoHotplug

\* libinput delivers events to an active session only.
Input ==
  /\ Idle /\ backend.active
  /\ \E moves, visible \in BOOLEAN :
       Render(backend, [desktop EXCEPT !.animating = @ \/ moves],
              [screen EXCEPT !.damage = @ \/ visible])
  /\ NoHotplug

PauseSession ==
  /\ Idle /\ backend.active
  /\ backend' = [backend EXCEPT !.active = FALSE, !.device = FALSE, !.frame_pending = FALSE]
  /\ screen' \in FlipsLost(screen, Connectors)
  /\ UNCHANGED <<desktop, faults>> /\ NoHotplug

\* Mutant: nothing is drawn when the session comes back.
ActivateWithoutRender ==
  /\ Idle /\ ~ backend.active
  /\ Leave([backend EXCEPT !.active = TRUE, !.device = TRUE], desktop, screen)
  /\ UNCHANGED faults /\ NoHotplug

\* The session is active again even if the device cannot be activated.
ActivateSession ==
  LET active == [backend EXCEPT !.active = TRUE]
  IN /\ Idle /\ ~ backend.active
     /\ \/ Fault /\ Leave(active, desktop, screen)
        \/ Render([active EXCEPT !.device = TRUE], desktop, screen)
     /\ NoHotplug

-----------------------------------------------------------------------------
(* Connectors *)

disconnect_output(b) ==
  [b EXCEPT !.frame_pending = FALSE, !.repaint_scheduled = FALSE, !.crtc = None]

\* A connector without modes, or one that cannot be initialised, leaves no output.
connect_output(b, c, s) ==
  \/ seen[c] = "blank" /\ Leave(b, desktop, s) /\ UNCHANGED faults
  \/ /\ seen[c] # "blank" /\ Leave(b, desktop, s)
     /\ Fault \/ (~ b.device /\ UNCHANGED faults)
  \/ /\ seen[c] # "blank"
     /\ Render([b EXCEPT !.crtc = c, !.repaint_scheduled = TRUE], desktop,
               [s EXCEPT !.damage = TRUE, !.shown = None])

\* One event of the rescan.
HandleHotplug(event) ==
  LET action == classify_hotplug(backend.crtc, event)
      c == event.connector
  IN /\ scan' = scan \ {event}
     /\ UNCHANGED <<plug, hotplug, seen>>
     /\ \/ action = "Ignore" /\ UNCHANGED <<backend, desktop, screen, faults>>
        \/ action = "Connect" /\ connect_output(backend, c, screen)
        \/ /\ action = "Disconnect"
           /\ \E s \in FlipsLost(screen, {c}) :
                Leave(disconnect_output(backend), desktop, [s EXCEPT !.shown = None])
           /\ UNCHANGED faults
        \/ /\ action = "Reconnect"
           /\ \E s \in FlipsLost(screen, {c}) :
                connect_output(disconnect_output(backend), c, [s EXCEPT !.shown = None])

\* udev reports a change of the device: the scanner compares what is plugged in
\* with what it has seen, or fails and remembers what it had.
rescan_connectors ==
  LET Kind(c) == CASE seen[c] = "off" -> "Connected"
                   [] plug[c] = "off" -> "Disconnected"
                   [] OTHER           -> "Changed"
  IN /\ Idle /\ hotplug
     /\ hotplug' = FALSE
     /\ \/ /\ scan' = { [connector |-> c, kind |-> Kind(c)] :
                          c \in { d \in Connectors : seen[d] # plug[d] } }
           /\ seen' = plug
           /\ UNCHANGED faults
        \/ Fault /\ UNCHANGED <<scan, seen>>
     /\ UNCHANGED <<plug, backend, desktop, screen>>

\* A cable is plugged in or pulled, a monitor wakes up or changes its modes.
Plug(c, v) ==
  /\ plug[c] # v
  /\ plug' = [plug EXCEPT ![c] = v]
  /\ hotplug' = TRUE
  /\ UNCHANGED <<seen, scan, backend, desktop, screen, faults>>

-----------------------------------------------------------------------------
(* Who asks for frames *)

\* A surface of a scene commits a buffer and asks for a frame callback; it waits
\* for the callback before it commits again.
Commit(scene) ==
  /\ Idle /\ scene \notin desktop.waiting
  /\ scene = "SessionLock" => desktop.session_locked
  /\ desktop' = Woken([desktop EXCEPT !.waiting = @ \cup {scene}])
  /\ screen' = IF scene = direct_scene(desktop) THEN Damaged(screen) ELSE screen
  /\ UNCHANGED <<backend, faults>> /\ NoHotplug

\* Work that only render does (a DMA-BUF import, the end of a close transition,
\* a click whose deadline passes) or an animation started over IPC: these
\* handlers wake nobody.
Defer ==
  /\ Idle
  /\ \E moves \in BOOLEAN :
       desktop' = [desktop EXCEPT !.deferred = TRUE, !.animating = @ \/ moves]
  /\ UNCHANGED <<backend, screen, faults>> /\ NoHotplug

\* A locker asks for the lock, possibly after another one has vanished.  The
\* scene changes if the desktop was shown or the other locker's surfaces were.
Lock ==
  /\ Idle
  /\ desktop' = Woken([desktop EXCEPT !.session_locked = TRUE, !.pending_session_lock = TRUE,
                                      !.waiting = @ \ {"SessionLock"}])
  /\ screen' \in {Damaged(screen)} \cup IF desktop.session_locked THEN {screen} ELSE {}
  /\ UNCHANGED <<backend, faults>> /\ NoHotplug

\* Only a confirmed lock can be undone.
Unlock ==
  /\ Idle /\ desktop.session_locked /\ ~ desktop.pending_session_lock
  /\ desktop' = Woken([desktop EXCEPT !.session_locked = FALSE, !.pending_session_lock = FALSE,
                                      !.waiting = @ \ {"SessionLock"}])
  /\ screen' = Damaged(screen)
  /\ UNCHANGED <<backend, faults>> /\ NoHotplug

-----------------------------------------------------------------------------
FrameStep == RepaintTimer \/ Redraw \/ \E c \in Connectors : VBlank(c)

HotplugStep == rescan_connectors \/ \E event \in scan : HandleHotplug(event)

Outside ==
  \/ Input \/ PauseSession \/ ActivateSession
  \/ \E c \in Connectors, v \in Plugged : Plug(c, v)
  \/ \E scene \in Scene : Commit(scene)
  \/ Defer \/ Lock \/ Unlock

Next == FrameStep \/ HotplugStep \/ Outside

\* The event loop polls its timer and its channel, udev and the kernel deliver.
Fairness ==
  /\ WF_vars(RepaintTimer) /\ WF_vars(Redraw)
  /\ WF_vars(rescan_connectors) /\ WF_vars(\E event \in scan : HandleHotplug(event))
  /\ \A c \in Connectors : WF_vars(VBlank(c))

Spec == Init /\ [][Next]_vars

FairSpec == Spec /\ Fairness
=============================================================================
