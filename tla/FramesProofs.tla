----------------------------- MODULE FramesProofs -----------------------------
(***************************************************************************)
(* The frame loop and the connectors keep their promises for any number of *)
(* connectors, failures and wakes.                                         *)
(***************************************************************************)
EXTENDS FramesProperties, TLAPS

\* What render relies on, and leaves behind: b, d and s are typed, a pending frame
\* is owed a page flip, an active session has its device until a call fails, and
\* the last frame of a confirmed lock shows it.
Sound(b, d, s, failed) ==
  /\ b \in BackendState /\ d \in DesktopState /\ s \in ScreenState
  /\ d.pending_session_lock \/ "SessionLock" \in d.waiting => d.session_locked
  /\ b.frame_pending => b.active /\ b.crtc # None /\ s.flips[b.crtc] > 0
  /\ b.active /\ failed = 0 => b.device
  /\ d.session_locked /\ ~ d.pending_session_lock => s.shown \in {"SessionLock", None}

Rearmed(b, d, s, failed) ==
  b.active /\ b.crtc # None /\ failed = 0 =>
    b.repaint_scheduled \/ d.redraws > 0 \/ s.flips[b.crtc] > 0

\* Events of a rescan are new: one for each connector, and a connector in use is
\* not announced as connected.
ScanSound ==
  /\ plug \in [Connectors -> Plugged] /\ seen \in [Connectors -> Plugged]
  /\ hotplug \in BOOLEAN
  /\ scan \in SUBSET HotplugEvent
  /\ \A e, f \in scan : e.connector = f.connector => e = f
  /\ \A e \in scan : /\ (e.kind = "Disconnected") <=> (seen[e.connector] = "off")
                     /\ e.kind = "Connected" => backend.crtc # e.connector
  /\ OutputPlugged

FrameInv ==
  /\ Sound(backend, desktop, screen, faults)
  /\ Rearmed(backend, desktop, screen, faults)
  /\ faults \in 0 .. MaxFaults

Inv == FrameInv /\ ScanSound

-----------------------------------------------------------------------------
(* Drawing *)

\* Whatever comes of a frame, render leaves the loop armed and the connector alone.
LEMMA RenderSound ==
  ASSUME NEW b, NEW d, NEW s, Sound(b, d, s, faults), faults \in 0 .. MaxFaults,
         Render(b, d, s)
  PROVE  /\ Sound(backend', desktop', screen', faults')
         /\ Rearmed(backend', desktop', screen', faults')
         /\ faults' \in 0 .. MaxFaults
         /\ backend'.crtc = b.crtc
<1>1. CASE ~ Drawable(b) /\ Leave(b, d, s) /\ UNCHANGED faults
  BY <1>1, BoundAssumption DEF Sound, Rearmed, Leave, Drawable, BackendState, ScreenState
<1>2. CASE Drawable(b) /\ \E moves, cursor \in BOOLEAN : Draw(b, Advanced(d, moves), s, cursor)
  <2>0. PICK moves \in BOOLEAN, cursor \in BOOLEAN : Draw(b, Advanced(d, moves), s, cursor)
    BY <1>2
  <2> DEFINE advanced == Advanced(d, moves)
             armed == Scheduled(b, advanced, cursor)
  <2> HIDE DEF armed, advanced
  <2>1. /\ Sound(armed, advanced, s, faults) /\ Drawable(armed) /\ armed.crtc = b.crtc
        /\ Sound(b, advanced, s, faults)
    <3>1. b \in BackendState /\ d \in DesktopState
      BY DEF Sound
    <3>2. /\ armed \in BackendState
          /\ armed.active = b.active /\ armed.device = b.device /\ armed.crtc = b.crtc
          /\ armed.frame_pending = b.frame_pending
      BY <3>1 DEF BackendState, armed, Scheduled
    <3>3. /\ advanced \in DesktopState
          /\ advanced.session_locked = d.session_locked /\ advanced.waiting = d.waiting
          /\ advanced.pending_session_lock = d.pending_session_lock
      BY <3>1 DEF DesktopState, advanced, Advanced
    <3> QED BY <3>2, <3>3, <1>2 DEF Sound, Drawable
  <2>2. \/ QueueFrame(armed, advanced, s)
        \/ EmptyFrame(armed, advanced, s)
        \/ FailedFrame(armed, advanced, s)
        \/ Fault /\ Leave(b, advanced, s)
    BY <2>0 DEF Draw, armed, advanced
  <2>3. CASE QueueFrame(armed, advanced, s)
    <3>1. /\ armed \in BackendState /\ advanced \in DesktopState /\ s \in ScreenState
          /\ armed.crtc \in Connectors /\ armed.active
      BY <2>1 DEF Sound, Drawable, BackendState
    <3>2. /\ backend' \in BackendState /\ backend'.crtc = armed.crtc /\ backend'.active
          /\ backend'.device
      BY <2>3, <3>1 DEF QueueFrame, Leave, BackendState
    <3>3. /\ desktop' \in DesktopState /\ desktop'.session_locked = advanced.session_locked
          /\ desktop'.waiting = advanced.waiting
          /\ desktop'.pending_session_lock => advanced.pending_session_lock
      BY <2>3, <3>1 DEF QueueFrame, Leave, DesktopState
    <3>4. /\ screen' \in ScreenState /\ screen'.flips[armed.crtc] > 0
          /\ screen'.shown = direct_scene(advanced)
      BY <2>3, <3>1, BoundAssumption DEF QueueFrame, Leave, ScreenState, direct_scene, Scene
    <3>5. faults' = faults
      BY <2>3 DEF QueueFrame
    <3> QED
      BY <2>1, <3>1, <3>2, <3>3, <3>4, <3>5, NoneAssumption
      DEF Sound, Rearmed, direct_scene
  <2>4. CASE EmptyFrame(armed, advanced, s)
    <3>1. /\ backend' = [armed EXCEPT !.repaint_scheduled = TRUE]
          /\ desktop' = advanced /\ screen' = s /\ faults' = faults
      BY <2>4 DEF EmptyFrame, Leave
    <3>2. /\ backend' \in BackendState /\ backend'.repaint_scheduled
          /\ backend'.active = armed.active /\ backend'.device = armed.device
          /\ backend'.crtc = armed.crtc /\ backend'.frame_pending = armed.frame_pending
      BY <2>1, <3>1 DEF Sound, BackendState
    <3> QED BY <2>1, <3>1, <3>2 DEF Sound, Rearmed
  <2>5. CASE FailedFrame(armed, advanced, s)
    <3>1. backend' = armed /\ desktop' = advanced /\ screen' = s
      BY <2>5 DEF FailedFrame, Leave
    <3>2. \/ faults' = faults + 1 /\ faults < MaxFaults
          \/ faults' = faults /\ (~ armed.device \/ s.flips[armed.crtc] > 0)
      BY <2>5 DEF FailedFrame, Fault
    <3> QED BY <2>1, <3>1, <3>2, BoundAssumption DEF Sound, Rearmed
  <2>6. CASE Fault /\ Leave(b, advanced, s)
    BY <2>1, <2>6, BoundAssumption DEF Sound, Rearmed, Fault, Leave
  <2> QED BY <2>2, <2>3, <2>4, <2>5, <2>6
<1> QED BY <1>1, <1>2 DEF Render

-----------------------------------------------------------------------------
(* The event sources *)

LEMMA LoopSound ==
  ASSUME FrameInv, FrameStep
  PROVE  FrameInv' /\ backend'.crtc = backend.crtc
<1> USE DEF FrameInv
<1>1. CASE RepaintTimer
  <2>1. Sound([backend EXCEPT !.repaint_scheduled = FALSE], CallbacksSent(backend, desktop),
              screen, faults)
    BY DEF Sound, CallbacksSent, BackendState, DesktopState
  <2> QED BY <1>1, <2>1, RenderSound DEF RepaintTimer, Sound, BackendState
<1>2. CASE Redraw
  <2>1. Sound(backend, [desktop EXCEPT !.redraws = @ - 1], screen, faults)
    BY <1>2, BoundAssumption DEF Redraw, Sound, DesktopState
  <2> QED BY <1>2, <2>1, RenderSound DEF Redraw
<1>3. ASSUME NEW c \in Connectors, VBlank(c)
      PROVE  FrameInv' /\ backend'.crtc = backend.crtc
  <2> DEFINE submitted == [backend EXCEPT !.frame_pending = FALSE]
             flipped == [screen EXCEPT !.flips[c] = @ - 1]
  <2>1. /\ screen \in ScreenState /\ screen.flips[c] \in 0 .. MaxFlips /\ screen.flips[c] > 0
        /\ backend \in BackendState
    BY <1>3 DEF VBlank, Sound, ScreenState
  <2>2. /\ flipped \in ScreenState
        /\ flipped.shown = screen.shown
        /\ \A e \in Connectors : e # c => flipped.flips[e] = screen.flips[e]
    BY <2>1, BoundAssumption DEF ScreenState
  <2>3. /\ submitted \in BackendState /\ ~ submitted.frame_pending
        /\ submitted.active = backend.active /\ submitted.device = backend.device
        /\ submitted.crtc = backend.crtc
    BY <2>1 DEF BackendState
  <2>4. Sound(submitted, desktop, flipped, faults)
    BY <2>2, <2>3 DEF Sound
  <2>5. CASE c # backend.crtc /\ Leave(backend, desktop, flipped) /\ UNCHANGED faults
    <3> HIDE DEF flipped
    <3> QED BY <2>1, <2>2, <2>5 DEF Sound, Rearmed, Leave, BackendState
  <2>6. CASE Fault /\ Leave(submitted, desktop, flipped)
    <3>1. faults' \in 0 .. MaxFaults /\ faults' # 0
      BY <2>6, BoundAssumption DEF Fault
    <3> HIDE DEF flipped, submitted
    <3> QED BY <2>3, <2>4, <2>6, <3>1 DEF Sound, Rearmed, Leave
  <2>7. CASE Render(submitted, CallbacksSent(submitted, desktop), flipped)
    <3>1. Sound(submitted, CallbacksSent(submitted, desktop), flipped, faults)
      <4> HIDE DEF submitted, flipped
      <4> QED BY <2>4 DEF Sound, CallbacksSent, DesktopState
    <3> QED BY <3>1, <2>3, <2>7, RenderSound
  <2> QED BY <1>3, <2>5, <2>6, <2>7 DEF VBlank
<1> QED BY <1>1, <1>2, <1>3 DEF FrameStep

LEMMA SessionSound ==
  ASSUME FrameInv, Input \/ PauseSession \/ ActivateSession
  PROVE  FrameInv' /\ backend'.crtc = backend.crtc
<1> USE DEF FrameInv
<1>1. CASE Input
  <2>1. PICK moves \in BOOLEAN, visible \in BOOLEAN :
          Render(backend, [desktop EXCEPT !.animating = @ \/ moves],
                 [screen EXCEPT !.damage = @ \/ visible])
    BY <1>1 DEF Input
  <2>2. Sound(backend, [desktop EXCEPT !.animating = @ \/ moves],
              [screen EXCEPT !.damage = @ \/ visible], faults)
    BY DEF Sound, DesktopState, ScreenState
  <2> QED BY <2>1, <2>2, RenderSound
<1>2. CASE PauseSession
  <2>1. /\ backend' \in BackendState /\ ~ backend'.active /\ ~ backend'.frame_pending
        /\ backend'.crtc = backend.crtc
    BY <1>2 DEF PauseSession, Sound, BackendState
  <2>2. screen' \in ScreenState /\ screen'.shown = screen.shown
    BY <1>2 DEF PauseSession, FlipsLost, Sound, ScreenState
  <2> QED BY <1>2, <2>1, <2>2 DEF PauseSession, Sound, Rearmed
<1>3. CASE ActivateSession
  <2> DEFINE active == [backend EXCEPT !.active = TRUE]
  <2>1. /\ active \in BackendState /\ active.crtc = backend.crtc
        /\ ~ active.frame_pending
    BY <1>3 DEF ActivateSession, Sound, BackendState
  <2>2. CASE Fault /\ Leave(active, desktop, screen)
    <3>1. faults' \in 0 .. MaxFaults /\ faults' # 0
      BY <2>2, BoundAssumption DEF Fault
    <3> HIDE DEF active
    <3> QED BY <2>1, <2>2, <3>1 DEF Sound, Rearmed, Leave
  <2>3. CASE Render([active EXCEPT !.device = TRUE], desktop, screen)
    <3>1. /\ [active EXCEPT !.device = TRUE] \in BackendState
          /\ [active EXCEPT !.device = TRUE].crtc = active.crtc
          /\ ~ [active EXCEPT !.device = TRUE].frame_pending
          /\ [active EXCEPT !.device = TRUE].device
      BY <2>1 DEF BackendState
    <3>2. Sound([active EXCEPT !.device = TRUE], desktop, screen, faults)
      BY <3>1 DEF Sound
    <3> QED BY <2>1, <2>3, <3>1, <3>2, RenderSound
  <2> QED BY <1>3, <2>2, <2>3 DEF ActivateSession
<1> QED BY <1>1, <1>2, <1>3

\* Whoever asks for a frame leaves the backend alone.
LEMMA RequestSound ==
  ASSUME FrameInv, (\E scene \in Scene : Commit(scene)) \/ Defer \/ Lock \/ Unlock
  PROVE  FrameInv' /\ backend' = backend
<1> USE DEF FrameInv
<1>1. ASSUME NEW d \in DesktopState
      PROVE  /\ Woken(d) \in DesktopState
             /\ Woken(d).session_locked = d.session_locked
             /\ Woken(d).pending_session_lock = d.pending_session_lock
             /\ Woken(d).waiting = d.waiting
             /\ Woken(d).redraws >= d.redraws
  BY BoundAssumption DEF Woken, DesktopState
<1>2. /\ Damaged(screen) \in ScreenState /\ Damaged(screen).shown = screen.shown
      /\ Damaged(screen).flips = screen.flips
  BY DEF Damaged, Sound, ScreenState
<1>3. ASSUME NEW d \in DesktopState, d.redraws >= desktop.redraws,
             backend' = backend, faults' = faults, desktop' = d,
             screen' \in ScreenState, screen'.flips = screen.flips,
             d.pending_session_lock \/ "SessionLock" \in d.waiting => d.session_locked,
             d.session_locked /\ ~ d.pending_session_lock =>
               screen'.shown \in {"SessionLock", None}
      PROVE  FrameInv'
  <2>1. desktop.redraws \in Nat /\ d.redraws \in Nat
    BY BoundAssumption DEF Sound, DesktopState
  <2> QED BY <1>3, <2>1 DEF Sound, Rearmed
<1>4. ASSUME NEW scene \in Scene, Commit(scene)
      PROVE  FrameInv' /\ backend' = backend
  <2> DEFINE d == [desktop EXCEPT !.waiting = @ \cup {scene}]
  <2>1. /\ d \in DesktopState /\ d.session_locked = desktop.session_locked
        /\ d.pending_session_lock = desktop.pending_session_lock
        /\ d.redraws = desktop.redraws /\ d.waiting = desktop.waiting \cup {scene}
    BY DEF Sound, DesktopState
  <2>2. /\ backend' = backend /\ faults' = faults /\ desktop' = Woken(d)
        /\ screen' \in {screen, Damaged(screen)}
        /\ scene = "SessionLock" => desktop.session_locked
    BY <1>4 DEF Commit
  <2> HIDE DEF d
  <2>3. screen' \in ScreenState /\ screen'.flips = screen.flips /\ screen'.shown = screen.shown
    BY <1>2, <2>2 DEF Sound
  <2> QED BY <1>1, <1>3, <2>1, <2>2, <2>3 DEF Sound
<1>5. CASE Defer
  <2>1. /\ desktop' \in DesktopState /\ desktop'.session_locked = desktop.session_locked
        /\ desktop'.pending_session_lock = desktop.pending_session_lock
        /\ desktop'.redraws = desktop.redraws /\ desktop'.waiting = desktop.waiting
    BY <1>5 DEF Defer, Sound, DesktopState
  <2> QED BY <1>5, <2>1 DEF Defer, Sound, Rearmed
<1>6. CASE Lock
  <2> DEFINE d == [desktop EXCEPT !.session_locked = TRUE, !.pending_session_lock = TRUE,
                                  !.waiting = @ \ {"SessionLock"}]
  <2>1. /\ d \in DesktopState /\ d.session_locked /\ d.pending_session_lock
        /\ d.redraws = desktop.redraws
    BY DEF Sound, DesktopState
  <2>2. /\ backend' = backend /\ faults' = faults /\ desktop' = Woken(d)
        /\ screen' \in {screen, Damaged(screen)}
    BY <1>6 DEF Lock
  <2> HIDE DEF d
  <2>3. screen' \in ScreenState /\ screen'.flips = screen.flips
    BY <1>2, <2>2 DEF Sound
  <2> QED BY <1>1, <1>3, <2>1, <2>2, <2>3
<1>7. CASE Unlock
  <2> DEFINE d == [desktop EXCEPT !.session_locked = FALSE, !.pending_session_lock = FALSE,
                                  !.waiting = @ \ {"SessionLock"}]
  <2>1. /\ d \in DesktopState /\ ~ d.session_locked /\ ~ d.pending_session_lock
        /\ d.redraws = desktop.redraws /\ "SessionLock" \notin d.waiting
    BY DEF Sound, DesktopState
  <2>2. /\ backend' = backend /\ faults' = faults /\ desktop' = Woken(d)
        /\ screen' = Damaged(screen)
    BY <1>7 DEF Unlock
  <2> HIDE DEF d
  <2> QED BY <1>1, <1>2, <1>3, <2>1, <2>2
<1> QED BY <1>4, <1>5, <1>6, <1>7

-----------------------------------------------------------------------------
(* Connectors *)

\* Connecting an output renders, or leaves the backend as it was.
LEMMA ConnectSound ==
  ASSUME NEW b, NEW c \in Connectors, NEW s, b.crtc = None,
         Sound(b, desktop, s, faults), faults \in 0 .. MaxFaults,
         connect_output(b, c, s)
  PROVE  /\ FrameInv'
         /\ \/ backend'.crtc = None
            \/ backend'.crtc = c /\ seen[c] # "blank"
<1>1. CASE Leave(b, desktop, s) /\ (UNCHANGED faults \/ Fault)
  BY <1>1, BoundAssumption DEF FrameInv, Sound, Rearmed, Leave, Fault
<1>2. CASE /\ seen[c] # "blank"
           /\ Render([b EXCEPT !.crtc = c, !.repaint_scheduled = TRUE], desktop,
                     [s EXCEPT !.damage = TRUE, !.shown = None])
  <2>1. /\ [b EXCEPT !.crtc = c, !.repaint_scheduled = TRUE] \in BackendState
        /\ [b EXCEPT !.crtc = c, !.repaint_scheduled = TRUE].crtc = c
        /\ ~ [b EXCEPT !.crtc = c, !.repaint_scheduled = TRUE].frame_pending
        /\ [b EXCEPT !.crtc = c, !.repaint_scheduled = TRUE].active = b.active
        /\ [b EXCEPT !.crtc = c, !.repaint_scheduled = TRUE].device = b.device
    BY DEF Sound, BackendState
  <2>2. /\ [s EXCEPT !.damage = TRUE, !.shown = None] \in ScreenState
        /\ [s EXCEPT !.damage = TRUE, !.shown = None].shown = None
    BY DEF Sound, ScreenState
  <2>3. Sound([b EXCEPT !.crtc = c, !.repaint_scheduled = TRUE], desktop,
              [s EXCEPT !.damage = TRUE, !.shown = None], faults)
    BY <2>1, <2>2 DEF Sound
  <2> QED BY <1>2, <2>1, <2>3, RenderSound DEF FrameInv
<1> QED BY <1>1, <1>2 DEF connect_output

\* What one event does to the output in use.
LEMMA HotplugSound ==
  ASSUME FrameInv, NEW event \in HotplugEvent, HandleHotplug(event)
  PROVE  /\ FrameInv'
         /\ \/ backend'.crtc = backend.crtc
               /\ ~ (event.kind \in {"Disconnected", "Changed"} /\ backend.crtc = event.connector)
            \/ /\ event.kind = "Disconnected" /\ backend.crtc = event.connector
               /\ backend'.crtc = None
            \/ /\ \/ event.kind = "Connected" /\ backend.crtc = None
                  \/ event.kind = "Changed" /\ backend.crtc = event.connector
               /\ \/ backend'.crtc = None
                  \/ backend'.crtc = event.connector /\ seen[event.connector] # "blank"
<1> DEFINE action == classify_hotplug(backend.crtc, event)
           c == event.connector
<1>0. c \in Connectors /\ None \notin Connectors
  BY NoneAssumption DEF HotplugEvent
<1>1. /\ disconnect_output(backend) \in BackendState
      /\ disconnect_output(backend).crtc = None
      /\ ~ disconnect_output(backend).frame_pending
      /\ disconnect_output(backend).active = backend.active
      /\ disconnect_output(backend).device = backend.device
  BY DEF disconnect_output, FrameInv, Sound, BackendState
<1>2. ASSUME NEW s \in FlipsLost(screen, {c})
      PROVE  /\ [s EXCEPT !.shown = None] \in ScreenState
             /\ [s EXCEPT !.shown = None].shown = None
  BY DEF FlipsLost, FrameInv, Sound, ScreenState
<1>3. ASSUME NEW s \in FlipsLost(screen, {c})
      PROVE  Sound(disconnect_output(backend), desktop, [s EXCEPT !.shown = None], faults)
  BY <1>1, <1>2 DEF FrameInv, Sound
<1>4. CASE action = "Ignore" /\ UNCHANGED <<backend, desktop, screen, faults>>
  <2>1. ~ (event.kind \in {"Disconnected", "Changed"} /\ backend.crtc = c)
    BY <1>4 DEF classify_hotplug
  <2> QED BY <1>4, <2>1 DEF FrameInv, Sound, Rearmed
<1>5. CASE action = "Connect" /\ connect_output(backend, c, screen)
  <2>1. event.kind = "Connected" /\ backend.crtc = None
    BY <1>5 DEF classify_hotplug
  <2> QED BY <1>0, <1>5, <2>1, ConnectSound DEF FrameInv
<1>6. CASE /\ action = "Disconnect"
           /\ \E s \in FlipsLost(screen, {c}) :
                Leave(disconnect_output(backend), desktop, [s EXCEPT !.shown = None])
           /\ UNCHANGED faults
  <2>1. event.kind = "Disconnected" /\ backend.crtc = c
    BY <1>6 DEF classify_hotplug
  <2>2. PICK s \in FlipsLost(screen, {c}) :
          Leave(disconnect_output(backend), desktop, [s EXCEPT !.shown = None])
    BY <1>6
  <2>3. Sound(backend', desktop', screen', faults') /\ backend'.crtc = None
    BY <1>1, <1>3, <1>6, <2>2 DEF Leave
  <2> QED BY <1>6, <2>1, <2>3 DEF FrameInv, Rearmed
<1>7. CASE /\ action = "Reconnect"
           /\ \E s \in FlipsLost(screen, {c}) :
                connect_output(disconnect_output(backend), c, [s EXCEPT !.shown = None])
  <2>1. event.kind = "Changed" /\ backend.crtc = c
    BY <1>7 DEF classify_hotplug
  <2>2. PICK s \in FlipsLost(screen, {c}) :
          connect_output(disconnect_output(backend), c, [s EXCEPT !.shown = None])
    BY <1>7
  <2>3. Sound(disconnect_output(backend), desktop, [s EXCEPT !.shown = None], faults)
    BY <1>3
  <2> QED BY <1>0, <1>1, <2>1, <2>2, <2>3, ConnectSound DEF FrameInv
<1> QED BY <1>4, <1>5, <1>6, <1>7 DEF HandleHotplug

LEMMA InitInv == Init => Inv
<1> SUFFICES ASSUME Init PROVE Inv
  OBVIOUS
<1>1. FrameInv
  BY BoundAssumption DEF Init, FrameInv, Sound, Rearmed, BackendState, DesktopState, ScreenState,
     Scene
<1>2. \/ scan = {}
      \/ \E c \in Connectors : plug[c] # "off" /\ scan = {[connector |-> c, kind |-> "Connected"]}
  BY DEF Init
<1>3. backend.crtc = None /\ seen = plug /\ plug \in [Connectors -> Plugged] /\ hotplug = FALSE
  BY DEF Init
<1>4. ASSUME scan = {} PROVE ScanSound
  <2>1. scan \in SUBSET HotplugEvent /\ \A e \in scan : FALSE
    BY <1>4
  <2>2. OutputPlugged
    BY <1>3 DEF OutputPlugged
  <2> QED BY <1>3, <2>1, <2>2 DEF ScanSound
<1>5. ASSUME NEW c \in Connectors, plug[c] # "off",
             scan = {[connector |-> c, kind |-> "Connected"]}
      PROVE  ScanSound
  <2>1. \A e \in scan : e.connector = c /\ e.kind = "Connected" /\ e \in HotplugEvent
    BY <1>5 DEF HotplugEvent
  <2>2. scan \in SUBSET HotplugEvent /\ \A e, f \in scan : e = f
    BY <1>5, <2>1
  <2>3. OutputPlugged
    BY <1>3 DEF OutputPlugged
  <2> QED BY <1>3, <1>5, <2>1, <2>2, <2>3, NoneAssumption DEF ScanSound
<1> QED BY <1>1, <1>2, <1>4, <1>5 DEF Inv

\* Steps that leave the connectors and the output alone.
LEMMA SameOutput ==
  ASSUME ScanSound, backend'.crtc = backend.crtc, NoHotplug
  PROVE  ScanSound'
BY DEF ScanSound, OutputPlugged, NoHotplug

LEMMA StepInv == Inv /\ [Next]_vars => Inv'
<1> SUFFICES ASSUME Inv, [Next]_vars PROVE Inv'
  OBVIOUS
<1> USE DEF Inv
<1>1. CASE FrameStep
  <2>1. NoHotplug
    BY <1>1 DEF FrameStep, RepaintTimer, Redraw, VBlank
  <2> QED BY <1>1, <2>1, LoopSound, SameOutput
<1>2. CASE Input \/ PauseSession \/ ActivateSession
  <2>1. NoHotplug
    BY <1>2 DEF Input, PauseSession, ActivateSession
  <2> QED BY <1>2, <2>1, SessionSound, SameOutput
<1>3. CASE (\E scene \in Scene : Commit(scene)) \/ Defer \/ Lock \/ Unlock
  <2>1. NoHotplug
    BY <1>3 DEF Commit, Defer, Lock, Unlock
  <2> QED BY <1>3, <2>1, RequestSound, SameOutput
<1>4. ASSUME NEW c \in Connectors, NEW v \in Plugged, Plug(c, v)
      PROVE  Inv'
  <2>1. FrameInv'
    BY <1>4 DEF Plug, FrameInv, Sound, Rearmed
  <2>2. ScanSound'
    BY <1>4 DEF Plug, ScanSound, OutputPlugged
  <2> QED BY <2>1, <2>2
<1>5. CASE rescan_connectors
  <2>1. FrameInv'
    BY <1>5, BoundAssumption DEF rescan_connectors, Fault, FrameInv, Sound, Rearmed
  <2>2. CASE UNCHANGED <<scan, seen>>
    BY <1>5, <2>1, <2>2 DEF rescan_connectors, ScanSound, OutputPlugged
  <2>3. CASE ~ UNCHANGED <<scan, seen>>
    <3> DEFINE Kind(c) == CASE seen[c] = "off" -> "Connected"
                            [] plug[c] = "off" -> "Disconnected"
                            [] OTHER           -> "Changed"
    <3>1. /\ scan' = { [connector |-> c, kind |-> Kind(c)] :
                         c \in { d \in Connectors : seen[d] # plug[d] } }
          /\ seen' = plug /\ plug' = plug /\ backend' = backend /\ hotplug' = FALSE
          /\ scan = {}
      BY <1>5, <2>3 DEF rescan_connectors, Idle
    <3>2. ASSUME NEW e \in scan'
          PROVE  /\ e.connector \in Connectors /\ seen[e.connector] # plug[e.connector]
                 /\ e = [connector |-> e.connector, kind |-> Kind(e.connector)]
                 /\ e.kind = Kind(e.connector)
      BY <3>1
    <3>3. ASSUME NEW c \in Connectors, seen[c] # plug[c]
          PROVE  /\ Kind(c) \in {"Connected", "Disconnected", "Changed"}
                 /\ (Kind(c) = "Disconnected") <=> (plug[c] = "off")
                 /\ Kind(c) = "Connected" => backend.crtc # c
      BY <3>1, <3>3, NoneAssumption DEF ScanSound, OutputPlugged
    <3>4. scan' \in SUBSET HotplugEvent
      BY <3>2, <3>3 DEF HotplugEvent
    <3>5. \A e, f \in scan' : e.connector = f.connector => e = f
      BY <3>2
    <3>6. \A e \in scan' : /\ (e.kind = "Disconnected") <=> (seen'[e.connector] = "off")
                           /\ e.kind = "Connected" => backend'.crtc # e.connector
      BY <3>1, <3>2, <3>3
    <3>7. OutputPlugged'
      <4> SUFFICES ASSUME backend.crtc # None,
                          \A event \in scan' : event.connector # backend.crtc
                   PROVE  plug[backend.crtc] \in {"modes", "other"}
        BY <3>1 DEF OutputPlugged
      <4>1. backend.crtc \in Connectors
        BY DEF FrameInv, Sound, BackendState
      <4>2. seen[backend.crtc] \in {"modes", "other"}
        BY <3>1 DEF ScanSound, OutputPlugged
      <4>3. seen[backend.crtc] = plug[backend.crtc]
        <5>1. [connector |-> backend.crtc, kind |-> Kind(backend.crtc)] \notin scan'
          OBVIOUS
        <5> QED BY <3>1, <4>1, <5>1
      <4> QED BY <4>2, <4>3
    <3> QED BY <3>1, <3>4, <3>5, <3>6, <3>7, <2>1 DEF ScanSound
  <2> QED BY <2>1, <2>2, <2>3
<1>6. ASSUME NEW event \in scan, HandleHotplug(event)
      PROVE  Inv'
  <2>1. /\ event \in HotplugEvent /\ event.connector \in Connectors
        /\ event.kind \in {"Connected", "Disconnected", "Changed"}
    BY DEF ScanSound, HotplugEvent
  <2>2. scan' = scan \ {event} /\ plug' = plug /\ hotplug' = hotplug /\ seen' = seen
    BY <1>6 DEF HandleHotplug
  <2>3. \A e \in scan' : e \in scan /\ e.connector # event.connector
    BY <2>2 DEF ScanSound
  <2>4. seen[event.connector] \in Plugged
    BY <2>1 DEF ScanSound
  <2>5. FrameInv' /\ (backend'.crtc = backend.crtc \/ backend'.crtc \in {None, event.connector})
    BY <1>6, <2>1, HotplugSound
  <2>6. \A e \in scan' : e.kind = "Connected" => backend'.crtc # e.connector
    <3> SUFFICES ASSUME NEW e \in scan', e.kind = "Connected"
                 PROVE  backend'.crtc # e.connector
      OBVIOUS
    <3>1. e \in HotplugEvent /\ backend.crtc # e.connector /\ event.connector # e.connector
      BY <2>3 DEF ScanSound
    <3>2. e.connector # None
      BY <3>1, NoneAssumption DEF HotplugEvent
    <3> QED BY <2>5, <3>1, <3>2
  <2>7. OutputPlugged'
    <3> SUFFICES ASSUME backend'.crtc # None,
                        \A e \in scan' : e.connector # backend'.crtc
                 PROVE  seen[backend'.crtc] \in {"modes", "other"}
      BY <2>2 DEF OutputPlugged
    <3>1. \/ /\ backend'.crtc = backend.crtc
             /\ ~ (event.kind \in {"Disconnected", "Changed"} /\ backend.crtc = event.connector)
          \/ /\ backend'.crtc = event.connector /\ seen[event.connector] # "blank"
             /\ event.kind # "Disconnected"
      BY <1>6, <2>1, HotplugSound
    <3>2. CASE /\ backend'.crtc = backend.crtc
               /\ ~ (event.kind \in {"Disconnected", "Changed"} /\ backend.crtc = event.connector)
      <4>1. event.connector # backend.crtc
        BY <2>1, <3>2 DEF ScanSound
      <4> QED BY <2>2, <3>2, <4>1 DEF ScanSound, OutputPlugged
    <3>3. CASE /\ backend'.crtc = event.connector /\ seen[event.connector] # "blank"
               /\ event.kind # "Disconnected"
      BY <2>4, <3>3 DEF ScanSound, Plugged
    <3> QED BY <3>1, <3>2, <3>3
  <2>8. ScanSound'
    BY <2>2, <2>3, <2>6, <2>7 DEF ScanSound
  <2> QED BY <2>5, <2>8
<1>7. CASE UNCHANGED vars
  BY <1>7 DEF vars, FrameInv, Sound, Rearmed, ScanSound, OutputPlugged
<1> QED BY <1>1, <1>2, <1>3, <1>4, <1>5, <1>6, <1>7 DEF Next, Outside, HotplugStep

LEMMA AlwaysInv == Spec => []Inv
<1> QED BY InitInv, StepInv, PTL DEF Spec

-----------------------------------------------------------------------------
(* The promises *)

\* The state is well typed, locks and rescans are consistent.
THEOREM FramesTypeCorrect == Spec => []FramesTypeOK
<1>1. Inv => FramesTypeOK
  BY DEF Inv, FrameInv, Sound, ScanSound, FramesTypeOK
<1> QED BY <1>1, AlwaysInv, PTL

\* Whenever render waits for a page flip, the kernel owes one of the present CRTC.
THEOREM FlipsAreOwed == Spec => []PendingHasFlip
<1>1. Inv => PendingHasFlip
  BY DEF Inv, FrameInv, Sound, PendingHasFlip, Usable
<1> QED BY <1>1, AlwaysInv, PTL

\* Until a call fails, an output that can be drawn on is going to be drawn on again.
THEOREM LoopStaysArmed == Spec => []LoopArmed
<1>1. Inv => LoopArmed
  BY DEF Inv, FrameInv, Rearmed, LoopArmed, Usable
<1> QED BY <1>1, AlwaysInv, PTL

\* A confirmed lock has been shown by the last frame.
THEOREM LocksAreShown == Spec => []LockShown
<1>1. Inv => LockShown
  BY DEF Inv, FrameInv, Sound, LockShown
<1> QED BY <1>1, AlwaysInv, PTL

\* The output in use belongs to a monitor that is there and has modes.
THEOREM OutputsArePlugged == Spec => []OutputPlugged
<1>1. Inv => OutputPlugged
  BY DEF Inv, ScanSound
<1> QED BY <1>1, AlwaysInv, PTL

\* An output in use is given up only for an event of its own connector.
THEOREM OutputsAreKept == Spec => OutputKept
<1> DEFINE Kept == backend.crtc # None /\ backend'.crtc # backend.crtc =>
                     \E event \in scan \ scan' : event.connector = backend.crtc
<1>1. Inv /\ [Next]_vars => [Kept]_vars
  <2> SUFFICES ASSUME Inv, Next, backend.crtc # None, backend'.crtc # backend.crtc
               PROVE  \E event \in scan \ scan' : event.connector = backend.crtc
    OBVIOUS
  <2> USE DEF Inv
  <2>1. \E event \in scan : HandleHotplug(event)
    <3>1. ~ FrameStep
      BY LoopSound
    <3>2. ~ (Input \/ PauseSession \/ ActivateSession)
      BY SessionSound
    <3>3. ~ ((\E scene \in Scene : Commit(scene)) \/ Defer \/ Lock \/ Unlock)
      BY RequestSound
    <3>4. ~ rescan_connectors /\ ~ \E c \in Connectors, v \in Plugged : Plug(c, v)
      BY DEF rescan_connectors, Plug
    <3> QED BY <3>1, <3>2, <3>3, <3>4 DEF Next, HotplugStep, Outside
  <2>2. PICK event \in scan : HandleHotplug(event)
    BY <2>1
  <2>3. event \in HotplugEvent /\ event \in scan \ scan'
    BY <2>2 DEF HandleHotplug, ScanSound
  <2>4. event.connector = backend.crtc
    BY <2>2, <2>3, HotplugSound
  <2> QED BY <2>3, <2>4
<1> QED BY <1>1, AlwaysInv, PTL DEF Spec, OutputKept
=============================================================================
