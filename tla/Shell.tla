-------------------------------- MODULE Shell --------------------------------
(***************************************************************************)
(* The shell of the compositor (mio-compositor, state.rs and handlers/):   *)
(* which toplevels are managed and how each comes and goes, which window   *)
(* has the focus of the World, and which surface the keyboard belongs to.  *)
(* The two are kept by different hands, and every handler that moves one   *)
(* has to see to the other.                                                *)
(*                                                                         *)
(* Every handler runs to its end on one thread; clients, layers, popups,   *)
(* the lock, the pointer and the IPC clients call them in any order.       *)
(***************************************************************************)
EXTENDS Naturals, Sequences

CONSTANTS
  Windows,        \* the ids the World issues, in some order; none is issued twice
  TopLayers,      \* layer surfaces that hide while a window is fullscreen
  OverlayLayers,  \* layer surfaces that stay
  LockSurface,    \* the surface of the session lock
  None            \* no window, no surface

Layers == TopLayers \cup OverlayLayers

ASSUME ShellAssumption ==
  /\ TopLayers \cap OverlayLayers = {}
  /\ Windows \cap Layers = {}
  /\ LockSurface \notin Windows \cup Layers
  /\ None \notin Windows \cup Layers \cup {LockSurface}

VARIABLES
  world,     \* the World as the shell sees it: windows, focus, who is fullscreen
  managed,   \* managed_windows: a record for each managed id
  issued,    \* the ids that have been issued
  seat,      \* the keyboard: its surface, and whether that is a grabbed popup of it
  layers,    \* where each layer surface is and what keyboard it wants
  lock,      \* session_locked, and whether session_lock_surfaces has one
  camera,    \* a handler has moved the camera since the user last did
  animated   \* the configuration has window transitions

vars == <<world, managed, issued, seat, layers, lock, camera, animated>>

-----------------------------------------------------------------------------
Interactivity == {"None", "OnDemand", "Exclusive"}

\* popup: the keyboard's surface is a popup of seat.focus which holds the grab,
\* or held it and is gone.
Popup == {"none", "live", "ended"}

NoLayer == [at |-> "none", wants |-> "None", noted |-> "None"]

Init ==
  /\ world = [windows |-> {}, focus |-> None, fullscreen |-> {}]
  /\ managed = << >>
  /\ issued = {}
  /\ seat = [focus |-> None, popup |-> "none"]
  /\ layers = [l \in Layers |-> NoLayer]
  /\ lock = [on |-> FALSE, surface |-> FALSE]
  /\ camera = FALSE
  /\ animated \in BOOLEAN

Ids == DOMAIN managed

-----------------------------------------------------------------------------
(* The World *)

Placed(w, id) ==
  [w EXCEPT !.windows = @ \cup {id}, !.focus = IF @ = None THEN id ELSE @]

\* Mutant: the focus is left on the window that went away.
RemovedKeepingFocus(w, id) == [w EXCEPT !.windows = @ \ {id}, !.fullscreen = @ \ {id}]

Removed(w, id) ==
  [windows    |-> w.windows \ {id},
   focus      |-> IF w.focus = id THEN None ELSE w.focus,
   fullscreen |-> w.fullscreen \ {id}]

\* FocusWindow is refused for a window the World does not have.
FocusedOn(w, id) == IF id \in w.windows THEN [w EXCEPT !.focus = id] ELSE w

-----------------------------------------------------------------------------
(* The keyboard *)

\* A popup that holds the grab keeps the keyboard; one that is gone lets go.
SetFocus(s, surface) ==
  IF s.popup = "live" THEN s ELSE [focus |-> surface, popup |-> "none"]

\* window_id_for_surface(current_focus): popups belong to their window, and a
\* surface that is gone belongs to none.
KeyWindow(s) == IF s.focus \in Ids /\ s.popup # "ended" THEN s.focus ELSE None

\* dismiss_xdg_popup_grab_for_focus_change
DismissPopup(s, id) ==
  IF s.popup # "none" /\ s.focus # id THEN [focus |-> None, popup |-> "none"] ELSE s

\* Mutant: the camera follows every activation.
FollowAlways(previous, id, policy) == policy # "Never"

CameraShouldFollow(previous, id, policy) ==
  policy = "Always" \/ (policy = "OnFocusChange" /\ previous # id)

-----------------------------------------------------------------------------
(* Layers and fullscreen windows *)

\* Mutant: hidden layers come back whoever is still fullscreen.
RefreshedAnyway(ls, fullscreen) ==
  [l \in Layers |->
     CASE ls[l].at = "mapped" /\ l \in TopLayers /\ fullscreen # {} -> [ls[l] EXCEPT !.at = "hidden"]
       [] ls[l].at = "hidden"                                       -> [ls[l] EXCEPT !.at = "mapped"]
       [] OTHER                                                     -> ls[l]]

\* refresh_layer_visibility, at the head of every sync_layout.
Refreshed(ls, fullscreen) ==
  [l \in Layers |->
     CASE ls[l].at = "mapped" /\ l \in TopLayers /\ fullscreen # {} -> [ls[l] EXCEPT !.at = "hidden"]
       [] ls[l].at = "hidden" /\ fullscreen = {}                    -> [ls[l] EXCEPT !.at = "mapped"]
       [] OTHER                                                     -> ls[l]]

Sync(ls) == layers' = Refreshed(ls, world'.fullscreen)

-----------------------------------------------------------------------------
(* Activation *)

\* Mutant: the focus moves although the keyboard did not.
ActivatedWorldOnly(w, s, view, id, policy) ==
  [world |-> FocusedOn(w, id), seat |-> s, camera |-> view, sync |-> TRUE]

\* activate_window_with_camera_policy, for a managed window.  It moves the
\* keyboard first; only when that is granted and the World knows the window does
\* the focus follow, and the camera.
Activated(w, s, view, id, policy) ==
  LET free     == DismissPopup(s, id)
      previous == IF KeyWindow(free) # None THEN KeyWindow(free) ELSE w.focus
      keyed    == SetFocus(free, id)
      done     == keyed.popup = "none" /\ id \in w.windows
  IN  [world  |-> FocusedOn(w, id),
       seat   |-> keyed,
       camera |-> IF done /\ CameraShouldFollow(previous, id, policy) THEN TRUE ELSE view,
       sync   |-> done]

Take(outcome, ls) ==
  /\ world' = outcome.world /\ seat' = outcome.seat /\ camera' = outcome.camera
  /\ IF outcome.sync THEN Sync(ls) ELSE layers' = ls

\* Whoever loses the keyboard gives it to the window the World has focused.
ReturnKeyboard(ls) ==
  IF world.focus # None
  THEN Take(Activated(world, seat, camera, world.focus, "OnFocusChange"), ls)
  ELSE /\ seat' = SetFocus(seat, None)
       /\ layers' = ls
       /\ UNCHANGED <<world, camera>>

ActivateWindow(id, policy) ==
  /\ id \in Ids
  /\ Take(Activated(world, seat, camera, id, policy), layers)
  /\ UNCHANGED <<managed, issued, lock, animated>>

-----------------------------------------------------------------------------
(* Toplevels come *)

\* merge_focus_candidates: the parent, whom it would have returned to, and the
\* fallback, each once.
MergeFocusCandidates(parent, inherited, fallback) ==
  LET chain == (IF parent = None THEN << >> ELSE <<parent>>) \o inherited \o fallback
      merged[n \in 0..Len(chain)] ==
        IF n = 0 THEN << >>
        ELSE IF \E i \in DOMAIN merged[n - 1] : merged[n - 1][i] = chain[n] THEN merged[n - 1]
        ELSE Append(merged[n - 1], chain[n])
  IN  merged[Len(chain)]

\* add_toplevel.  A toplevel has no parent yet when it is created.
NewToplevel(id) ==
  /\ id \notin issued
  /\ issued' = issued \cup {id}
  /\ world' = FocusedOn(Placed(world, id), world.focus)
  /\ managed' = [o \in Ids \cup {id} |-> IF o # id THEN managed[o] ELSE
                   [candidates |-> IF world.focus = None THEN << >> ELSE <<world.focus>>,
                    parent |-> None, floats |-> FALSE, ready |-> FALSE, closing |-> FALSE,
                    deferred |-> FALSE, unseen |-> animated, frozen |-> FALSE]]
  /\ Sync(layers)
  /\ UNCHANGED <<seat, lock, camera, animated>>

\* refresh_auto_floating reads the hints of the client, of which a parent is one.
\* The World may refuse to put a floating window back on the grid.
FloatsAfter(id, parent) ==
  LET wanted == IF parent \in Ids THEN {TRUE} ELSE BOOLEAN
  IN  IF id \notin world.windows THEN {managed[id].floats}
      ELSE wanted \cup { f \in {TRUE} : managed[id].floats }

\* A window that starts to float over the window it belongs to is centred on.
Centres(id, candidates, floats) ==
  /\ floats /\ ~ managed[id].floats /\ world.focus = id
  /\ \E i \in DOMAIN candidates : candidates[i] \in world.windows

\* reset_all_window_presentations: what is drawn of every window starts afresh.  A
\* window that is fading out has no place in the World to start from, and is
\* animated no more; it counts as invisible only if it has not yet been drawn.
Frozen(m) ==
  IF ~ m.closing \/ m.frozen THEN {m.frozen}
  ELSE IF ~ m.unseen THEN {TRUE}
  ELSE {FALSE, m.ready}

ResetPresentations(ms) ==
  { [id \in DOMAIN ms |-> [ms[id] EXCEPT !.frozen = frozen[id]]] :
      frozen \in { f \in [DOMAIN ms -> BOOLEAN] : \A id \in DOMAIN ms : f[id] \in Frozen(ms[id]) } }

\* What refresh_auto_floating does to the camera and to what is drawn.
Floated(id, ms) ==
  IF Centres(id, ms[id].candidates, ms[id].floats)
  THEN camera' = TRUE /\ managed' \in ResetPresentations(ms)
  ELSE UNCHANGED camera /\ managed' = ms

RefreshAutoFloating(id) ==
  /\ id \in Ids
  /\ \E floats \in FloatsAfter(id, managed[id].parent) :
       Floated(id, [managed EXCEPT ![id].floats = floats])
  /\ UNCHANGED <<world, issued, seat, lock, animated>>
  /\ Sync(layers)

\* xdg-shell: a toplevel is not a child of its own descendants.
MayAdopt(parent, id) ==
  \E family \in SUBSET Ids :
    /\ id \in family /\ parent \notin family
    /\ \A w \in Ids : managed[w].parent \in family => w \in family

\* parent_changed: update_toplevel_parent, then refresh_auto_floating.
SetParent(id, parent) ==
  /\ id \in Ids /\ parent \in Ids \cup {None}
  /\ MayAdopt(parent, id)
  /\ LET inherited  == IF parent = None THEN << >> ELSE managed[parent].candidates
         candidates == MergeFocusCandidates(parent, inherited, managed[id].candidates)
     IN  \E floats \in FloatsAfter(id, parent) :
           Floated(id, [managed EXCEPT ![id].parent = parent,
                                       ![id].candidates = candidates,
                                       ![id].floats = floats])
  /\ UNCHANGED <<world, issued, seat, lock, animated>>
  /\ Sync(layers)

\* should_defer_unclassified_toplevel.  A window that is not ready has committed
\* before only if that commit was deferred.
ShouldDefer(m) == ~ m.ready /\ ~ m.floats /\ m.candidates # << >> /\ ~ m.deferred

\* handle_commit of the root surface.  The first commits decide how a window is
\* presented; later ones only draw.
CommitToplevel(id) ==
  /\ id \in Ids
  /\ \E floats \in FloatsAfter(id, managed[id].parent) :
       LET m      == [managed[id] EXCEPT !.floats = floats]
           after  == [managed EXCEPT ![id] = [m EXCEPT !.deferred = ShouldDefer(m),
                                                       !.ready = ~ ShouldDefer(m)]]
           centre == Centres(id, m.candidates, floats)
           view   == camera \/ centre
       IN  /\ managed' \in IF centre THEN ResetPresentations(after) ELSE {after}
           /\ Take(IF m.ready
                   THEN [world |-> world, seat |-> seat, camera |-> view,
                         sync |-> floats # managed[id].floats]
                   ELSE Activated(world, seat, view, id,
                                  IF ShouldDefer(m) THEN "Never" ELSE "Always"), layers)
  /\ UNCHANGED <<issued, lock, animated>>

-----------------------------------------------------------------------------
(* Toplevels go *)

\* Mutant: the youngest candidate is preferred to the parent.
PreferLast(w, candidates) ==
  LET alive == { i \in DOMAIN candidates : candidates[i] \in w.windows }
  IN  IF alive = {} THEN w
      ELSE FocusedOn(w, candidates[CHOOSE i \in alive : \A j \in alive : j <= i])

\* restore_preferred_focus: the first candidate that the World still has.
RestorePreferredFocus(w, candidates) ==
  LET alive == { i \in DOMAIN candidates : candidates[i] \in w.windows }
  IN  IF alive = {} THEN w
      ELSE FocusedOn(w, candidates[CHOOSE i \in alive : \A j \in alive : i <= j])

\* Only a window with a parent returns the focus to somebody.
PreferredFocus(id) == IF managed[id].parent = None THEN << >> ELSE managed[id].candidates

\* Mutant: whoever goes, the focus is handed on.
DestroyAlwaysRestores(id) ==
  LET after == RestorePreferredFocus(Removed(world, id), PreferredFocus(id))
  IN  /\ id \in Ids /\ ~ (seat.popup = "live" /\ seat.focus = id)
      /\ managed' = [o \in Ids \ {id} |-> managed[o]]
      /\ world' = after /\ seat' = SetFocus(seat, after.focus)
      /\ Sync(layers)
      /\ UNCHANGED <<issued, lock, camera, animated>>

\* remove_toplevel.  The popups of a toplevel go before it does.
DestroyToplevel(id) ==
  /\ id \in Ids /\ ~ (seat.popup = "live" /\ seat.focus = id)
  /\ managed' = [o \in Ids \ {id} |-> managed[o]]
  /\ IF world.focus = id
     THEN LET after == RestorePreferredFocus(Removed(world, id), PreferredFocus(id))
          IN  world' = after /\ seat' = SetFocus(seat, after.focus)
     ELSE world' = Removed(world, id) /\ UNCHANGED seat
  /\ Sync(layers)
  /\ UNCHANGED <<issued, lock, camera, animated>>

\* begin_close_transition, for a window of the World: CloseWindow is refused for
\* any other.  Without transitions the client is told and nothing else happens.
BeginCloseTransition(id) ==
  /\ id \in world.windows
  /\ IF animated
     THEN LET after == RestorePreferredFocus(Removed(world, id), PreferredFocus(id))
          IN  /\ managed' = [managed EXCEPT ![id].closing = TRUE]
              /\ world' = after /\ seat' = SetFocus(seat, after.focus)
              /\ Sync(layers)
     ELSE UNCHANGED <<world, managed, seat, layers>>
  /\ UNCHANGED <<issued, lock, camera, animated>>

\* Mutant: only windows that were presented are looked at.
FadesOnceReady(id) == managed[id].closing /\ ~ managed[id].frozen /\ managed[id].ready

\* A window fades out if it was ever presented, and is not seen anyway if it was
\* created to fade in and never presented.
Fades(id) ==
  managed[id].closing /\ ~ managed[id].frozen /\ (managed[id].ready \/ managed[id].unseen)

\* finish_close_transitions, of a frame in which the transitions of `done' end: the
\* windows are forgotten and their clients told to close.
FinishCloseTransitions(done) ==
  /\ done # {} /\ \A id \in done : id \in Ids /\ Fades(id)
  /\ managed' = [o \in Ids \ done |-> managed[o]]
  /\ UNCHANGED <<world, issued, seat, layers, lock, camera, animated>>

-----------------------------------------------------------------------------
(* Choosing a window *)

\* A shortcut or an IPC client moves the focus, and the window is activated.
ChooseWindow(id) ==
  /\ id \in world.windows
  /\ Take(Activated(FocusedOn(world, id), seat, camera, id, "Always"), layers)
  /\ UNCHANGED <<managed, issued, lock, animated>>

\* The surfaces a pointer or a finger can hit: a window that has been mapped, or
\* a layer.
Hit == { id \in Ids : managed[id].ready } \cup { l \in Layers : layers[l].at = "mapped" }

FocusAt(surface) ==
  IF surface \in Layers
  THEN /\ seat' = IF layers[surface].wants = "None" THEN seat ELSE SetFocus(seat, surface)
       /\ UNCHANGED <<world, layers, camera>>
  ELSE Take(Activated(world, seat, camera, surface, "OnFocusChange"), layers)

\* resolve_pointer_button_focus, of a press while nothing is grabbed.  Under the
\* lock only lock surfaces are hit, and they have the keyboard.
Click(surface) ==
  /\ seat.popup = "none"
  /\ \/ ~ lock.on /\ surface \in Hit /\ FocusAt(surface)
     \/ /\ surface = None /\ ~ (lock.on /\ lock.surface)
        /\ seat' = SetFocus(seat, None)
        /\ UNCHANGED <<world, layers, camera>>
  /\ UNCHANGED <<managed, issued, lock, animated>>

\* process_touch_down does not look for grabs.
TouchDown(surface) ==
  /\ ~ lock.on /\ surface \in Hit /\ FocusAt(surface)
  /\ UNCHANGED <<managed, issued, lock, animated>>

\* A pointer gesture ends on a window, which may be fading out by now: it is given
\* the keyboard unless it was not moved, and what is drawn of a window that the
\* World does not have starts afresh (finish_window_resize, finish_window_drag).
GestureEnds(id) ==
  /\ ~ lock.on /\ id \in Ids
  /\ \E frozen \in Frozen(managed[id]) : managed' = [managed EXCEPT ![id].frozen = frozen]
  /\ \/ Take(Activated(world, seat, camera, id, "Never"), layers)
     \/ UNCHANGED <<world, seat, camera>> /\ Sync(layers)
  /\ UNCHANGED <<issued, lock, animated>>

\* request_activation with a fresh token.
RequestActivation(id) == ActivateWindow(id, "OnFocusChange")

\* A key is pressed: process_keyboard hands the keyboard to an exclusive layer;
\* and the grab of a popup that is gone gives it back to the root.
Exclusive == { l \in Layers : layers[l].at = "mapped" /\ layers[l].wants = "Exclusive" }

KeyPress ==
  /\ LET settle(s) == IF s.popup = "ended" THEN [s EXCEPT !.popup = "none"] ELSE s
     IN  IF lock.on \/ Exclusive = {} THEN seat' = settle(seat)
         ELSE \E l \in Exclusive : seat' = settle(SetFocus(seat, l))
  /\ UNCHANGED <<world, managed, issued, layers, lock, camera, animated>>

-----------------------------------------------------------------------------
(* Popups *)

\* grab.  A second grab is refused; one the pointer refuses has ended at once.
GrabPopup(root) ==
  /\ \/ root \in Ids
     \/ root \in Layers /\ layers[root].at = "mapped"
  /\ seat.popup = "none"
  /\ \E state \in {"live", "ended"} : seat' = [focus |-> root, popup |-> state]
  /\ UNCHANGED <<world, managed, issued, layers, lock, camera, animated>>

PopupDestroyed ==
  /\ seat.popup = "live"
  /\ seat' = [seat EXCEPT !.popup = "ended"]
  /\ UNCHANGED <<world, managed, issued, layers, lock, camera, animated>>

-----------------------------------------------------------------------------
(* Layers *)

NewLayerSurface(l) ==
  /\ layers[l].at = "none"
  /\ layers' = [layers EXCEPT ![l].at = "mapped"]
  /\ UNCHANGED <<world, managed, issued, seat, lock, camera, animated>>

ShouldFocusOnCommit(noted, wants) ==
  wants = "Exclusive" \/ (noted # "OnDemand" /\ wants = "OnDemand")

HasKeyboard(l) == seat.focus = l /\ seat.popup = "none"

\* handle_commit.  The surface of a layer that is hidden is not found.
CommitLayer(l, wants) ==
  /\ \/ /\ layers[l].at = "hidden"
        /\ layers' = [layers EXCEPT ![l].wants = wants]
        /\ UNCHANGED <<world, seat, camera>>
     \/ /\ layers[l].at = "mapped"
        /\ LET ls == [layers EXCEPT ![l].wants = wants, ![l].noted = wants]
           IN  IF ~ ShouldFocusOnCommit(layers[l].noted, wants) /\ wants = "None" /\ HasKeyboard(l)
               THEN ReturnKeyboard(Refreshed(ls, world.fullscreen))
               ELSE /\ seat' = IF ShouldFocusOnCommit(layers[l].noted, wants)
                               THEN SetFocus(seat, l) ELSE seat
                    /\ UNCHANGED <<world, camera>>
                    /\ Sync(ls)
  /\ UNCHANGED <<managed, issued, lock, animated>>

\* Mutant: a layer that goes keeps the keyboard.
LayerDestroyedSilently(l) ==
  /\ layers[l].at # "none" /\ ~ (seat.popup = "live" /\ seat.focus = l)
  /\ layers' = [layers EXCEPT ![l] = NoLayer]
  /\ UNCHANGED <<world, seat, camera, managed, issued, lock, animated>>

LayerDestroyed(l) ==
  /\ layers[l].at # "none" /\ ~ (seat.popup = "live" /\ seat.focus = l)
  /\ LET gone == [layers EXCEPT ![l] = NoLayer]
         ls   == IF layers[l].at = "mapped" THEN Refreshed(gone, world.fullscreen) ELSE gone
     IN  IF HasKeyboard(l) THEN ReturnKeyboard(ls)
         ELSE layers' = ls /\ UNCHANGED <<world, seat, camera>>
  /\ UNCHANGED <<managed, issued, lock, animated>>

\* A client, a shortcut or a click on a binding.
ToggleFullscreen(id) ==
  /\ id \in world.windows
  /\ world' = [world EXCEPT !.fullscreen = IF id \in @ THEN @ \ {id} ELSE @ \cup {id}]
  /\ Sync(layers)
  /\ UNCHANGED <<managed, issued, seat, lock, camera, animated>>

-----------------------------------------------------------------------------
(* The session lock *)

Lock ==
  /\ lock' = [on |-> TRUE, surface |-> FALSE]
  /\ seat' = [focus |-> None, popup |-> "none"]
  /\ UNCHANGED <<world, managed, issued, layers, camera, animated>>

NewLockSurface ==
  /\ lock.on
  /\ lock' = [lock EXCEPT !.surface = TRUE]
  /\ seat' = SetFocus(seat, LockSurface)
  /\ UNCHANGED <<world, managed, issued, layers, camera, animated>>

Unlock ==
  /\ lock.on
  /\ lock' = [on |-> FALSE, surface |-> FALSE]
  /\ IF world.focus = None THEN UNCHANGED <<world, seat, layers, camera>>
     ELSE Take(Activated(world, seat, camera, world.focus, "OnFocusChange"), layers)
  /\ UNCHANGED <<managed, issued, animated>>

-----------------------------------------------------------------------------
\* A shortcut moves the camera.
CameraMoves ==
  /\ camera' = FALSE
  /\ UNCHANGED <<world, managed, issued, seat, lock, animated>>
  /\ Sync(layers)

\* The pointer drags the camera.
PanCamera ==
  /\ camera' = FALSE
  /\ managed' \in ResetPresentations(managed)
  /\ UNCHANGED <<world, issued, seat, lock, animated>>
  /\ Sync(layers)

\* The configuration is read again, with or without window transitions.
ReloadConfig ==
  /\ animated' \in BOOLEAN
  /\ UNCHANGED <<world, managed, issued, seat, lock, camera>>
  /\ Sync(layers)

ClientStep ==
  \/ \E id \in Windows : NewToplevel(id) \/ CommitToplevel(id) \/ DestroyToplevel(id)
  \/ \E id \in Windows : RefreshAutoFloating(id) \/ RequestActivation(id)
  \/ \E id \in Windows, parent \in Windows \cup {None} : SetParent(id, parent)

UserStep ==
  \/ \E id \in Windows : ChooseWindow(id) \/ BeginCloseTransition(id) \/ GestureEnds(id)
  \/ \E surface \in Windows \cup Layers \cup {None} : Click(surface)
  \/ CameraMoves \/ PanCamera

FrameStep == \E done \in SUBSET Windows : FinishCloseTransitions(done)

SeatStep ==
  \/ \E surface \in Windows \cup Layers : TouchDown(surface) \/ GrabPopup(surface)
  \/ PopupDestroyed \/ KeyPress

LayerStep ==
  \/ \E l \in Layers : NewLayerSurface(l) \/ LayerDestroyed(l)
  \/ \E l \in Layers, wants \in Interactivity : CommitLayer(l, wants)
  \/ \E id \in Windows : ToggleFullscreen(id)

LockStep == Lock \/ NewLockSurface \/ Unlock

Next == ClientStep \/ UserStep \/ FrameStep \/ SeatStep \/ LayerStep \/ LockStep \/ ReloadConfig

Spec == Init /\ [][Next]_vars
=============================================================================
