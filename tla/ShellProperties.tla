--------------------------- MODULE ShellProperties ---------------------------
(***************************************************************************)
(* What has to be true of the shell, whoever calls its handlers.           *)
(***************************************************************************)
EXTENDS Shell

Surface == Windows \cup Layers \cup {LockSurface, None}

WorldSet ==
  [windows : SUBSET Windows, focus : Windows \cup {None}, fullscreen : SUBSET Windows]

SeatSet == [focus : Surface, popup : Popup]

LayerSet ==
  [Layers -> [at : {"none", "mapped", "hidden"}, wants : Interactivity, noted : Interactivity]]

\* A record of managed_windows; its candidates are a sequence of windows.
ManagedWindow(m) ==
  m \in [candidates : {m.candidates}, parent : Windows \cup {None}, floats : BOOLEAN,
         ready : BOOLEAN, closing : BOOLEAN, deferred : BOOLEAN, unseen : BOOLEAN,
         frozen : BOOLEAN]

\* The fields hold what their types allow, and what is managed was once issued
\* (struct MioState, ManagedWindow).
ShellTypeOK ==
  /\ Ids \subseteq issued /\ issued \subseteq Windows
  /\ \A id \in Ids : ManagedWindow(managed[id])
  /\ world \in WorldSet /\ seat \in SeatSet /\ layers \in LayerSet
  /\ lock \in [on : BOOLEAN, surface : BOOLEAN]
  /\ camera \in BOOLEAN /\ animated \in BOOLEAN

\* The World has exactly the managed windows that are not fading out, and its
\* focus is one of them, although windows leave the World by two ways and the
\* list by three (remove_toplevel, begin_close_transition, finish_close_transitions).
WorldMatchesManaged ==
  /\ world.windows = { id \in Ids : ~ managed[id].closing }
  /\ world.focus \in world.windows \cup {None}
  /\ world.fullscreen \subseteq world.windows

-----------------------------------------------------------------------------
(* Focus *)

\* When the focus of the World moves to a window, the keyboard moves to that
\* window or a popup of it in the same step, whichever handler it was.  There are
\* two exceptions: the first window of an empty World waits for its commit, and a
\* popup that holds the grab keeps the keyboard when a window closes
\* (restore_window_focus does not dismiss it).
FocusCarriesKeyboard ==
  [][world'.focus \notin {world.focus, None} =>
       \/ KeyWindow(seat)' = world'.focus
       \/ issued' # issued
       \/ seat.popup = "live" /\ world'.windows # world.windows]_vars

\* When the focused window leaves the World, the focus goes to its parent, or
\* else to the first of its candidates that still lives, and the keyboard with
\* it; if it has no parent the focus and the keyboard go to nobody.
DialogHandsBackFocus ==
  [][\A id \in world.windows \ world'.windows :
       world.focus = id =>
         LET heirs == managed[id].candidates
             alive == { i \in DOMAIN heirs : heirs[i] \in world'.windows }
         IN  /\ IF managed[id].parent = None \/ alive = {} THEN world'.focus = None
                ELSE \E i \in alive : world'.focus = heirs[i] /\ \A j \in alive : i <= j
             /\ managed[id].parent \in world'.windows => world'.focus = managed[id].parent
             /\ seat.popup = "live" \/ seat'.focus = world'.focus]_vars

Unfocusing ==
  \/ \E l \in Layers : LayerDestroyed(l)
  \/ \E l \in Layers, wants \in Interactivity : CommitLayer(l, wants)
  \/ LockStep
  \/ \E surface \in Windows \cup Layers \cup {None} : Click(surface) \/ TouchDown(surface)
  \/ \E id \in Windows : RequestActivation(id)

\* The camera stays where it is when windows go, and when a window that has the
\* focus is only given the keyboard again: after a layer, after the lock, by a
\* click, a finger or a token (camera_should_follow_on_activation).
CameraKeepsStill ==
  [][camera' # camera =>
       /\ Ids' = Ids \/ issued' # issued
       /\ world'.focus = world.focus /\ KeyWindow(seat) \in {world.focus, None} => ~ Unfocusing]_vars

GivesUp(l) ==
  \/ layers'[l].at = "none"
  \/ layers'[l].wants = "None" /\ layers[l].wants # "None"

\* A mapped layer that has the keyboard and goes, or wants it no more, returns it
\* to the focused window, whatever became of the focus in between; and so does
\* the lock.
KeyboardComesBack ==
  [][ \/ \E l \in Layers : HasKeyboard(l) /\ layers[l].at = "mapped" /\ GivesUp(l)
      \/ lock.on /\ ~ lock'.on /\ world.focus # None
      => seat'.focus = world.focus]_vars

-----------------------------------------------------------------------------
(* Layers *)

\* Whatever makes a window fullscreen, no Top layer is in its way afterwards, and
\* whatever ends it - a request, a close, a client that dies - brings back every
\* layer that was hidden.
FullscreenHidesTopLayers ==
  [][ /\ world.fullscreen # world'.fullscreen /\ world'.fullscreen # {} =>
           \A l \in TopLayers : layers'[l].at # "mapped"
      /\ world'.fullscreen = {} => \A l \in Layers : layers'[l].at # "hidden" ]_vars

-----------------------------------------------------------------------------
(* Windows *)

phase ==
  [w \in Windows |->
     CASE w \notin issued    -> "unborn"
       [] w \in issued \ Ids -> "gone"
       [] w \in Ids        -> IF managed[w].closing THEN "closing"
                              ELSE IF managed[w].ready THEN "shown" ELSE "waiting"]

T == INSTANCE Toplevels WITH chosen <- world.focus

\* The shell implements the abstract life of its windows.
ToplevelsSpec == T!Spec

\* While a transition is under way every frame asks for the next one.
Fairness == WF_vars(FrameStep)

\* A window that is closing is told so in the end, unless its client goes first: in
\* the frame that forgets it.  That holds for a window that was presented, and for
\* one that was created to fade in and closed before its first commit; and even
\* when the configuration is read again meanwhile.  It does not hold once the
\* presentations have been reset while it faded (FadingEnds).
ClosingIsTold ==
  \A w \in Windows :
    (w \in Ids /\ managed[w].closing /\ (managed[w].ready \/ managed[w].unseen))
      ~> (w \notin Ids \/ managed[w].frozen)

-----------------------------------------------------------------------------
(* What the documents say and the code does not do *)

\* docs/architecture.md:238: "the client close request is sent after it becomes
\* invisible".  A window that fades out comes to its end.
FadingEnds ==
  \A w \in Windows : (w \in Ids /\ managed[w].closing /\ managed[w].ready) ~> w \notin Ids
=============================================================================
