------------------------------ MODULE ShellProofs ------------------------------
(***************************************************************************)
(* Proofs of what is true of the shell for any windows and layers: the     *)
(* World has the managed windows, the keyboard follows its focus, layers   *)
(* make way for fullscreen windows, windows live the life that module      *)
(* Toplevels promises, whoever loses the keyboard gives it back, the       *)
(* camera stays where nobody was followed, and a dialog that goes hands    *)
(* the focus back to its family.                                           *)
(*                                                                         *)
(* Most handlers leave alone which windows there are and what has become   *)
(* of them: they are Plain, and all their promises come from one lemma.    *)
(***************************************************************************)
EXTENDS ShellProperties, WellFoundedInduction, TLAPS

\* Layers come back with the end of the last fullscreen window.
NoneHidden(ls) == \A l \in Layers : ls[l].at # "hidden"

IInv ==
  /\ ShellTypeOK /\ WorldMatchesManaged
  /\ world.fullscreen = {} => NoneHidden(layers)

\* What a step must do beside the invariant.
Carries ==
  world'.focus \notin {world.focus, None} =>
    \/ KeyWindow(seat)' = world'.focus
    \/ issued' # issued
    \/ seat.popup = "live" /\ world'.windows # world.windows

Hides ==
  /\ world.fullscreen # world'.fullscreen /\ world'.fullscreen # {} =>
       \A l \in TopLayers : layers'[l].at # "mapped"
  /\ world'.fullscreen = {} => NoneHidden(layers')

Lives == T!Next \/ (phase' = phase /\ world'.focus = world.focus)

Good == IInv' /\ Carries /\ Hides /\ Lives

-----------------------------------------------------------------------------
(* Operators *)

LEMMA FocusedOnWorld ==
  ASSUME NEW w \in WorldSet, NEW id
  PROVE  LET v == FocusedOn(w, id)
         IN  /\ v \in WorldSet /\ v.windows = w.windows /\ v.fullscreen = w.fullscreen
             /\ v.focus = IF id \in w.windows THEN id ELSE w.focus
  BY DEF FocusedOn, WorldSet

LEMMA RemovedWorld ==
  ASSUME NEW w \in WorldSet, NEW id
  PROVE  LET v == Removed(w, id)
         IN  /\ v \in WorldSet /\ v.windows = w.windows \ {id}
             /\ v.fullscreen = w.fullscreen \ {id}
             /\ v.focus = IF w.focus = id THEN None ELSE w.focus
  BY DEF Removed, WorldSet

\* A set of numbers has a least one.
LEMMA LeastNumber ==
  ASSUME NEW S, S \subseteq Nat, S # {}
  PROVE  \E x \in S : \A y \in S : x <= y
PROOF
  <1>1. IsWellFoundedOn(OpToRel(<, Nat), Nat)
    BY NatLessThanWellFounded
  <1>2. PICK x \in S : \A y \in S : ~ (<<y, x>> \in OpToRel(<, Nat))
    BY <1>1, WFMin
  <1>3. \A y \in S : ~ (y < x)
    BY <1>2 DEF OpToRel
  <1>4. x \in Nat
    BY <1>2
  <1> QED BY <1>3, <1>4

\* Whoever is preferred, only a window of the World gets the focus.
LEMMA RestoredWorld ==
  ASSUME NEW w \in WorldSet, NEW candidates
  PROVE  LET v == RestorePreferredFocus(w, candidates)
         IN  /\ v \in WorldSet /\ v.windows = w.windows /\ v.fullscreen = w.fullscreen
             /\ v.focus \in w.windows \cup {w.focus}
PROOF
  <1> DEFINE v == RestorePreferredFocus(w, candidates)
  <1>1. PICK id : v = w \/ v = FocusedOn(w, id)
    BY DEF RestorePreferredFocus
  <1> HIDE DEF v
  <1>2. CASE v = w
    BY <1>2 DEF v
  <1>3. CASE v = FocusedOn(w, id)
    <2>1. /\ v \in WorldSet /\ v.windows = w.windows /\ v.fullscreen = w.fullscreen
          /\ v.focus \in w.windows \cup {w.focus}
      BY <1>3, FocusedOnWorld
    <2> QED BY <2>1 DEF v
  <1> QED BY <1>1, <1>2, <1>3

\* The first candidate that lives gets the focus, and nobody if none does.
LEMMA RestoredFocus ==
  ASSUME NEW w \in WorldSet, NEW candidates \in Seq(Windows)
  PROVE  LET v     == RestorePreferredFocus(w, candidates)
             alive == { i \in DOMAIN candidates : candidates[i] \in w.windows }
         IN  /\ alive = {} => v = w
             /\ alive # {} => \E i \in alive : /\ v.focus = candidates[i]
                                               /\ \A j \in alive : i <= j
PROOF
  <1> DEFINE v     == RestorePreferredFocus(w, candidates)
             alive == { i \in DOMAIN candidates : candidates[i] \in w.windows }
             first == CHOOSE i \in alive : \A j \in alive : i <= j
  <1>1. alive = {} => v = w
    BY DEF RestorePreferredFocus
  <1>2. ASSUME alive # {}
        PROVE  \E i \in alive : v.focus = candidates[i] /\ \A j \in alive : i <= j
    <2>1. alive \subseteq Nat
      OBVIOUS
    <2>2. \E i \in alive : \A j \in alive : i <= j
      <3> HIDE DEF alive
      <3> QED BY <1>2, <2>1, LeastNumber
    <2>3. first \in alive /\ \A j \in alive : first <= j
      <3> HIDE DEF alive
      <3> QED BY <2>2
    <2>4. v = FocusedOn(w, candidates[first])
      BY <1>2 DEF RestorePreferredFocus
    <2>5. candidates[first] \in w.windows
      BY <2>3
    <2> HIDE DEF v, alive, first
    <2>6. v.focus = candidates[first]
      BY <2>4, <2>5, FocusedOnWorld
    <2> QED BY <2>3, <2>6
  <1> QED BY <1>1, <1>2

LEMMA SetFocusSeat ==
  ASSUME NEW s \in SeatSet, NEW surface \in Surface
  PROVE  /\ SetFocus(s, surface) \in SeatSet
         /\ s.popup # "live" => /\ SetFocus(s, surface).focus = surface
                                /\ SetFocus(s, surface).popup = "none"
         /\ s.popup = "live" => SetFocus(s, surface) = s
  BY DEF SetFocus, SeatSet, Popup

LEMMA RefreshedLayers ==
  ASSUME NEW ls \in LayerSet, NEW fullscreen
  PROVE  /\ Refreshed(ls, fullscreen) \in LayerSet
         /\ fullscreen = {} => NoneHidden(Refreshed(ls, fullscreen))
         /\ fullscreen # {} => \A l \in TopLayers : Refreshed(ls, fullscreen)[l].at # "mapped"
PROOF
  <1> DEFINE r == Refreshed(ls, fullscreen)
  <1>1. ASSUME NEW l \in Layers
        PROVE  /\ r[l] \in [at : {"none", "mapped", "hidden"}, wants : Interactivity,
                            noted : Interactivity]
               /\ fullscreen = {} => r[l].at # "hidden"
               /\ fullscreen # {} /\ l \in TopLayers => r[l].at # "mapped"
    <2>1. ls[l] \in [at : {"none", "mapped", "hidden"}, wants : Interactivity,
                     noted : Interactivity]
      BY DEF LayerSet
    <2>2. CASE ls[l].at = "mapped" /\ l \in TopLayers /\ fullscreen # {}
      <3>1. r[l] = [ls[l] EXCEPT !.at = "hidden"]
        BY <2>2 DEF Refreshed
      <3> HIDE DEF r
      <3> QED BY <2>1, <2>2, <3>1
    <2>3. CASE ls[l].at = "hidden" /\ fullscreen = {}
      <3>1. r[l] = [ls[l] EXCEPT !.at = "mapped"]
        BY <2>3 DEF Refreshed
      <3> HIDE DEF r
      <3> QED BY <2>1, <2>3, <3>1
    <2>4. CASE /\ ~ (ls[l].at = "mapped" /\ l \in TopLayers /\ fullscreen # {})
               /\ ~ (ls[l].at = "hidden" /\ fullscreen = {})
      <3>1. r[l] = ls[l]
        BY <2>4 DEF Refreshed
      <3> HIDE DEF r
      <3> QED BY <2>1, <2>4, <3>1
    <2> QED BY <2>2, <2>3, <2>4
  <1>2. r = [l \in Layers |-> r[l]]
    BY DEF Refreshed
  <1> HIDE DEF r
  <1>3. r \in LayerSet
    BY <1>1, <1>2 DEF LayerSet
  <1>4. fullscreen = {} => NoneHidden(r)
    BY <1>1 DEF NoneHidden
  <1>5. fullscreen # {} => \A l \in TopLayers : r[l].at # "mapped"
    BY <1>1 DEF Layers
  <1> QED BY <1>3, <1>4, <1>5 DEF r

-----------------------------------------------------------------------------
(* Plain handlers *)

\* Nobody comes, goes or closes.
Similar(ms, ns) ==
  /\ DOMAIN ns = DOMAIN ms
  /\ \A id \in DOMAIN ms : ManagedWindow(ns[id]) /\ ns[id].closing = ms[id].closing

\* What has become of each window is what it was.
Alike(ms, ns) ==
  /\ Similar(ms, ns)
  /\ \A id \in DOMAIN ms : ns[id].ready = ms[id].ready

\* The focus stays, or goes to a window of the World with the keyboard.
Hands(w, s) ==
  \/ w.focus = world.focus
  \/ /\ w.focus \in world.windows
     /\ s.focus = w.focus /\ s.popup # "ended"

Steady ==
  /\ issued' = issued /\ Similar(managed, managed')
  /\ world' \in WorldSet /\ world'.windows = world.windows
  /\ world'.fullscreen = world.fullscreen
  /\ Hands(world', seat')
  /\ seat' \in SeatSet
  /\ layers' \in LayerSet /\ (world.fullscreen = {} => NoneHidden(layers'))
  /\ lock' \in [on : BOOLEAN, surface : BOOLEAN]
  /\ camera' \in BOOLEAN /\ animated' \in BOOLEAN

Plain == Steady /\ Alike(managed, managed')

\* The World has nobody who is not managed, or is closing.
LEMMA WindowsManaged ==
  ASSUME IInv, NEW id \in world.windows
  PROVE  /\ id \in Ids /\ id \in issued /\ id \in Windows /\ ~ managed[id].closing
         /\ id # None /\ id \in Surface
  BY ShellAssumption DEF IInv, WorldMatchesManaged, ShellTypeOK, Surface

\* What has become of a window before and after a step.
LEMMA PhaseOf ==
  ASSUME NEW w \in Windows, Ids \subseteq issued
  PROVE  /\ w \notin issued => phase[w] = "unborn"
         /\ w \in issued /\ w \notin Ids => phase[w] = "gone"
         /\ w \in Ids /\ managed[w].closing => phase[w] = "closing"
         /\ w \in Ids /\ ~ managed[w].closing /\ managed[w].ready => phase[w] = "shown"
         /\ w \in Ids /\ ~ managed[w].closing /\ ~ managed[w].ready => phase[w] = "waiting"
  BY DEF phase

LEMMA PhaseAfter ==
  ASSUME NEW w \in Windows, Ids' \subseteq issued'
  PROVE  /\ w \notin issued' => phase'[w] = "unborn"
         /\ w \in issued' /\ w \notin Ids' => phase'[w] = "gone"
         /\ w \in Ids' /\ managed'[w].closing => phase'[w] = "closing"
         /\ w \in Ids' /\ ~ managed'[w].closing /\ managed'[w].ready => phase'[w] = "shown"
         /\ w \in Ids' /\ ~ managed'[w].closing /\ ~ managed'[w].ready => phase'[w] = "waiting"
  BY DEF phase

\* A window that is managed before and after with the same record is what it was,
\* and so is one that is not managed before or after.
LEMMA PhaseStays ==
  ASSUME NEW w \in Windows, w \in issued' <=> w \in issued, w \in Ids' <=> w \in Ids,
         w \in Ids => /\ managed'[w].closing = managed[w].closing
                      /\ managed'[w].ready = managed[w].ready
  PROVE  phase'[w] = phase[w]
  BY DEF phase

LEMMA PhaseMoves ==
  ASSUME NEW id \in Windows, NEW p, phase'[id] = p,
         \A w \in Windows : w # id => phase'[w] = phase[w]
  PROVE  phase' = [phase EXCEPT ![id] = p]
PROOF
  <1>1. phase = [w \in Windows |-> phase[w]]
    BY DEF phase
  <1>2. phase' = [w \in Windows |-> phase'[w]]
    BY DEF phase
  <1>3. [phase EXCEPT ![id] = p] = [w \in Windows |-> IF w = id THEN p ELSE phase[w]]
    BY <1>1
  <1>4. \A w \in Windows : phase'[w] = IF w = id THEN p ELSE phase[w]
    OBVIOUS
  <1> QED BY <1>2, <1>3, <1>4

LEMMA SamePhase ==
  ASSUME IInv, issued' = issued, Alike(managed, managed') PROVE phase' = phase
PROOF
  <1>1. Ids' = Ids
    BY DEF Alike, Similar, Ids
  <1>2. \A w \in Windows : w \in Ids =>
          managed'[w].closing = managed[w].closing /\ managed'[w].ready = managed[w].ready
    BY DEF Alike, Similar, Ids
  <1> QED BY <1>1, <1>2 DEF phase

LEMMA SteadyKeeps ==
  ASSUME ShellAssumption, IInv, Steady PROVE IInv' /\ Carries /\ Hides
PROOF
  <1>0. Ids' = Ids /\ Ids = DOMAIN managed
    BY DEF Similar, Ids, Steady
  <1>1. ShellTypeOK'
    BY <1>0 DEF IInv, Steady, ShellTypeOK, Similar, Ids
  <1>2. WorldMatchesManaged'
    <2>1. { id \in Ids : ~ managed[id].closing }' = { id \in Ids : ~ managed[id].closing }
      BY <1>0 DEF Steady, Similar
    <2> QED BY <2>1 DEF IInv, WorldMatchesManaged, Steady, Hands
  <1>3. Hides /\ (world'.fullscreen = {} => NoneHidden(layers'))
    BY DEF Hides, Steady
  <1>4. IInv'
    BY <1>1, <1>2, <1>3 DEF IInv, NoneHidden
  <1>5. Carries
    <2>1. CASE world'.focus = world.focus
      BY <2>1 DEF Carries
    <2>2. CASE world'.focus \in world.windows /\ seat'.focus = world'.focus /\ seat'.popup # "ended"
      BY <1>0, <2>2, WindowsManaged DEF Carries, KeyWindow
    <2> QED BY <2>1, <2>2 DEF Steady, Hands
  <1> QED BY <1>3, <1>4, <1>5

\* To choose a window of the World is what the abstract life allows.
LEMMA Chooses ==
  ASSUME ShellAssumption, IInv, phase' = phase,
         world'.focus = world.focus \/ world'.focus \in world.windows
  PROVE  Lives
PROOF
  <1>1. CASE world'.focus = world.focus
    BY <1>1 DEF Lives
  <1>2. CASE world'.focus \in world.windows
    <2> DEFINE w == world'.focus
    <2>1. w \in Windows /\ w \in Ids /\ w \in issued /\ ~ managed[w].closing
      BY <1>2, WindowsManaged
    <2>2. phase[w] \in {"waiting", "shown"}
      BY <2>1 DEF phase
    <2>3. w \in T!Living(phase)
      BY <2>1, <2>2 DEF T!Living
    <2>4. T!Choose(w)
      BY <2>3 DEF T!Choose
    <2> QED BY <2>1, <2>4 DEF T!Next, Lives
  <1> QED BY <1>1, <1>2

LEMMA PlainGood ==
  ASSUME ShellAssumption, IInv, Plain PROVE Good
PROOF
  <1>1. IInv' /\ Carries /\ Hides
    BY SteadyKeeps DEF Plain
  <1>2. phase' = phase
    BY SamePhase DEF Plain, Steady
  <1>3. Lives
    BY <1>2, Chooses DEF Plain, Steady, Hands
  <1> QED BY <1>1, <1>3 DEF Good

\* Whoever is activated has the keyboard, whatever popup had it before.
LEMMA ActivatedHands ==
  ASSUME ShellAssumption, IInv, NEW w \in WorldSet, w.windows = world.windows,
         w.fullscreen = world.fullscreen, NEW id \in Ids,
         w.focus = world.focus \/ (w.focus = id /\ id \in world.windows),
         NEW view \in BOOLEAN, NEW policy
  PROVE  LET a == Activated(w, seat, view, id, policy)
         IN  /\ a.world \in WorldSet /\ a.world.windows = world.windows
             /\ a.world.fullscreen = world.fullscreen
             /\ Hands(a.world, a.seat) /\ a.seat \in SeatSet /\ a.camera \in BOOLEAN
             /\ a.seat.focus = id /\ a.seat.popup # "ended"
PROOF
  <1> DEFINE a == Activated(w, seat, view, id, policy)
             free == DismissPopup(seat, id)
             keyed == SetFocus(free, id)
             v == FocusedOn(w, id)
  <1>1. a.world = v /\ a.seat = keyed
    BY DEF Activated
  <1>2. a.camera \in BOOLEAN
    BY DEF Activated
  <1> HIDE DEF a
  <1>3. /\ v \in WorldSet /\ v.windows = world.windows /\ v.fullscreen = world.fullscreen
        /\ v.focus = world.focus \/ (v.focus = id /\ id \in world.windows)
    BY FocusedOnWorld
  <1> HIDE DEF v
  <1>4. id \in Surface /\ seat \in SeatSet /\ None \in Surface
    BY DEF IInv, ShellTypeOK, Surface
  <1>5. keyed \in SeatSet /\ keyed.focus = id /\ keyed.popup # "ended"
    <2>1. free \in SeatSet /\ (free.popup = "none" \/ free.focus = id)
      BY <1>4 DEF DismissPopup, SeatSet, Popup
    <2> HIDE DEF free
    <2>2. CASE free.popup = "live"
      BY <1>4, <2>1, <2>2, SetFocusSeat
    <2>3. CASE free.popup # "live"
      BY <1>4, <2>1, <2>3, SetFocusSeat
    <2> QED BY <2>2, <2>3
  <1> HIDE DEF keyed
  <1>6. Hands(a.world, a.seat)
    BY <1>1, <1>3, <1>5 DEF Hands
  <1> QED BY <1>1, <1>2, <1>3, <1>5, <1>6 DEF a

\* A sync leaves no layer in the way, and hides none that need not be.
LEMMA SyncLayers ==
  ASSUME NEW ls \in LayerSet, Sync(ls)
  PROVE  /\ layers' \in LayerSet /\ (world'.fullscreen = {} => NoneHidden(layers'))
         /\ world'.fullscreen # {} => \A l \in TopLayers : layers'[l].at # "mapped"
  BY RefreshedLayers DEF Sync

LEMMA TakePlain ==
  ASSUME ShellAssumption, IInv, NEW a, NEW ls \in LayerSet,
         world.fullscreen = {} => NoneHidden(ls),
         Take(a, ls), a.world \in WorldSet, a.world.windows = world.windows,
         a.world.fullscreen = world.fullscreen, Hands(a.world, a.seat), a.seat \in SeatSet,
         a.camera \in BOOLEAN,
         issued' = issued, Alike(managed, managed'),
         lock' \in [on : BOOLEAN, surface : BOOLEAN], animated' \in BOOLEAN
  PROVE  Plain
PROOF
  <1>1. world' = a.world /\ seat' = a.seat /\ camera' = a.camera
    BY DEF Take
  <1>2. layers' \in LayerSet /\ (world.fullscreen = {} => NoneHidden(layers'))
    <2>1. CASE Sync(ls)
      BY <1>1, <2>1, SyncLayers
    <2>2. CASE layers' = ls
      BY <2>2
    <2> QED BY <2>1, <2>2 DEF Take
  <1> QED BY <1>1, <1>2 DEF Plain, Steady, Alike

\* What the invariant says of the variables, and that nothing changed is Alike.
LEMMA Typing ==
  IInv => /\ world \in WorldSet /\ seat \in SeatSet /\ layers \in LayerSet
          /\ lock \in [on : BOOLEAN, surface : BOOLEAN]
          /\ camera \in BOOLEAN /\ animated \in BOOLEAN
          /\ Ids \subseteq issued /\ issued \subseteq Windows
          /\ (world.fullscreen = {} => NoneHidden(layers))
          /\ Hands(world, seat) /\ Alike(managed, managed)
          /\ \A id \in Ids : ManagedWindow(managed[id])
  BY DEF IInv, ShellTypeOK, Hands, Alike, Similar, Ids

LEMMA ActivateGood ==
  ASSUME ShellAssumption, IInv, NEW id, NEW policy, ActivateWindow(id, policy) PROVE Good
PROOF
  <1> DEFINE a == Activated(world, seat, camera, id, policy)
  <1>1. id \in Ids /\ Take(a, layers) /\ UNCHANGED <<managed, issued, lock, animated>>
    BY DEF ActivateWindow
  <1>2. /\ a.world \in WorldSet /\ a.world.windows = world.windows
        /\ a.world.fullscreen = world.fullscreen
        /\ Hands(a.world, a.seat) /\ a.seat \in SeatSet /\ a.camera \in BOOLEAN
    BY <1>1, Typing, ActivatedHands
  <1> HIDE DEF a
  <1> QED BY <1>1, <1>2, Typing, TakePlain, PlainGood

LEMMA ChooseGood ==
  ASSUME ShellAssumption, IInv, NEW id, ChooseWindow(id) PROVE Good
PROOF
  <1> DEFINE w == FocusedOn(world, id)
             a == Activated(w, seat, camera, id, "Always")
  <1>1. id \in world.windows /\ Take(a, layers) /\ UNCHANGED <<managed, issued, lock, animated>>
    BY DEF ChooseWindow
  <1>2. /\ w \in WorldSet /\ w.windows = world.windows /\ w.fullscreen = world.fullscreen
        /\ w.focus = id /\ id \in Ids
    BY <1>1, Typing, FocusedOnWorld, WindowsManaged
  <1> HIDE DEF w
  <1>3. /\ a.world \in WorldSet /\ a.world.windows = world.windows
        /\ a.world.fullscreen = world.fullscreen
        /\ Hands(a.world, a.seat) /\ a.seat \in SeatSet /\ a.camera \in BOOLEAN
    BY <1>1, <1>2, Typing, ActivatedHands
  <1> HIDE DEF a
  <1> QED BY <1>1, <1>3, Typing, TakePlain, PlainGood

\* The keyboard that nobody wants goes to the focused window.
LEMMA ReturnPlain ==
  ASSUME ShellAssumption, IInv, NEW ls \in LayerSet, world.fullscreen = {} => NoneHidden(ls),
         ReturnKeyboard(ls), UNCHANGED <<managed, issued, lock, animated>>
  PROVE  Plain
PROOF
  <1>1. CASE world.focus # None
    <2> DEFINE id == world.focus
               a == Activated(world, seat, camera, id, "OnFocusChange")
    <2>1. id \in Ids
      BY <1>1, WindowsManaged DEF IInv, WorldMatchesManaged
    <2>2. Take(a, ls)
      BY <1>1 DEF ReturnKeyboard
    <2>3. /\ a.world \in WorldSet /\ a.world.windows = world.windows
          /\ a.world.fullscreen = world.fullscreen
          /\ Hands(a.world, a.seat) /\ a.seat \in SeatSet /\ a.camera \in BOOLEAN
      BY <2>1, Typing, ActivatedHands
    <2> HIDE DEF a
    <2> QED BY <2>2, <2>3, Typing, TakePlain
  <1>2. CASE world.focus = None
    <2>1. /\ seat' = SetFocus(seat, None) /\ layers' = ls /\ world' = world /\ camera' = camera
      BY <1>2 DEF ReturnKeyboard
    <2>2. seat' \in SeatSet
      BY <2>1, Typing, SetFocusSeat DEF Surface
    <2>3. Alike(managed, managed') /\ issued' = issued /\ Hands(world', seat')
      BY <2>1, Typing DEF Hands
    <2> QED BY <2>1, <2>2, <2>3, Typing DEF Plain, Steady, Alike
  <1> QED BY <1>1, <1>2

\* Handlers that leave the World to the sync.
LEMMA QuietGood ==
  ASSUME ShellAssumption, IInv, world' = world, issued' = issued, Alike(managed, managed'),
         seat' \in SeatSet,
         layers' \in LayerSet /\ (world.fullscreen = {} => NoneHidden(layers')),
         lock' \in [on : BOOLEAN, surface : BOOLEAN], camera' \in BOOLEAN, animated' \in BOOLEAN
  PROVE  Good
PROOF
  <1>1. Hands(world', seat')
    BY DEF Hands
  <1> QED BY <1>1, Typing, PlainGood DEF Plain, Steady, Alike

-----------------------------------------------------------------------------
(* Handlers that change what is remembered of a window *)

LEMMA AlikeTwice ==
  ASSUME NEW ms, NEW ns, NEW os, Alike(ms, ns), Alike(ns, os) PROVE Alike(ms, os)
  BY DEF Alike, Similar

\* One window, otherwise as it was.
LEMMA OneAlike ==
  ASSUME IInv, NEW id \in Ids, NEW m, ManagedWindow(m), m.closing = managed[id].closing,
         m.ready = managed[id].ready
  PROVE  Alike(managed, [managed EXCEPT ![id] = m])
  BY Typing DEF Alike, Similar, Ids

LEMMA FrozenType ==
  ASSUME NEW m, ManagedWindow(m) PROVE Frozen(m) \subseteq BOOLEAN
  BY DEF Frozen, ManagedWindow

LEMMA FrozenWindow ==
  ASSUME NEW m, ManagedWindow(m), NEW f \in BOOLEAN
  PROVE  LET n == [m EXCEPT !.frozen = f]
         IN  ManagedWindow(n) /\ n.closing = m.closing /\ n.ready = m.ready
  BY DEF ManagedWindow

LEMMA ResetAlike ==
  ASSUME NEW ms, \A id \in DOMAIN ms : ManagedWindow(ms[id]), NEW ns \in ResetPresentations(ms)
  PROVE  Alike(ms, ns)
PROOF
  <1>1. PICK f \in [DOMAIN ms -> BOOLEAN] : ns = [id \in DOMAIN ms |-> [ms[id] EXCEPT !.frozen = f[id]]]
    BY DEF ResetPresentations
  <1>2. DOMAIN ns = DOMAIN ms
    BY <1>1
  <1>3. ASSUME NEW id \in DOMAIN ms
        PROVE  ManagedWindow(ns[id]) /\ ns[id].closing = ms[id].closing /\ ns[id].ready = ms[id].ready
    <2>1. ns[id] = [ms[id] EXCEPT !.frozen = f[id]] /\ f[id] \in BOOLEAN
      BY <1>1
    <2> QED BY <2>1, FrozenWindow
  <1> QED BY <1>2, <1>3 DEF Alike, Similar

\* Floating or not, with the camera moved or not.
LEMMA FloatedAlike ==
  ASSUME IInv, NEW id, NEW ms, Alike(managed, ms), Floated(id, ms)
  PROVE  Alike(managed, managed') /\ camera' \in BOOLEAN
PROOF
  <1>1. \A o \in DOMAIN ms : ManagedWindow(ms[o])
    BY DEF Alike, Similar
  <1>2. CASE camera' = TRUE /\ managed' \in ResetPresentations(ms)
    <2>1. Alike(ms, managed')
      BY <1>1, <1>2, ResetAlike
    <2> QED BY <1>2, <2>1, AlikeTwice
  <1>3. CASE UNCHANGED camera /\ managed' = ms
    BY <1>3, Typing
  <1> QED BY <1>2, <1>3 DEF Floated

LEMMA FloatsType ==
  ASSUME IInv, NEW id \in Ids, NEW parent
  PROVE  FloatsAfter(id, parent) \subseteq BOOLEAN
PROOF
  <1>1. managed[id].floats \in BOOLEAN
    BY Typing DEF ManagedWindow
  <1> QED BY <1>1 DEF FloatsAfter

LEMMA FloatsWindow ==
  ASSUME NEW m, ManagedWindow(m), NEW f \in BOOLEAN
  PROVE  LET n == [m EXCEPT !.floats = f]
         IN  ManagedWindow(n) /\ n.closing = m.closing /\ n.ready = m.ready
  BY DEF ManagedWindow

Parented(m, parent, c, f) ==
  [[[m EXCEPT !.parent = parent] EXCEPT !.candidates = c] EXCEPT !.floats = f]

LEMMA ParentWindow ==
  ASSUME NEW m, ManagedWindow(m), NEW f \in BOOLEAN, NEW parent \in Windows \cup {None}, NEW c
  PROVE  LET n == Parented(m, parent, c, f)
         IN  ManagedWindow(n) /\ n.closing = m.closing /\ n.ready = m.ready
  BY DEF ManagedWindow, Parented

LEMMA RefreshFloatingGood ==
  ASSUME ShellAssumption, IInv, NEW id, RefreshAutoFloating(id) PROVE Good
PROOF
  <1>1. id \in Ids /\ UNCHANGED <<world, issued, seat, lock, animated>> /\ Sync(layers)
    BY DEF RefreshAutoFloating
  <1>2. PICK floats \in FloatsAfter(id, managed[id].parent) :
          Floated(id, [managed EXCEPT ![id].floats = floats])
    BY DEF RefreshAutoFloating
  <1>3. floats \in BOOLEAN /\ ManagedWindow(managed[id])
    BY <1>1, FloatsType, Typing
  <1> DEFINE n == [managed[id] EXCEPT !.floats = floats]
  <1>4. ManagedWindow(n) /\ n.closing = managed[id].closing /\ n.ready = managed[id].ready
    BY <1>3, FloatsWindow
  <1>5. [managed EXCEPT ![id].floats = floats] = [managed EXCEPT ![id] = n]
    OBVIOUS
  <1> HIDE DEF n
  <1>6. Alike(managed, managed') /\ camera' \in BOOLEAN
    <2>1. Alike(managed, [managed EXCEPT ![id] = n])
      BY <1>1, <1>4, OneAlike
    <2>2. Floated(id, [managed EXCEPT ![id] = n])
      BY <1>2, <1>5
    <2> QED BY <2>1, <2>2, FloatedAlike
  <1> QED BY <1>1, <1>6, Typing, SyncLayers, QuietGood

LEMMA SetParentGood ==
  ASSUME ShellAssumption, IInv, NEW id, NEW parent, SetParent(id, parent) PROVE Good
PROOF
  <1> DEFINE c == MergeFocusCandidates(parent,
                    IF parent = None THEN << >> ELSE managed[parent].candidates,
                    managed[id].candidates)
  <1>1. /\ id \in Ids /\ parent \in Ids \cup {None}
        /\ UNCHANGED <<world, issued, seat, lock, animated>> /\ Sync(layers)
    BY DEF SetParent
  <1>2. PICK floats \in FloatsAfter(id, parent) :
          Floated(id, [managed EXCEPT ![id].parent = parent, ![id].candidates = c,
                                      ![id].floats = floats])
    BY DEF SetParent
  <1> HIDE DEF c
  <1>3. /\ floats \in BOOLEAN /\ ManagedWindow(managed[id]) /\ parent \in Windows \cup {None}
    BY <1>1, FloatsType, Typing
  <1> DEFINE n == Parented(managed[id], parent, c, floats)
  <1>4. ManagedWindow(n) /\ n.closing = managed[id].closing /\ n.ready = managed[id].ready
    BY <1>3, ParentWindow
  <1>5. [managed EXCEPT ![id].parent = parent, ![id].candidates = c, ![id].floats = floats]
          = [managed EXCEPT ![id] = n]
    BY <1>1 DEF Ids, Parented
  <1> HIDE DEF n
  <1>6. Alike(managed, managed') /\ camera' \in BOOLEAN
    <2>1. Alike(managed, [managed EXCEPT ![id] = n])
      BY <1>1, <1>4, OneAlike
    <2>2. Floated(id, [managed EXCEPT ![id] = n])
      BY <1>2, <1>5
    <2> QED BY <2>1, <2>2, FloatedAlike
  <1> QED BY <1>1, <1>6, Typing, SyncLayers, QuietGood

LEMMA GestureGood ==
  ASSUME ShellAssumption, IInv, NEW id, GestureEnds(id) PROVE Good
PROOF
  <1> DEFINE a == Activated(world, seat, camera, id, "Never")
  <1>1. id \in Ids /\ UNCHANGED <<issued, lock, animated>>
    BY DEF GestureEnds
  <1>2. PICK f \in Frozen(managed[id]) : managed' = [managed EXCEPT ![id].frozen = f]
    BY DEF GestureEnds
  <1>3. Alike(managed, managed')
    <2> DEFINE n == [managed[id] EXCEPT !.frozen = f]
    <2>1. ManagedWindow(managed[id]) /\ f \in BOOLEAN
      BY <1>1, Typing, FrozenType
    <2>2. ManagedWindow(n) /\ n.closing = managed[id].closing /\ n.ready = managed[id].ready
      BY <2>1, FrozenWindow
    <2>3. managed' = [managed EXCEPT ![id] = n]
      BY <1>2
    <2> HIDE DEF n
    <2> QED BY <1>1, <2>2, <2>3, OneAlike
  <1>4. CASE Take(a, layers)
    <2>1. /\ a.world \in WorldSet /\ a.world.windows = world.windows
          /\ a.world.fullscreen = world.fullscreen
          /\ Hands(a.world, a.seat) /\ a.seat \in SeatSet /\ a.camera \in BOOLEAN
      BY <1>1, Typing, ActivatedHands
    <2> HIDE DEF a
    <2> QED BY <1>1, <1>3, <1>4, <2>1, Typing, TakePlain, PlainGood
  <1>5. CASE UNCHANGED <<world, seat, camera>> /\ Sync(layers)
    BY <1>1, <1>3, <1>5, Typing, SyncLayers, QuietGood
  <1> QED BY <1>4, <1>5 DEF GestureEnds

LEMMA CameraGood ==
  ASSUME ShellAssumption, IInv, CameraMoves \/ PanCamera PROVE Good
PROOF
  <1>1. UNCHANGED <<world, issued, seat, lock, animated>> /\ Sync(layers) /\ camera' = FALSE
    BY DEF CameraMoves, PanCamera
  <1>2. Alike(managed, managed')
    <2>1. CASE CameraMoves
      BY <2>1, Typing DEF CameraMoves
    <2>2. CASE PanCamera
      BY <2>2, Typing, ResetAlike DEF PanCamera, Ids
    <2> QED BY <2>1, <2>2
  <1> QED BY <1>1, <1>2, Typing, SyncLayers, QuietGood

-----------------------------------------------------------------------------
(* Pointers, keys, popups, layers and the lock *)

LEMMA FocusAtGood ==
  ASSUME ShellAssumption, IInv, NEW surface \in Hit, FocusAt(surface),
         UNCHANGED <<managed, issued, lock, animated>>
  PROVE  Good
PROOF
  <1>0. Alike(managed, managed')
    BY Typing
  <1>1. CASE surface \in Layers
    <2>1. /\ seat' = IF layers[surface].wants = "None" THEN seat ELSE SetFocus(seat, surface)
          /\ UNCHANGED <<world, layers, camera>>
      BY <1>1 DEF FocusAt
    <2>2. seat' \in SeatSet
      BY <1>1, <2>1, Typing, SetFocusSeat DEF Surface
    <2> QED BY <1>0, <2>1, <2>2, Typing, QuietGood
  <1>2. CASE surface \notin Layers
    <2> DEFINE a == Activated(world, seat, camera, surface, "OnFocusChange")
    <2>1. surface \in Ids /\ Take(a, layers)
      BY <1>2 DEF FocusAt, Hit
    <2>2. /\ a.world \in WorldSet /\ a.world.windows = world.windows
          /\ a.world.fullscreen = world.fullscreen
          /\ Hands(a.world, a.seat) /\ a.seat \in SeatSet /\ a.camera \in BOOLEAN
      BY <2>1, Typing, ActivatedHands
    <2> HIDE DEF a
    <2> QED BY <1>0, <2>1, <2>2, Typing, TakePlain, PlainGood
  <1> QED BY <1>1, <1>2

LEMMA ClickGood ==
  ASSUME ShellAssumption, IInv, NEW surface, Click(surface) \/ TouchDown(surface)
  PROVE  Good
PROOF
  <1>1. UNCHANGED <<managed, issued, lock, animated>>
    BY DEF Click, TouchDown
  <1>2. CASE surface \in Hit /\ FocusAt(surface)
    BY <1>1, <1>2, FocusAtGood
  <1>3. CASE seat' = SetFocus(seat, None) /\ UNCHANGED <<world, layers, camera>>
    <2>1. seat' \in SeatSet
      BY <1>3, Typing, SetFocusSeat DEF Surface
    <2> QED BY <1>1, <1>3, <2>1, Typing, QuietGood
  <1> QED BY <1>2, <1>3 DEF Click, TouchDown

\* Only the keyboard changes.
LEMMA SeatGood ==
  ASSUME ShellAssumption, IInv, seat' \in SeatSet,
         UNCHANGED <<world, managed, issued, layers, camera, animated>>,
         lock' \in [on : BOOLEAN, surface : BOOLEAN]
  PROVE  Good
  BY Typing, QuietGood

LEMMA SeatStepGood ==
  ASSUME ShellAssumption, IInv, SeatStep PROVE Good
PROOF
  <1>1. CASE \E surface \in Windows \cup Layers : TouchDown(surface)
    BY <1>1, ClickGood
  <1>2. CASE \E surface \in Windows \cup Layers : GrabPopup(surface)
    <2>1. PICK root \in Windows \cup Layers : GrabPopup(root)
      BY <1>2
    <2>2. PICK state \in {"live", "ended"} : seat' = [focus |-> root, popup |-> state]
      BY <2>1 DEF GrabPopup
    <2>3. seat' \in SeatSet
      BY <2>2 DEF SeatSet, Surface, Popup
    <2> QED BY <2>1, <2>3, Typing, SeatGood DEF GrabPopup
  <1>3. CASE PopupDestroyed
    <2>1. seat' \in SeatSet
      BY <1>3, Typing DEF PopupDestroyed, SeatSet, Popup
    <2> QED BY <1>3, <2>1, Typing, SeatGood DEF PopupDestroyed
  <1>4. CASE KeyPress
    <2> DEFINE settle(s) == IF s.popup = "ended" THEN [s EXCEPT !.popup = "none"] ELSE s
    <2>1. ASSUME NEW s \in SeatSet PROVE settle(s) \in SeatSet
      BY <2>1 DEF SeatSet, Popup
    <2>2. seat' = settle(seat) \/ \E l \in Exclusive : seat' = settle(SetFocus(seat, l))
      BY <1>4 DEF KeyPress
    <2>3. \A l \in Exclusive : SetFocus(seat, l) \in SeatSet
      BY Typing, SetFocusSeat DEF Exclusive, Surface
    <2> HIDE DEF settle
    <2>4. seat' \in SeatSet
      BY <2>1, <2>2, <2>3, Typing
    <2> QED BY <1>4, <2>4, Typing, SeatGood DEF KeyPress
  <1> QED BY <1>1, <1>2, <1>3, <1>4 DEF SeatStep

\* Another layer, or the same one with other wishes.
LEMMA LayerChanged ==
  ASSUME IInv, NEW l \in Layers, NEW m \in [at : {"none", "mapped", "hidden"},
                                            wants : Interactivity, noted : Interactivity],
         m.at = "hidden" => layers[l].at = "hidden"
  PROVE  LET ls == [layers EXCEPT ![l] = m]
         IN  ls \in LayerSet /\ (world.fullscreen = {} => NoneHidden(ls))
  BY Typing DEF LayerSet, NoneHidden

LEMMA NewLayerGood ==
  ASSUME ShellAssumption, IInv, NEW l \in Layers, NewLayerSurface(l) PROVE Good
PROOF
  <1> DEFINE m == [layers[l] EXCEPT !.at = "mapped"]
  <1>1. /\ layers' = [layers EXCEPT ![l] = m]
        /\ UNCHANGED <<world, managed, issued, seat, lock, camera, animated>>
    BY DEF NewLayerSurface
  <1>2. /\ m \in [at : {"none", "mapped", "hidden"}, wants : Interactivity, noted : Interactivity]
        /\ m.at = "mapped"
    BY Typing DEF LayerSet
  <1> HIDE DEF m
  <1>3. layers' \in LayerSet /\ (world.fullscreen = {} => NoneHidden(layers'))
    BY <1>1, <1>2, LayerChanged
  <1> QED BY <1>1, <1>3, Typing, QuietGood

LEMMA CommitLayerGood ==
  ASSUME ShellAssumption, IInv, NEW l \in Layers, NEW wants \in Interactivity, CommitLayer(l, wants)
  PROVE  Good
PROOF
  <1>0. /\ UNCHANGED <<managed, issued, lock, animated>> /\ Alike(managed, managed')
        /\ layers[l] \in [at : {"none", "mapped", "hidden"}, wants : Interactivity,
                          noted : Interactivity]
    BY Typing DEF CommitLayer, LayerSet
  <1>1. CASE layers[l].at = "hidden"
    <2> DEFINE m == [layers[l] EXCEPT !.wants = wants]
    <2>1. layers' = [layers EXCEPT ![l] = m] /\ UNCHANGED <<world, seat, camera>>
      BY <1>1 DEF CommitLayer
    <2>2. m \in [at : {"none", "mapped", "hidden"}, wants : Interactivity, noted : Interactivity]
      BY <1>0
    <2> HIDE DEF m
    <2>3. layers' \in LayerSet /\ (world.fullscreen = {} => NoneHidden(layers'))
      BY <1>1, <2>1, <2>2, LayerChanged
    <2> QED BY <1>0, <2>1, <2>3, Typing, QuietGood
  <1>2. CASE layers[l].at = "mapped"
    <2> DEFINE m == [[layers[l] EXCEPT !.wants = wants] EXCEPT !.noted = wants]
               ls == [layers EXCEPT ![l] = m]
               shouldFocus == ShouldFocusOnCommit(layers[l].noted, wants)
    <2>1. /\ m \in [at : {"none", "mapped", "hidden"}, wants : Interactivity, noted : Interactivity]
          /\ m.at = "mapped"
      BY <1>0, <1>2
    <2>2. ls = [layers EXCEPT ![l].wants = wants, ![l].noted = wants]
      BY Typing DEF LayerSet
    <2> HIDE DEF m
    <2>3. ls \in LayerSet /\ (world.fullscreen = {} => NoneHidden(ls))
      BY <2>1, LayerChanged
    <2> HIDE DEF ls
    <2>4. CASE ~ shouldFocus /\ wants = "None" /\ HasKeyboard(l)
      <3>1. ReturnKeyboard(Refreshed(ls, world.fullscreen))
        BY <1>2, <2>2, <2>4 DEF CommitLayer
      <3>2. /\ Refreshed(ls, world.fullscreen) \in LayerSet
            /\ (world.fullscreen = {} => NoneHidden(Refreshed(ls, world.fullscreen)))
        BY <2>3, RefreshedLayers
      <3> QED BY <1>0, <3>1, <3>2, ReturnPlain, PlainGood
    <2>5. CASE ~ (~ shouldFocus /\ wants = "None" /\ HasKeyboard(l))
      <3>1. /\ seat' = IF shouldFocus THEN SetFocus(seat, l) ELSE seat
            /\ UNCHANGED <<world, camera>> /\ Sync(ls)
        BY <1>2, <2>2, <2>5 DEF CommitLayer
      <3>2. seat' \in SeatSet
        BY <3>1, Typing, SetFocusSeat DEF Surface
      <3> QED BY <1>0, <2>3, <3>1, <3>2, Typing, SyncLayers, QuietGood
    <2> QED BY <2>4, <2>5
  <1> QED BY <1>1, <1>2 DEF CommitLayer

LEMMA LayerDestroyedGood ==
  ASSUME ShellAssumption, IInv, NEW l \in Layers, LayerDestroyed(l) PROVE Good
PROOF
  <1> DEFINE gone == [layers EXCEPT ![l] = NoLayer]
             ls == IF layers[l].at = "mapped" THEN Refreshed(gone, world.fullscreen) ELSE gone
  <1>0. UNCHANGED <<managed, issued, lock, animated>> /\ Alike(managed, managed')
    BY Typing DEF LayerDestroyed
  <1>1. gone \in LayerSet /\ (world.fullscreen = {} => NoneHidden(gone))
    <2>1. /\ NoLayer \in [at : {"none", "mapped", "hidden"}, wants : Interactivity,
                          noted : Interactivity]
          /\ NoLayer.at # "hidden"
      BY DEF NoLayer, Interactivity
    <2> QED BY <2>1, LayerChanged
  <1>2. IF HasKeyboard(l) THEN ReturnKeyboard(ls)
        ELSE layers' = ls /\ UNCHANGED <<world, seat, camera>>
    BY DEF LayerDestroyed
  <1> HIDE DEF gone
  <1>3. ls \in LayerSet /\ (world.fullscreen = {} => NoneHidden(ls))
    BY <1>1, RefreshedLayers
  <1> HIDE DEF ls
  <1>4. CASE HasKeyboard(l)
    BY <1>0, <1>2, <1>3, <1>4, ReturnPlain, PlainGood
  <1>5. CASE ~ HasKeyboard(l)
    BY <1>0, <1>2, <1>3, <1>5, Typing, QuietGood
  <1> QED BY <1>4, <1>5

LEMMA LockGood ==
  ASSUME ShellAssumption, IInv, LockStep PROVE Good
PROOF
  <1>1. CASE Lock
    <2>1. seat' \in SeatSet /\ lock' \in [on : BOOLEAN, surface : BOOLEAN]
      BY <1>1 DEF Lock, SeatSet, Surface, Popup
    <2> QED BY <1>1, <2>1, SeatGood DEF Lock
  <1>2. CASE NewLockSurface
    <2>1. seat' \in SeatSet
      BY <1>2, Typing, SetFocusSeat DEF NewLockSurface, Surface
    <2>2. lock' \in [on : BOOLEAN, surface : BOOLEAN]
      BY <1>2, Typing DEF NewLockSurface
    <2> QED BY <1>2, <2>1, <2>2, SeatGood DEF NewLockSurface
  <1>3. CASE Unlock
    <2>0. lock' \in [on : BOOLEAN, surface : BOOLEAN] /\ UNCHANGED <<managed, issued, animated>>
      BY <1>3 DEF Unlock
    <2>1. CASE world.focus = None
      BY <1>3, <2>0, <2>1, Typing, QuietGood DEF Unlock
    <2>2. CASE world.focus # None
      <3> DEFINE a == Activated(world, seat, camera, world.focus, "OnFocusChange")
      <3>1. Take(a, layers) /\ world.focus \in Ids
        BY <1>3, <2>2, WindowsManaged DEF Unlock, IInv, WorldMatchesManaged
      <3>2. /\ a.world \in WorldSet /\ a.world.windows = world.windows
            /\ a.world.fullscreen = world.fullscreen
            /\ Hands(a.world, a.seat) /\ a.seat \in SeatSet /\ a.camera \in BOOLEAN
        BY <3>1, Typing, ActivatedHands
      <3> HIDE DEF a
      <3> QED BY <2>0, <3>1, <3>2, Typing, TakePlain, PlainGood
    <2> QED BY <2>1, <2>2
  <1> QED BY <1>1, <1>2, <1>3 DEF LockStep

LEMMA ReloadGood ==
  ASSUME ShellAssumption, IInv, ReloadConfig PROVE Good
  BY Typing, SyncLayers, QuietGood DEF ReloadConfig

-----------------------------------------------------------------------------
(* Windows come, are shown, close and go *)

\* The World changes, and the sync sees to the layers.
LEMMA WorldChanged ==
  ASSUME IInv, Sync(layers), issued' \subseteq Windows, Ids' \subseteq issued',
         \A id \in Ids' : ManagedWindow(managed'[id]),
         world' \in WorldSet, seat' \in SeatSet, UNCHANGED <<lock, animated>>,
         camera' \in BOOLEAN, WorldMatchesManaged'
  PROVE  IInv' /\ Hides
PROOF
  <1>1. /\ layers' \in LayerSet /\ (world'.fullscreen = {} => NoneHidden(layers'))
        /\ world'.fullscreen # {} => \A l \in TopLayers : layers'[l].at # "mapped"
    BY Typing, SyncLayers
  <1>2. ShellTypeOK'
    BY <1>1, Typing DEF ShellTypeOK
  <1>3. Hides
    BY <1>1 DEF Hides
  <1> QED BY <1>1, <1>2, <1>3 DEF IInv, NoneHidden

LEMMA NewGood ==
  ASSUME ShellAssumption, IInv, NEW id \in Windows, NewToplevel(id) PROVE Good
PROOF
  <1> DEFINE new == [candidates |-> IF world.focus = None THEN << >> ELSE <<world.focus>>,
                     parent |-> None, floats |-> FALSE, ready |-> FALSE, closing |-> FALSE,
                     deferred |-> FALSE, unseen |-> animated, frozen |-> FALSE]
             placed == Placed(world, id)
  <1>1. /\ id \notin issued /\ issued' = issued \cup {id} /\ world' = FocusedOn(placed, world.focus)
        /\ Sync(layers) /\ UNCHANGED <<seat, lock, camera, animated>>
    BY DEF NewToplevel
  <1>2. managed' = [o \in Ids \cup {id} |-> IF o # id THEN managed[o] ELSE new]
    BY DEF NewToplevel
  <1>3. ManagedWindow(new) /\ ~ new.closing /\ ~ new.ready
    BY Typing DEF ManagedWindow
  <1> HIDE DEF new
  <1>4. /\ Ids' = Ids \cup {id} /\ id \notin Ids /\ managed'[id] = new
        /\ \A o \in Ids : managed'[o] = managed[o]
    BY <1>1, <1>2, Typing DEF Ids
  <1>5. /\ placed \in WorldSet /\ placed.windows = world.windows \cup {id}
        /\ placed.fullscreen = world.fullscreen
        /\ placed.focus = IF world.focus = None THEN id ELSE world.focus
    BY Typing DEF Placed, WorldSet
  <1> HIDE DEF placed
  <1>6. /\ world' \in WorldSet /\ world'.windows = world.windows \cup {id}
        /\ world'.fullscreen = world.fullscreen
        /\ world'.focus = IF world.focus = None THEN id ELSE world.focus
    <2>1. world.focus \in world.windows \cup {None} /\ None \notin world.windows \cup {id}
      BY Typing, ShellAssumption DEF IInv, WorldMatchesManaged, WorldSet
    <2> QED BY <1>1, <1>5, <2>1, FocusedOnWorld
  <1>7. WorldMatchesManaged'
    BY <1>3, <1>4, <1>6 DEF IInv, WorldMatchesManaged
  <1>8. IInv' /\ Hides
    BY <1>1, <1>3, <1>4, <1>6, <1>7, Typing, WorldChanged
  <1>9. Carries
    BY <1>1 DEF Carries
  <1>10. Lives
    <2>1. phase[id] = "unborn" /\ phase' = [phase EXCEPT ![id] = "waiting"]
      <3>1. phase[id] = "unborn"
        BY <1>1, Typing, PhaseOf
      <3>2. phase'[id] = "waiting"
        BY <1>1, <1>3, <1>4, Typing, PhaseAfter
      <3>3. \A w \in Windows : w # id => phase'[w] = phase[w]
        BY <1>1, <1>4, PhaseStays
      <3> QED BY <3>1, <3>2, <3>3, PhaseMoves
    <2>2. T!Open(id)
      BY <2>1, <1>6 DEF T!Open, T!Become
    <2> QED BY <2>2 DEF T!Next, Lives
  <1> QED BY <1>8, <1>9, <1>10 DEF Good

\* The first commits of a window show it, once; later ones only draw.
LEMMA CommitGood ==
  ASSUME ShellAssumption, IInv, NEW id \in Windows, CommitToplevel(id) PROVE Good
PROOF
  <1>0. id \in Ids /\ UNCHANGED <<issued, lock, animated>> /\ ManagedWindow(managed[id])
    BY Typing DEF CommitToplevel
  <1>1. PICK floats \in FloatsAfter(id, managed[id].parent) :
       LET m      == [managed[id] EXCEPT !.floats = floats]
           after  == [managed EXCEPT ![id] = [m EXCEPT !.deferred = ShouldDefer(m),
                                                       !.ready = ~ ShouldDefer(m)]]
           centre == Centres(id, m.candidates, floats)
           view   == camera \/ centre
       IN  /\ managed' \in IF centre THEN ResetPresentations(after) ELSE {after}
           /\ Take(IF m.ready
                   THEN [world |-> world, seat |-> seat, camera |-> view,
                         sync |-> floats # managed[id].floats]
                   ELSE Activated(world, seat, view, id,
                                  IF ShouldDefer(m) THEN "Never" ELSE "Always"), layers)
    BY DEF CommitToplevel
  <1> DEFINE m == [managed[id] EXCEPT !.floats = floats]
             defer == ShouldDefer(m)
             n == [[m EXCEPT !.deferred = defer] EXCEPT !.ready = ~ defer]
             after == [managed EXCEPT ![id] = n]
             centre == Centres(id, m.candidates, floats)
             view == camera \/ centre
             a == Activated(world, seat, view, id, IF defer THEN "Never" ELSE "Always")
             drawn == [world |-> world, seat |-> seat, camera |-> view,
                       sync |-> floats # managed[id].floats]
  <1>2. floats \in BOOLEAN
    BY <1>0, FloatsType
  <1>3. ManagedWindow(m) /\ m.closing = managed[id].closing /\ m.ready = managed[id].ready
    BY <1>0, <1>2, FloatsWindow
  <1>a. managed' \in IF centre THEN ResetPresentations(after) ELSE {after}
    BY <1>1
  <1>b. Take(IF m.ready THEN drawn ELSE a, layers)
    BY <1>1
  <1>c. defer \in BOOLEAN /\ view \in BOOLEAN /\ (m.ready => ~ defer)
    BY DEF ShouldDefer
  <1> HIDE DEF m, defer, centre
  <1>4. ManagedWindow(n) /\ n.closing = managed[id].closing /\ n.ready = ~ defer
    <2> DEFINE shown == ~ defer
    <2>1. shown \in BOOLEAN
      OBVIOUS
    <2> HIDE DEF shown
    <2>2. LET k == [[m EXCEPT !.deferred = defer] EXCEPT !.ready = shown]
          IN  ManagedWindow(k) /\ k.closing = m.closing /\ k.ready = shown
      BY <1>3, <1>c, <2>1 DEF ManagedWindow
    <2> QED BY <1>3, <2>2 DEF shown
  <1> HIDE DEF n
  <1>5. /\ DOMAIN after = Ids /\ after[id] = n /\ \A o \in Ids : o # id => after[o] = managed[o]
        /\ \A o \in Ids : ManagedWindow(after[o])
    BY <1>0, <1>4, Typing DEF Ids
  <1> HIDE DEF after
  <1>6. Alike(after, managed')
    <2>1. CASE managed' \in ResetPresentations(after)
      BY <1>5, <2>1, ResetAlike
    <2>2. CASE managed' = after
      BY <1>5, <2>2 DEF Alike, Similar
    <2> QED BY <1>a, <2>1, <2>2
  <1>7. /\ Ids' = Ids /\ Similar(managed, managed')
        /\ managed'[id].ready = ~ defer
        /\ \A o \in Ids : o # id => managed'[o].ready = managed[o].ready
    BY <1>4, <1>5, <1>6, <1>0 DEF Alike, Similar, Ids
  <1> HIDE DEF view
  <1>8. CASE m.ready
    <2>1. Take(drawn, layers)
      BY <1>8, <1>b
    <2>2. /\ drawn.world = world /\ drawn.seat = seat /\ drawn.camera = view
      OBVIOUS
    <2> HIDE DEF drawn
    <2>3. Alike(managed, managed')
      BY <1>3, <1>7, <1>8, <1>c DEF Alike, Ids
    <2> QED BY <1>0, <1>c, <2>1, <2>2, <2>3, Typing, TakePlain, PlainGood
  <1>9. CASE ~ m.ready
    <2>1. Take(a, layers)
      BY <1>9, <1>b
    <2>2. /\ a.world \in WorldSet /\ a.world.windows = world.windows
          /\ a.world.fullscreen = world.fullscreen
          /\ Hands(a.world, a.seat) /\ a.seat \in SeatSet /\ a.camera \in BOOLEAN
      BY <1>0, <1>c, Typing, ActivatedHands
    <2>3. a.world = FocusedOn(world, id)
      BY DEF Activated
    <2> HIDE DEF a
    <2>4. CASE defer
      <3>1. Alike(managed, managed')
        BY <1>3, <1>7, <1>9, <2>4 DEF Alike, Ids, ManagedWindow
      <3> QED BY <1>0, <2>1, <2>2, <3>1, Typing, TakePlain, PlainGood
    <2>5. CASE ~ defer
      <3>1. Steady
        <4>1. world' = a.world /\ seat' = a.seat /\ camera' = a.camera
          BY <2>1 DEF Take
        <4>2. layers' \in LayerSet /\ (world.fullscreen = {} => NoneHidden(layers'))
          <5>1. CASE Sync(layers)
            BY <2>2, <4>1, <5>1, Typing, SyncLayers
          <5>2. CASE layers' = layers
            BY <5>2, Typing
          <5> QED BY <2>1, <5>1, <5>2 DEF Take
        <4> QED BY <1>0, <1>7, <2>2, <4>1, <4>2, Typing DEF Steady
      <3>2. IInv' /\ Carries /\ Hides
        BY <3>1, SteadyKeeps
      <3>3. world' = FocusedOn(world, id) /\ id \in issued
        BY <1>0, <2>1, <2>3, Typing DEF Take
      <3>4. \A o \in Ids : managed'[o].closing = managed[o].closing
        BY <1>7 DEF Similar, Ids
      <3>5. CASE managed[id].closing
        <4>1. world' = world
          BY <3>3, <3>5 DEF FocusedOn, IInv, WorldMatchesManaged
        <4>2. phase' = phase
          BY <1>0, <1>7, <3>4, <3>5 DEF phase
        <4> QED BY <3>2, <4>1, <4>2 DEF Good, Lives
      <3>6. CASE ~ managed[id].closing
        <4>1. world'.focus = id
          BY <1>0, <3>3, <3>6, Typing, FocusedOnWorld DEF IInv, WorldMatchesManaged
        <4>2. phase[id] = "waiting" /\ phase' = [phase EXCEPT ![id] = "shown"]
          <5>1. phase[id] = "waiting"
            BY <1>0, <1>3, <1>9, <3>6, Typing, PhaseOf
          <5>2. phase'[id] = "shown"
            BY <1>0, <1>7, <2>5, <3>4, <3>6, Typing, PhaseAfter
          <5>3. \A w \in Windows : w # id => phase'[w] = phase[w]
            BY <1>0, <1>7, <3>4, PhaseStays
          <5> QED BY <5>1, <5>2, <5>3, PhaseMoves
        <4>3. T!Show(id)
          BY <4>1, <4>2 DEF T!Show, T!Become
        <4> QED BY <3>2, <4>3 DEF T!Next, Lives, Good
      <3> QED BY <3>5, <3>6
    <2> QED BY <1>c, <2>4, <2>5
  <1> QED BY <1>8, <1>9

\* A window of the World after a step lives by then.
LEMMA LivesAfter ==
  ASSUME IInv', NEW w \in world'.windows PROVE w \in T!Living(phase')
PROOF
  <1>1. w \in Windows /\ w \in Ids' /\ Ids' \subseteq issued' /\ ~ managed'[w].closing
    BY DEF IInv, WorldMatchesManaged, ShellTypeOK
  <1>2. managed'[w].ready \in BOOLEAN
    BY <1>1 DEF IInv, ShellTypeOK, ManagedWindow
  <1>3. phase'[w] \in {"waiting", "shown"}
    BY <1>1, <1>2, PhaseAfter
  <1> QED BY <1>1, <1>3 DEF T!Living

\* A managed window was waiting or shown, unless it was closing.
LEMMA PhaseOfManaged ==
  ASSUME IInv, NEW id \in Ids
  PROVE  /\ id \in Windows
         /\ managed[id].closing => phase[id] = "closing"
         /\ ~ managed[id].closing => phase[id] \in {"waiting", "shown"}
PROOF
  <1>1. id \in Windows /\ managed[id].ready \in BOOLEAN
    BY Typing DEF ManagedWindow
  <1> QED BY <1>1, Typing, PhaseOf

\* A window leaves the World, and its focus and the keyboard go where they may.
Leaves(id) ==
  /\ issued' = issued /\ UNCHANGED <<lock, camera, animated>> /\ Sync(layers)
  /\ \A o \in Ids' : ManagedWindow(managed'[o])
  /\ Ids' \subseteq Ids
  /\ { o \in Ids' : ~ managed'[o].closing } = { o \in Ids : ~ managed[o].closing } \ {id}
  /\ world' \in WorldSet /\ seat' \in SeatSet
  /\ world'.windows = world.windows \ {id}
  /\ world'.fullscreen = world.fullscreen \ {id}
  /\ world'.focus = world.focus \/ world'.focus \in world'.windows \cup {None}
  /\ world'.focus # id
  /\ \/ world'.focus = world.focus
     \/ seat' = SetFocus(seat, world'.focus) /\ id \in world.windows

LEMMA LeavesKeeps ==
  ASSUME ShellAssumption, IInv, NEW id \in Ids, Leaves(id) PROVE IInv' /\ Carries /\ Hides
PROOF
  <1>1. WorldMatchesManaged'
    BY Typing DEF Leaves, IInv, WorldMatchesManaged
  <1>2. IInv' /\ Hides
    BY <1>1, Typing, WorldChanged DEF Leaves
  <1>3. Carries
    <2>1. SUFFICES ASSUME world'.focus \notin {world.focus, None}, seat.popup # "live"
                   PROVE  KeyWindow(seat)' = world'.focus
      BY DEF Carries, Leaves
    <2>2. world'.focus \in Ids' /\ world'.focus \in Surface
      BY <1>1, <2>1, Typing DEF WorldMatchesManaged, Leaves, Surface
    <2>3. seat'.focus = world'.focus /\ seat'.popup = "none"
      BY <2>1, <2>2, Typing, SetFocusSeat DEF Leaves
    <2> QED BY <2>2, <2>3 DEF KeyWindow
  <1> QED BY <1>2, <1>3

\* The focus and the keyboard of a World that a window has left.
LEMMA HandedOn ==
  ASSUME ShellAssumption, IInv, NEW id \in Ids, NEW candidates
  PROVE  LET after == RestorePreferredFocus(Removed(world, id), candidates)
         IN  /\ after \in WorldSet /\ after.windows = world.windows \ {id}
             /\ after.fullscreen = world.fullscreen \ {id}
             /\ after.focus \in after.windows \cup {None}
             /\ after.focus # id
             /\ SetFocus(seat, after.focus) \in SeatSet
PROOF
  <1> DEFINE w == Removed(world, id)
             after == RestorePreferredFocus(w, candidates)
  <1>1. id \in Windows /\ id # None /\ world.focus \in world.windows \cup {None}
    BY Typing, ShellAssumption DEF IInv, WorldMatchesManaged
  <1>2. /\ w \in WorldSet /\ w.windows = world.windows \ {id}
        /\ w.fullscreen = world.fullscreen \ {id}
        /\ w.focus = IF world.focus = id THEN None ELSE world.focus
    BY Typing, RemovedWorld
  <1> HIDE DEF w
  <1>3. /\ after \in WorldSet /\ after.windows = w.windows /\ after.fullscreen = w.fullscreen
        /\ after.focus \in w.windows \cup {w.focus}
    BY <1>2, RestoredWorld
  <1> HIDE DEF after
  <1>4. after.focus \in after.windows \cup {None} /\ after.focus # id
    BY <1>1, <1>2, <1>3
  <1>5. after.focus \in Surface
    BY <1>3 DEF WorldSet, Surface
  <1>6. SetFocus(seat, after.focus) \in SeatSet
    BY <1>5, Typing, SetFocusSeat
  <1> QED BY <1>2, <1>3, <1>4, <1>6 DEF after, w

LEMMA DestroyGood ==
  ASSUME ShellAssumption, IInv, NEW id \in Windows, DestroyToplevel(id) PROVE Good
PROOF
  <1> DEFINE after == RestorePreferredFocus(Removed(world, id), PreferredFocus(id))
  <1>1. /\ id \in Ids /\ id # None /\ Sync(layers) /\ UNCHANGED <<issued, lock, camera, animated>>
        /\ managed' = [o \in Ids \ {id} |-> managed[o]]
    BY ShellAssumption DEF DestroyToplevel
  <1>2. /\ IF world.focus = id THEN world' = after /\ seat' = SetFocus(seat, after.focus)
           ELSE world' = Removed(world, id) /\ UNCHANGED seat
    BY DEF DestroyToplevel
  <1>3. /\ after \in WorldSet /\ after.windows = world.windows \ {id}
        /\ after.fullscreen = world.fullscreen \ {id}
        /\ after.focus \in after.windows \cup {None} /\ after.focus # id
        /\ SetFocus(seat, after.focus) \in SeatSet
    BY <1>1, HandedOn
  <1> HIDE DEF after
  <1>4. /\ Ids' = Ids \ {id} /\ \A o \in Ids' : managed'[o] = managed[o]
    BY <1>1 DEF Ids
  <1>5. { o \in Ids' : ~ managed'[o].closing } = { o \in Ids : ~ managed[o].closing } \ {id}
    BY <1>4
  <1>6. \A o \in Ids' : ManagedWindow(managed'[o])
    BY <1>4, Typing
  <1>7. Leaves(id) /\ (world.focus # id => world'.focus = world.focus)
    <2>1. CASE world.focus = id
      <3>1. id \in world.windows
        BY <1>1, <2>1 DEF IInv, WorldMatchesManaged
      <3> QED BY <1>1, <1>2, <1>3, <1>4, <1>5, <1>6, <2>1, <3>1 DEF Leaves
    <2>2. CASE world.focus # id
      <3>1. /\ world' \in WorldSet /\ world'.windows = world.windows \ {id}
            /\ world'.fullscreen = world.fullscreen \ {id} /\ world'.focus = world.focus
        BY <1>2, <2>2, Typing, RemovedWorld
      <3> QED BY <1>1, <1>2, <1>4, <1>5, <1>6, <2>2, <3>1, Typing DEF Leaves
    <2> QED BY <2>1, <2>2
  <1>8. IInv' /\ Carries /\ Hides
    BY <1>1, <1>7, LeavesKeeps
  <1>9. Lives
    <2>1. phase[id] \in {"waiting", "shown", "closing"}
      BY <1>1, PhaseOfManaged
    <2>2. phase' = [phase EXCEPT ![id] = "gone"]
      <3>1. phase'[id] = "gone"
        BY <1>1, <1>4, Typing, PhaseAfter
      <3>2. \A w \in Windows : w # id => phase'[w] = phase[w]
        BY <1>1, <1>4, PhaseStays
      <3> QED BY <3>1, <3>2, PhaseMoves
    <2>3. world'.focus \in world'.windows \cup {None}
      BY <1>8 DEF IInv, WorldMatchesManaged
    <2>4. world'.focus \in T!Living(phase') \cup {None}
      BY <1>8, <2>3, LivesAfter
    <2>5. T!Vanish(id)
      BY <1>7, <2>1, <2>2, <2>4 DEF T!Vanish, T!Become
    <2> QED BY <2>5 DEF T!Next, Lives
  <1> QED BY <1>8, <1>9 DEF Good

LEMMA BeginCloseGood ==
  ASSUME ShellAssumption, IInv, NEW id \in Windows, BeginCloseTransition(id) PROVE Good
PROOF
  <1> DEFINE after == RestorePreferredFocus(Removed(world, id), PreferredFocus(id))
  <1>1. id \in world.windows /\ id \in Ids /\ ~ managed[id].closing
    BY WindowsManaged DEF BeginCloseTransition
  <1>2. UNCHANGED <<issued, lock, camera, animated>>
    BY DEF BeginCloseTransition
  <1>3. CASE ~ animated
    <2>1. UNCHANGED <<world, managed, seat, layers>>
      BY <1>3 DEF BeginCloseTransition
    <2> QED BY <1>2, <2>1, Typing, QuietGood
  <1>4. CASE animated
    <2>1. /\ managed' = [managed EXCEPT ![id].closing = TRUE]
          /\ world' = after /\ seat' = SetFocus(seat, after.focus) /\ Sync(layers)
      BY <1>4 DEF BeginCloseTransition
    <2>2. /\ after \in WorldSet /\ after.windows = world.windows \ {id}
          /\ after.fullscreen = world.fullscreen \ {id}
          /\ after.focus \in after.windows \cup {None} /\ after.focus # id
          /\ SetFocus(seat, after.focus) \in SeatSet
      BY <1>1, HandedOn
    <2> HIDE DEF after
    <2>3. ManagedWindow(managed[id])
      BY <1>1, Typing
    <2>4. /\ Ids' = Ids /\ managed'[id] = [managed[id] EXCEPT !.closing = TRUE]
          /\ \A o \in Ids : o # id => managed'[o] = managed[o]
      BY <1>1, <2>1 DEF Ids
    <2>5. ManagedWindow(managed'[id]) /\ managed'[id].closing
      BY <2>3, <2>4 DEF ManagedWindow
    <2>6. { o \in Ids' : ~ managed'[o].closing } = { o \in Ids : ~ managed[o].closing } \ {id}
      BY <2>4, <2>5
    <2>7. Leaves(id)
      BY <1>1, <1>2, <2>1, <2>2, <2>4, <2>5, <2>6, Typing DEF Leaves
    <2>8. IInv' /\ Carries /\ Hides
      BY <1>1, <2>7, LeavesKeeps
    <2>9. Lives
      <3>1. phase[id] \in {"waiting", "shown"}
        BY <1>1, PhaseOfManaged
      <3>2. phase' = [phase EXCEPT ![id] = "closing"]
        <4>1. phase'[id] = "closing"
          BY <1>1, <1>2, <2>4, <2>5, Typing, PhaseAfter
        <4>2. \A w \in Windows : w # id => phase'[w] = phase[w]
          BY <1>2, <2>4, PhaseStays
        <4> QED BY <4>1, <4>2, PhaseMoves
      <3>3. world'.focus \in T!Living(phase') \cup {None}
        BY <2>1, <2>2, <2>8, LivesAfter
      <3>4. T!Dismiss(id)
        BY <3>1, <3>2, <3>3 DEF T!Dismiss, T!Become
      <3> QED BY <3>4 DEF T!Next, Lives
    <2> QED BY <2>8, <2>9 DEF Good
  <1> QED BY <1>3, <1>4

LEMMA FinishGood ==
  ASSUME ShellAssumption, IInv, NEW done, done \in SUBSET Windows, FinishCloseTransitions(done)
  PROVE  Good
PROOF
  <1>1. /\ done # {} /\ done \subseteq Ids /\ \A id \in done : managed[id].closing
        /\ managed' = [o \in Ids \ done |-> managed[o]]
        /\ UNCHANGED <<world, issued, seat, layers, lock, camera, animated>>
    BY DEF FinishCloseTransitions, Fades
  <1>2. Ids' = Ids \ done /\ \A o \in Ids' : managed'[o] = managed[o]
    BY <1>1 DEF Ids
  <1>3. { o \in Ids' : ~ managed'[o].closing } = { o \in Ids : ~ managed[o].closing }
    BY <1>1, <1>2
  <1>4. WorldMatchesManaged'
    BY <1>1, <1>3 DEF IInv, WorldMatchesManaged
  <1>5. ShellTypeOK'
    BY <1>1, <1>2 DEF IInv, ShellTypeOK
  <1>6. IInv' /\ Carries /\ Hides
    BY <1>1, <1>4, <1>5, Typing DEF IInv, Carries, Hides, NoneHidden
  <1>7. Lives
    <2>1. \A id \in done : phase[id] = "closing"
      BY <1>1, PhaseOfManaged
    <2>2. phase' = [w \in Windows |-> IF w \in done THEN "gone" ELSE phase[w]]
      <3>1. phase' = [w \in Windows |-> phase'[w]]
        BY DEF phase
      <3>2. \A w \in done : phase'[w] = "gone"
        BY <1>1, <1>2, Typing, PhaseAfter
      <3>3. \A w \in Windows : w \notin done => phase'[w] = phase[w]
        BY <1>1, <1>2, PhaseStays
      <3> QED BY <3>1, <3>2, <3>3
    <2>3. T!End(done)
      BY <1>1, <2>1, <2>2 DEF T!End
    <2> QED BY <2>3 DEF T!Next, Lives
  <1> QED BY <1>6, <1>7 DEF Good

LEMMA FullscreenGood ==
  ASSUME ShellAssumption, IInv, NEW id \in Windows, ToggleFullscreen(id) PROVE Good
PROOF
  <1>1. /\ id \in world.windows /\ Sync(layers)
        /\ UNCHANGED <<managed, issued, seat, lock, camera, animated>>
    BY DEF ToggleFullscreen
  <1>2. PICK f : f = IF id \in world.fullscreen THEN world.fullscreen \ {id}
                     ELSE world.fullscreen \cup {id}
    OBVIOUS
  <1>3. world' = [world EXCEPT !.fullscreen = f]
    BY <1>2 DEF ToggleFullscreen
  <1>4. f \subseteq world.windows /\ f \in SUBSET Windows
    BY <1>1, <1>2, Typing DEF IInv, WorldMatchesManaged, WorldSet
  <1>5. /\ world' \in WorldSet /\ world'.windows = world.windows /\ world'.focus = world.focus
        /\ world'.fullscreen = f
    BY <1>3, <1>4, Typing DEF WorldSet
  <1>6. Ids' = Ids
    BY <1>1 DEF Ids
  <1>7. WorldMatchesManaged'
    BY <1>1, <1>4, <1>5, <1>6 DEF IInv, WorldMatchesManaged
  <1>8. IInv' /\ Hides
    BY <1>1, <1>5, <1>6, <1>7, Typing, WorldChanged
  <1>9. Carries
    BY <1>5 DEF Carries
  <1>10. phase' = phase
    BY <1>1, Typing, SamePhase
  <1> QED BY <1>5, <1>8, <1>9, <1>10 DEF Good, Lives

-----------------------------------------------------------------------------
(* All steps *)

LEMMA InitShell == ASSUME ShellAssumption PROVE Init => IInv /\ T!Init
PROOF
  <1> SUFFICES ASSUME Init PROVE IInv /\ T!Init
    OBVIOUS
  <1>1. Ids = {} /\ issued = {} /\ world.windows = {} /\ world.focus = None /\ world.fullscreen = {}
    BY DEF Init, Ids
  <1>2. layers \in LayerSet /\ NoneHidden(layers)
    <2>1. \A l \in Layers : layers[l] = NoLayer
      BY DEF Init
    <2>2. NoLayer.at # "hidden" /\ NoLayer \in [at : {"none", "mapped", "hidden"},
                                                 wants : Interactivity, noted : Interactivity]
      BY DEF NoLayer, Interactivity
    <2>3. layers = [l \in Layers |-> layers[l]]
      BY DEF Init
    <2> QED BY <2>1, <2>2, <2>3 DEF LayerSet, NoneHidden
  <1>3. world \in WorldSet /\ seat \in SeatSet
    BY DEF Init, WorldSet, SeatSet, Surface, Popup
  <1>4. ShellTypeOK
    BY <1>1, <1>2, <1>3 DEF Init, ShellTypeOK
  <1>5. IInv
    BY <1>1, <1>2, <1>4 DEF IInv, WorldMatchesManaged
  <1>6. phase = [w \in Windows |-> "unborn"]
    <2>1. phase = [w \in Windows |-> phase[w]]
      BY DEF phase
    <2>2. \A w \in Windows : phase[w] = "unborn"
      BY <1>1, PhaseOf
    <2> QED BY <2>1, <2>2
  <1> QED BY <1>1, <1>5, <1>6 DEF T!Init

LEMMA NextGood == ASSUME ShellAssumption, IInv, Next PROVE Good
PROOF
  <1>1. CASE ClientStep
    BY <1>1, NewGood, CommitGood, DestroyGood, RefreshFloatingGood, ActivateGood, SetParentGood
       DEF ClientStep, RequestActivation
  <1>2. CASE UserStep
    BY <1>2, ChooseGood, BeginCloseGood, GestureGood, ClickGood, CameraGood DEF UserStep
  <1>3. CASE FrameStep
    BY <1>3, FinishGood DEF FrameStep
  <1>4. CASE LayerStep
    BY <1>4, NewLayerGood, LayerDestroyedGood, CommitLayerGood, FullscreenGood DEF LayerStep
  <1> QED BY <1>1, <1>2, <1>3, <1>4, SeatStepGood, LockGood, ReloadGood DEF Next

LEMMA StutterGood == ASSUME IInv, UNCHANGED vars PROVE Good
PROOF
  <1>1. Ids' = Ids
    BY DEF vars, Ids
  <1>2. IInv'
    BY <1>1 DEF vars, IInv, ShellTypeOK, WorldMatchesManaged, NoneHidden
  <1>3. Carries /\ Hides
    BY DEF vars, Carries, Hides, IInv
  <1>4. phase' = phase
    BY <1>1 DEF vars, phase
  <1> QED BY <1>2, <1>3, <1>4 DEF vars, Lives, Good

LEMMA StepGood == IInv /\ [Next]_vars => Good
  BY ShellAssumption, NextGood, StutterGood

LEMMA Invariant == Spec => []IInv
PROOF
  <1>1. Init => IInv
    BY ShellAssumption, InitShell
  <1>2. IInv /\ [Next]_vars => IInv'
    BY StepGood DEF Good
  <1> QED BY <1>1, <1>2, PTL DEF Spec

-----------------------------------------------------------------------------
(* What comes back, and what stays *)

\* Handlers that leave the layers to the sync, and the lock on.
Unlayered == (layers' = layers \/ Sync(layers)) /\ (lock.on => lock'.on)

LEMMA FocusAtUnlayered ==
  ASSUME NEW surface, FocusAt(surface), UNCHANGED lock PROVE Unlayered
  BY DEF FocusAt, Take, Unlayered

LEMMA Activates ==
  ASSUME NEW a, Take(a, layers), UNCHANGED lock PROVE Unlayered
  BY DEF Take, Unlayered

LEMMA CommitUnlayered ==
  ASSUME NEW id, CommitToplevel(id) PROVE Unlayered
PROOF
  <1>1. \E a : Take(a, layers)
    BY DEF CommitToplevel
  <1>2. UNCHANGED lock
    BY DEF CommitToplevel
  <1> QED BY <1>1, <1>2, Activates

LEMMA MostUnlayered ==
  ASSUME IInv, Next
  PROVE  \/ Unlayered
         \/ Unlock
         \/ \E l \in Layers : NewLayerSurface(l) \/ LayerDestroyed(l)
         \/ \E l \in Layers, wants \in Interactivity : CommitLayer(l, wants)
PROOF
  <1>1. CASE ClientStep
    <2>1. ASSUME NEW id, NewToplevel(id) \/ DestroyToplevel(id) \/ RefreshAutoFloating(id)
          PROVE  Unlayered
      BY <2>1 DEF NewToplevel, DestroyToplevel, RefreshAutoFloating, Unlayered
    <2>2. ASSUME NEW id, NEW parent, SetParent(id, parent) PROVE Unlayered
      BY <2>2 DEF SetParent, Unlayered
    <2>3. ASSUME NEW id, RequestActivation(id) PROVE Unlayered
      BY <2>3, Activates DEF RequestActivation, ActivateWindow
    <2> QED BY <1>1, <2>1, <2>2, <2>3, CommitUnlayered DEF ClientStep
  <1>2. CASE UserStep
    <2>1. ASSUME NEW id, ChooseWindow(id) PROVE Unlayered
      BY <2>1, Activates DEF ChooseWindow
    <2>2. ASSUME NEW id, BeginCloseTransition(id) PROVE Unlayered
      BY <2>2 DEF BeginCloseTransition, Unlayered
    <2>3. ASSUME NEW id, GestureEnds(id) PROVE Unlayered
      BY <2>3, Activates DEF GestureEnds, Unlayered
    <2>4. ASSUME NEW surface, Click(surface) PROVE Unlayered
      BY <2>4, FocusAtUnlayered DEF Click, Unlayered
    <2>5. ASSUME CameraMoves \/ PanCamera PROVE Unlayered
      BY <2>5 DEF CameraMoves, PanCamera, Unlayered
    <2> QED BY <1>2, <2>1, <2>2, <2>3, <2>4, <2>5 DEF UserStep
  <1>3. CASE FrameStep \/ ReloadConfig
    BY <1>3 DEF FrameStep, FinishCloseTransitions, ReloadConfig, Unlayered
  <1>4. CASE SeatStep
    <2>1. ASSUME NEW surface, TouchDown(surface) PROVE Unlayered
      BY <2>1, FocusAtUnlayered DEF TouchDown
    <2>2. ASSUME NEW surface, GrabPopup(surface) PROVE Unlayered
      BY <2>2 DEF GrabPopup, Unlayered
    <2>3. ASSUME PopupDestroyed \/ KeyPress PROVE Unlayered
      BY <2>3 DEF PopupDestroyed, KeyPress, Unlayered
    <2> QED BY <1>4, <2>1, <2>2, <2>3 DEF SeatStep
  <1>5. CASE LayerStep
    <2>1. ASSUME NEW id, ToggleFullscreen(id) PROVE Unlayered
      BY <2>1 DEF ToggleFullscreen, Unlayered
    <2> QED BY <1>5, <2>1 DEF LayerStep
  <1>6. CASE LockStep
    <2>1. CASE Lock
      BY <2>1 DEF Lock, Unlayered
    <2>2. CASE NewLockSurface
      <3>1. lock \in [on : BOOLEAN, surface : BOOLEAN]
        BY DEF IInv, ShellTypeOK
      <3>2. lock' = [lock EXCEPT !.surface = TRUE] /\ layers' = layers
        BY <2>2 DEF NewLockSurface
      <3>3. lock'.on = lock.on
        BY <3>1, <3>2
      <3> QED BY <3>2, <3>3 DEF Unlayered
    <2> QED BY <1>6, <2>1, <2>2 DEF LockStep
  <1> QED BY <1>1, <1>2, <1>3, <1>4, <1>5, <1>6 DEF Next

\* A sync takes no layer away, and leaves what it wants.
LEMMA SyncKeeps ==
  ASSUME NEW ls \in LayerSet, NEW l \in Layers, ls[l].at = "mapped", NEW fullscreen
  PROVE  LET r == Refreshed(ls, fullscreen)[l] IN r.at # "none" /\ r.wants = ls[l].wants
PROOF
  <1> DEFINE r == Refreshed(ls, fullscreen)[l]
  <1>1. ls[l] \in [at : {"none", "mapped", "hidden"}, wants : Interactivity, noted : Interactivity]
    BY DEF LayerSet
  <1>2. r = ls[l] \/ r = [ls[l] EXCEPT !.at = "hidden"]
    BY DEF Refreshed
  <1> HIDE DEF r
  <1>3. r.at # "none" /\ r.wants = ls[l].wants
    BY <1>1, <1>2
  <1> QED BY <1>3 DEF r

\* Whoever it is given to, the keyboard of an activated window is its own.
LEMMA ActivatedKeyed ==
  ASSUME IInv, NEW id, NEW policy PROVE Activated(world, seat, camera, id, policy).seat.focus = id
PROOF
  <1> DEFINE free == DismissPopup(seat, id)
  <1>1. Activated(world, seat, camera, id, policy).seat = SetFocus(free, id)
    BY DEF Activated
  <1>2. free.popup = "none" \/ free.focus = id
    BY DEF DismissPopup
  <1>3. SetFocus(free, id).focus = id
    <2> HIDE DEF free
    <2> QED BY <1>2 DEF SetFocus
  <1> QED BY <1>1, <1>3

\* The keyboard goes to the focus of the World, whatever that is.
LEMMA Returned ==
  ASSUME IInv, NEW ls, ReturnKeyboard(ls), seat.popup = "none" PROVE seat'.focus = world.focus
PROOF
  <1>1. CASE world.focus # None
    BY <1>1, ActivatedKeyed DEF ReturnKeyboard, Take
  <1>2. CASE world.focus = None
    BY <1>2 DEF ReturnKeyboard, SetFocus
  <1> QED BY <1>1, <1>2

LEMMA ComesBack ==
  ASSUME ShellAssumption, IInv, Next,
         \/ \E l \in Layers : HasKeyboard(l) /\ layers[l].at = "mapped" /\ GivesUp(l)
         \/ lock.on /\ ~ lock'.on /\ world.focus # None
  PROVE  seat'.focus = world.focus
PROOF
  <1>0. layers \in LayerSet
    BY Typing
  <1>1. CASE Unlayered
    <2>1. PICK l \in Layers : layers[l].at = "mapped" /\ GivesUp(l)
      BY <1>1 DEF Unlayered
    <2>2. layers'[l].at # "none" /\ layers'[l].wants = layers[l].wants
      BY <1>0, <1>1, <2>1, SyncKeeps DEF Unlayered, Sync
    <2> QED BY <2>1, <2>2 DEF GivesUp
  <1>2. CASE Unlock
    <2>1. CASE world.focus # None
      BY <1>2, <2>1, ActivatedKeyed DEF Unlock, Take
    <2>2. CASE world.focus = None
      <3>1. layers' = layers
        BY <1>2, <2>2 DEF Unlock
      <3> QED BY <2>2, <3>1 DEF GivesUp
    <2> QED BY <2>1, <2>2
  <1>3. ASSUME NEW k \in Layers, NewLayerSurface(k) PROVE FALSE
    <2>1. /\ layers[k].at = "none" /\ layers' = [layers EXCEPT ![k].at = "mapped"]
          /\ lock' = lock
      BY <1>3 DEF NewLayerSurface
    <2>2. PICK l \in Layers : layers[l].at = "mapped" /\ GivesUp(l)
      BY <2>1
    <2>3. layers'[l] = layers[l]
      BY <1>0, <2>1, <2>2 DEF LayerSet
    <2> QED BY <2>2, <2>3 DEF GivesUp
  <1>4. ASSUME NEW k \in Layers, LayerDestroyed(k) PROVE seat'.focus = world.focus
    <2> DEFINE gone == [layers EXCEPT ![k] = NoLayer]
               ls == IF layers[k].at = "mapped" THEN Refreshed(gone, world.fullscreen) ELSE gone
    <2>1. lock' = lock
      BY <1>4 DEF LayerDestroyed
    <2>2. PICK l \in Layers : HasKeyboard(l) /\ layers[l].at = "mapped" /\ GivesUp(l)
      BY <2>1
    <2>3. CASE HasKeyboard(k)
      <3>1. ReturnKeyboard(ls)
        BY <1>4, <2>3 DEF LayerDestroyed
      <3> HIDE DEF ls
      <3> QED BY <2>3, <3>1, Returned DEF HasKeyboard
    <2>4. CASE ~ HasKeyboard(k)
      <3>1. l # k /\ layers' = ls
        BY <1>4, <2>2, <2>4 DEF LayerDestroyed
      <3>2. gone \in LayerSet /\ gone[l] = layers[l]
        BY <1>0, <3>1 DEF LayerSet, NoLayer, Interactivity
      <3> HIDE DEF gone
      <3>3. layers'[l].at # "none" /\ layers'[l].wants = layers[l].wants
        BY <2>2, <3>1, <3>2, SyncKeeps
      <3> QED BY <2>2, <3>3 DEF GivesUp
    <2> QED BY <2>3, <2>4
  <1>5. ASSUME NEW k \in Layers, NEW wants \in Interactivity, CommitLayer(k, wants)
        PROVE  seat'.focus = world.focus
    <2>1. lock' = lock
      BY <1>5 DEF CommitLayer
    <2>2. PICK l \in Layers : HasKeyboard(l) /\ layers[l].at = "mapped" /\ GivesUp(l)
      BY <2>1
    <2> DEFINE ls == [layers EXCEPT ![k].wants = wants, ![k].noted = wants]
               kept == [layers EXCEPT ![k].wants = wants]
               returns == /\ ~ ShouldFocusOnCommit(layers[k].noted, wants) /\ wants = "None"
                          /\ HasKeyboard(k)
    <2>3. /\ ls \in LayerSet /\ kept \in LayerSet
          /\ l # k => ls[l] = layers[l] /\ kept[l] = layers[l]
          /\ ls[k].wants = wants /\ ls[k].at = layers[k].at
      BY <1>0 DEF LayerSet
    <2>4. CASE layers[k].at = "hidden" /\ layers' = kept
      <3>1. layers'[l] = layers[l]
        BY <2>2, <2>3, <2>4
      <3> QED BY <2>2, <3>1 DEF GivesUp
    <2>5. CASE layers[k].at = "mapped" /\ returns
      <3>1. ReturnKeyboard(Refreshed(ls, world.fullscreen))
        BY <1>5, <2>5 DEF CommitLayer
      <3> HIDE DEF ls
      <3> QED BY <2>5, <3>1, Returned DEF HasKeyboard
    <2>6. CASE layers[k].at = "mapped" /\ ~ returns
      <3>1. Sync(ls)
        BY <1>5, <2>6 DEF CommitLayer
      <3>2. ls[l].at = "mapped"
        BY <2>2, <2>3
      <3>3. layers'[l].at # "none" /\ layers'[l].wants = ls[l].wants
        <4>1. ls \in LayerSet /\ layers' = Refreshed(ls, world'.fullscreen)
          BY <2>3, <3>1 DEF Sync
        <4> HIDE DEF ls
        <4> QED BY <3>2, <4>1, SyncKeeps
      <3>4. l = k /\ wants = "None"
        BY <2>2, <2>3, <3>3 DEF GivesUp
      <3>5. FALSE
        BY <2>2, <2>6, <3>4 DEF ShouldFocusOnCommit
      <3> QED BY <3>5
    <2> QED BY <1>5, <2>4, <2>5, <2>6 DEF CommitLayer
  <1> QED BY <1>1, <1>2, <1>3, <1>4, <1>5, MostUnlayered

\* What is drawn of a window may start afresh; the window stays.
LEMMA ResetIds ==
  ASSUME NEW ms, NEW ns \in ResetPresentations(ms) PROVE DOMAIN ns = DOMAIN ms
  BY DEF ResetPresentations

LEMMA FloatedIds ==
  ASSUME NEW id, NEW ms, DOMAIN ms = Ids, Floated(id, ms) PROVE Ids' = Ids
  BY ResetIds DEF Floated, Ids

LEMMA CommitIds ==
  ASSUME NEW id, CommitToplevel(id) PROVE Ids' = Ids
PROOF
  <1>1. PICK floats :
          LET m     == [managed[id] EXCEPT !.floats = floats]
              after == [managed EXCEPT ![id] = [m EXCEPT !.deferred = ShouldDefer(m),
                                                         !.ready = ~ ShouldDefer(m)]]
          IN  managed' \in IF Centres(id, m.candidates, floats)
                           THEN ResetPresentations(after) ELSE {after}
    BY DEF CommitToplevel
  <1> DEFINE m     == [managed[id] EXCEPT !.floats = floats]
             after == [managed EXCEPT ![id] = [m EXCEPT !.deferred = ShouldDefer(m),
                                                        !.ready = ~ ShouldDefer(m)]]
  <1>2. managed' \in ResetPresentations(after) \/ managed' = after
    BY <1>1
  <1>3. DOMAIN after = Ids
    BY DEF Ids
  <1> HIDE DEF after
  <1> QED BY <1>2, <1>3, ResetIds DEF Ids

\* No handler both takes windows away and moves the camera.
LEMMA CameraOrIds ==
  ASSUME Next PROVE Ids' = Ids \/ camera' = camera
PROOF
  <1>1. CASE ClientStep
    <2>1. ASSUME NEW id, NewToplevel(id) \/ DestroyToplevel(id) PROVE camera' = camera
      BY <2>1 DEF NewToplevel, DestroyToplevel
    <2>2. ASSUME NEW id, RefreshAutoFloating(id) PROVE Ids' = Ids
      <3>1. PICK floats : Floated(id, [managed EXCEPT ![id].floats = floats])
        BY <2>2 DEF RefreshAutoFloating
      <3> QED BY <3>1, FloatedIds DEF Ids
    <2>3. ASSUME NEW id, NEW parent, SetParent(id, parent) PROVE Ids' = Ids
      <3>1. PICK c, floats : Floated(id, [managed EXCEPT ![id].parent = parent,
                                            ![id].candidates = c, ![id].floats = floats])
        BY <2>3 DEF SetParent
      <3> QED BY <3>1, FloatedIds DEF Ids
    <2>4. ASSUME NEW id, RequestActivation(id) PROVE Ids' = Ids
      BY <2>4 DEF RequestActivation, ActivateWindow, Ids
    <2> QED BY <1>1, <2>1, <2>2, <2>3, <2>4, CommitIds DEF ClientStep
  <1>2. CASE UserStep
    <2>1. ASSUME NEW id, BeginCloseTransition(id) PROVE camera' = camera
      BY <2>1 DEF BeginCloseTransition
    <2>2. ASSUME NEW id, ChooseWindow(id) \/ GestureEnds(id) PROVE Ids' = Ids
      BY <2>2 DEF ChooseWindow, GestureEnds, Ids
    <2>3. ASSUME NEW surface, Click(surface) PROVE Ids' = Ids
      BY <2>3 DEF Click, Ids
    <2>4. ASSUME CameraMoves \/ PanCamera PROVE Ids' = Ids
      BY <2>4, ResetIds DEF CameraMoves, PanCamera, Ids
    <2> QED BY <1>2, <2>1, <2>2, <2>3, <2>4 DEF UserStep
  <1>3. CASE FrameStep \/ ReloadConfig
    BY <1>3 DEF FrameStep, FinishCloseTransitions, ReloadConfig
  <1>4. CASE SeatStep
    BY <1>4 DEF SeatStep, TouchDown, GrabPopup, PopupDestroyed, KeyPress, Ids
  <1>5. CASE LayerStep
    BY <1>5 DEF LayerStep, NewLayerSurface, LayerDestroyed, CommitLayer, ToggleFullscreen, Ids
  <1>6. CASE LockStep
    BY <1>6 DEF LockStep, Lock, NewLockSurface, Unlock, Ids
  <1> QED BY <1>1, <1>2, <1>3, <1>4, <1>5, <1>6 DEF Next

\* The window that has the focus and gets the keyboard again is not followed.
LEMMA NotFollowed ==
  ASSUME ShellAssumption, IInv, NEW id \in Ids, NEW ls,
         Take(Activated(world, seat, camera, id, "OnFocusChange"), ls),
         world'.focus = world.focus, KeyWindow(seat) \in {world.focus, None}
  PROVE  camera' = camera
PROOF
  <1> DEFINE free == DismissPopup(seat, id)
             previous == IF KeyWindow(free) # None THEN KeyWindow(free) ELSE world.focus
             keyed == SetFocus(free, id)
             done == keyed.popup = "none" /\ id \in world.windows
  <1>1. /\ world' = FocusedOn(world, id)
        /\ camera' = IF done /\ CameraShouldFollow(previous, id, "OnFocusChange") THEN TRUE ELSE camera
    BY DEF Take, Activated
  <1>2. CASE id \in world.windows
    <2>1. world.focus = id
      BY <1>1, <1>2, Typing DEF FocusedOn, WorldSet
    <2>2. KeyWindow(free) \in {world.focus, None}
      <3>1. free = seat \/ free = [focus |-> None, popup |-> "none"]
        BY DEF DismissPopup
      <3> HIDE DEF free
      <3> QED BY <3>1 DEF KeyWindow
    <2>3. previous = id
      <3> HIDE DEF free
      <3> QED BY <2>1, <2>2
    <2> HIDE DEF previous, done
    <2> QED BY <1>1, <2>3 DEF CameraShouldFollow
  <1>3. CASE id \notin world.windows
    <2> HIDE DEF previous, keyed
    <2> QED BY <1>1, <1>3
  <1> QED BY <1>2, <1>3

LEMMA ReturnNotFollowed ==
  ASSUME ShellAssumption, IInv, NEW ls, ReturnKeyboard(ls),
         world'.focus = world.focus, KeyWindow(seat) \in {world.focus, None}
  PROVE  camera' = camera
PROOF
  <1>1. CASE world.focus = None
    BY <1>1 DEF ReturnKeyboard
  <1>2. CASE world.focus # None
    <2>1. world.focus \in Ids
      BY <1>2, WindowsManaged DEF IInv, WorldMatchesManaged
    <2> QED BY <1>2, <2>1, NotFollowed DEF ReturnKeyboard
  <1> QED BY <1>1, <1>2

LEMMA FocusAtNotFollowed ==
  ASSUME ShellAssumption, IInv, NEW surface \in Hit, FocusAt(surface),
         world'.focus = world.focus, KeyWindow(seat) \in {world.focus, None}
  PROVE  camera' = camera
PROOF
  <1>1. CASE surface \in Layers
    BY <1>1 DEF FocusAt
  <1>2. CASE surface \notin Layers
    <2>1. surface \in Ids
      BY <1>2 DEF Hit
    <2> QED BY <1>2, <2>1, NotFollowed DEF FocusAt
  <1> QED BY <1>1, <1>2

LEMMA StaysStill ==
  ASSUME ShellAssumption, IInv, Unfocusing,
         world'.focus = world.focus, KeyWindow(seat) \in {world.focus, None}
  PROVE  camera' = camera
PROOF
  <1>1. ASSUME NEW l \in Layers, LayerDestroyed(l) PROVE camera' = camera
    BY <1>1, ReturnNotFollowed DEF LayerDestroyed
  <1>2. ASSUME NEW l \in Layers, NEW wants \in Interactivity, CommitLayer(l, wants)
        PROVE  camera' = camera
    BY <1>2, ReturnNotFollowed DEF CommitLayer
  <1>3. CASE LockStep
    <2>1. CASE Lock \/ NewLockSurface
      BY <2>1 DEF Lock, NewLockSurface
    <2>2. CASE Unlock
      <3>1. CASE world.focus = None
        BY <2>2, <3>1 DEF Unlock
      <3>2. CASE world.focus # None
        <4>1. world.focus \in Ids
          BY <3>2, WindowsManaged DEF IInv, WorldMatchesManaged
        <4> QED BY <2>2, <3>2, <4>1, NotFollowed DEF Unlock
      <3> QED BY <3>1, <3>2
    <2> QED BY <1>3, <2>1, <2>2 DEF LockStep
  <1>4. ASSUME NEW surface, Click(surface) \/ TouchDown(surface) PROVE camera' = camera
    BY <1>4, FocusAtNotFollowed DEF Click, TouchDown
  <1>5. ASSUME NEW id, RequestActivation(id) PROVE camera' = camera
    BY <1>5, NotFollowed DEF RequestActivation, ActivateWindow
  <1> QED BY <1>1, <1>2, <1>3, <1>4, <1>5 DEF Unfocusing

-----------------------------------------------------------------------------
(* The family of a dialog *)

\* Whom a window returns the focus to: windows, and if it has a parent that first.
Heirs(m) ==
  /\ m.candidates \in Seq(Windows)
  /\ m.parent # None => m.candidates # << >> /\ m.candidates[1] = m.parent

Families == \A id \in Ids : Heirs(managed[id])

\* One more candidate that may already be there.
MergedOne(merged, id) ==
  IF \E i \in DOMAIN merged : merged[i] = id THEN merged ELSE Append(merged, id)

MergedSteps(f, chain, n) ==
  f = [k \in 0..n |-> IF k = 0 THEN << >> ELSE MergedOne(f[k - 1], chain[k])]

\* The loop over the candidates comes to its end.
LEMMA MergedExists ==
  ASSUME NEW chain \in Seq(Windows), NEW n \in 0..Len(chain)
  PROVE  \E f : MergedSteps(f, chain, n)
PROOF
  <1> DEFINE bad == { k \in 0..Len(chain) : ~ \E f : MergedSteps(f, chain, k) }
  <1>1. SUFFICES ASSUME bad # {} PROVE FALSE
    OBVIOUS
  <1>2. bad \subseteq Nat
    OBVIOUS
  <1>3. PICK k \in bad : \A j \in bad : k <= j
    <2> HIDE DEF bad
    <2> QED BY <1>1, <1>2, LeastNumber
  <1>4. k \in 0..Len(chain) /\ ~ \E f : MergedSteps(f, chain, k)
    BY <1>3
  <1>5. k # 0
    <2>1. MergedSteps([j \in 0..0 |-> << >>], chain, 0)
      BY DEF MergedSteps
    <2> QED BY <1>4, <2>1
  <1>6. k - 1 \in 0..Len(chain) /\ k - 1 \notin bad
    BY <1>3, <1>4, <1>5
  <1>7. PICK f : MergedSteps(f, chain, k - 1)
    BY <1>6
  <1> DEFINE g == [j \in 0..k |-> IF j = k THEN MergedOne(f[k - 1], chain[k]) ELSE f[j]]
  <1>8. \A j \in 0..k : g[j] = IF j = 0 THEN << >> ELSE MergedOne(g[j - 1], chain[j])
    <2>1. TAKE j \in 0..k
    <2>2. CASE j = k
      BY <1>4, <1>5, <2>2
    <2>3. CASE j # k
      <3>1. j \in 0..(k - 1) /\ g[j] = f[j] /\ (j # 0 => g[j - 1] = f[j - 1])
        BY <1>4, <1>5, <2>3
      <3>2. f[j] = IF j = 0 THEN << >> ELSE MergedOne(f[j - 1], chain[j])
        BY <1>7, <3>1 DEF MergedSteps
      <3> HIDE DEF g
      <3> QED BY <3>1, <3>2
    <2> QED BY <2>2, <2>3
  <1>9. g = [j \in 0..k |-> g[j]]
    OBVIOUS
  <1> HIDE DEF g
  <1>10. MergedSteps(g, chain, k)
    BY <1>8, <1>9 DEF MergedSteps
  <1> QED BY <1>4, <1>10

\* It keeps the first candidate where it was.
LEMMA MergedFirst ==
  ASSUME NEW chain \in Seq(Windows), NEW f, MergedSteps(f, chain, Len(chain)),
         NEW n \in 0..Len(chain)
  PROVE  f[n] \in Seq(Windows) /\ (n # 0 => f[n] # << >> /\ f[n][1] = chain[1])
PROOF
  <1> DEFINE Right(k) == f[k] \in Seq(Windows) /\ (k # 0 => f[k] # << >> /\ f[k][1] = chain[1])
             bad      == { k \in 0..Len(chain) : ~ Right(k) }
  <1>1. SUFFICES ASSUME bad # {} PROVE FALSE
    OBVIOUS
  <1>2. bad \subseteq Nat
    OBVIOUS
  <1>3. PICK k \in bad : \A j \in bad : k <= j
    <2> HIDE DEF bad
    <2> QED BY <1>1, <1>2, LeastNumber
  <1>4. k \in 0..Len(chain) /\ ~ Right(k)
    BY <1>3
  <1>5. f[k] = IF k = 0 THEN << >> ELSE MergedOne(f[k - 1], chain[k])
    BY <1>4 DEF MergedSteps
  <1>6. CASE k = 0
    BY <1>4, <1>5, <1>6
  <1>7. CASE k # 0
    <2>1. k - 1 \in 0..Len(chain) /\ Right(k - 1)
      BY <1>3, <1>4, <1>7
    <2>2. chain[k] \in Windows
      BY <1>4, <1>7
    <2>3. f[k] = f[k - 1] \/ f[k] = Append(f[k - 1], chain[k])
      BY <1>5, <1>7 DEF MergedOne
    <2>4. CASE k = 1
      <3>1. f[0] = << >>
        BY DEF MergedSteps
      <3>2. f[1] = MergedOne(<< >>, chain[1])
        BY <1>5, <2>4, <3>1
      <3>3. f[1] = << chain[1] >>
        BY <3>2 DEF MergedOne
      <3> QED BY <1>4, <2>2, <2>4, <3>3
    <2>5. CASE k # 1
      <3>1. f[k - 1] # << >> /\ f[k - 1][1] = chain[1]
        BY <1>4, <1>7, <2>1, <2>5
      <3>2. ASSUME NEW q \in Seq(Windows), q # << >>, q[1] = chain[1], NEW x \in Windows
            PROVE  Append(q, x) \in Seq(Windows) /\ Append(q, x) # << >> /\ Append(q, x)[1] = chain[1]
        BY <3>2
      <3>3. f[k] \in Seq(Windows) /\ f[k] # << >> /\ f[k][1] = chain[1]
        BY <2>1, <2>2, <2>3, <3>1, <3>2
      <3> QED BY <1>4, <3>3
    <2> QED BY <2>4, <2>5
  <1> QED BY <1>6, <1>7

\* The parent comes first among those who may get the focus back.
LEMMA ParentFirst ==
  ASSUME NEW parent \in Windows \cup {None}, NEW inherited \in Seq(Windows),
         NEW fallback \in Seq(Windows)
  PROVE  LET c == MergeFocusCandidates(parent, inherited, fallback)
         IN  /\ c \in Seq(Windows)
             /\ parent # None => c # << >> /\ c[1] = parent
PROOF
  <1> DEFINE chain == (IF parent = None THEN << >> ELSE <<parent>>) \o inherited \o fallback
             c     == MergeFocusCandidates(parent, inherited, fallback)
  <1>1. chain \in Seq(Windows) /\ Len(chain) \in Nat
    OBVIOUS
  <1>2. parent # None => Len(chain) # 0 /\ chain[1] = parent
    OBVIOUS
  <1>3. c = (CHOOSE f : MergedSteps(f, chain, Len(chain)))[Len(chain)]
    BY DEF MergeFocusCandidates, MergedSteps, MergedOne
  <1> HIDE DEF chain, c
  <1> DEFINE f == CHOOSE f : MergedSteps(f, chain, Len(chain))
  <1>4. Len(chain) \in 0..Len(chain)
    BY <1>1
  <1>5. MergedSteps(f, chain, Len(chain))
    BY <1>1, <1>4, MergedExists
  <1>6. c = f[Len(chain)]
    BY <1>3
  <1> HIDE DEF f
  <1>7. c \in Seq(Windows) /\ (Len(chain) # 0 => c # << >> /\ c[1] = chain[1])
    BY <1>1, <1>4, <1>5, <1>6, MergedFirst
  <1> QED BY <1>2, <1>7 DEF c

\* Those windows that are still managed have the family they had.
SameFamily(ms, ns) ==
  /\ DOMAIN ns \subseteq DOMAIN ms
  /\ \A id \in DOMAIN ns : /\ ns[id].candidates = ms[id].candidates
                           /\ ns[id].parent = ms[id].parent

LEMMA SameFamilies ==
  ASSUME Families, SameFamily(managed, managed') PROVE Families'
  BY DEF Families, SameFamily, Heirs, Ids

LEMMA FamilyTwice ==
  ASSUME NEW ms, NEW ns, NEW os, SameFamily(ms, ns), SameFamily(ns, os)
  PROVE  SameFamily(ms, os)
  BY DEF SameFamily

LEMMA ResetFamily ==
  ASSUME NEW ms, \A id \in DOMAIN ms : ManagedWindow(ms[id]), NEW ns \in ResetPresentations(ms)
  PROVE  DOMAIN ns = DOMAIN ms /\ SameFamily(ms, ns)
PROOF
  <1>1. PICK f \in [DOMAIN ms -> BOOLEAN] : ns = [id \in DOMAIN ms |-> [ms[id] EXCEPT !.frozen = f[id]]]
    BY DEF ResetPresentations
  <1>2. DOMAIN ns = DOMAIN ms
    BY <1>1
  <1>3. ASSUME NEW id \in DOMAIN ms
        PROVE  ns[id].candidates = ms[id].candidates /\ ns[id].parent = ms[id].parent
    BY <1>1, <1>3 DEF ManagedWindow
  <1> QED BY <1>2, <1>3 DEF SameFamily

\* One record that is as the old one but for its family's fields.
LEMMA OneFamily ==
  ASSUME NEW id, NEW m, m.candidates = managed[id].candidates, m.parent = managed[id].parent
  PROVE  SameFamily(managed, [managed EXCEPT ![id] = m])
  BY DEF SameFamily

LEMMA FloatedFamily ==
  ASSUME NEW id, NEW ms, \A o \in DOMAIN ms : ManagedWindow(ms[o]), Floated(id, ms)
  PROVE  DOMAIN managed' = DOMAIN ms /\ SameFamily(ms, managed')
PROOF
  <1>1. CASE managed' \in ResetPresentations(ms)
    BY <1>1, ResetFamily
  <1>2. CASE managed' = ms
    BY <1>2 DEF SameFamily
  <1> QED BY <1>1, <1>2 DEF Floated

\* Only a new window and one that is given a parent get a family.
LEMMA NewFamily ==
  ASSUME ShellAssumption, IInv, Families, NEW id \in Windows, NewToplevel(id) PROVE Families'
PROOF
  <1>1. world.focus \in Windows \cup {None}
    BY Typing DEF WorldSet
  <1>2. /\ Ids' = Ids \cup {id} /\ \A o \in Ids : o # id => managed'[o] = managed[o]
        /\ managed'[id].parent = None
        /\ managed'[id].candidates = IF world.focus = None THEN << >> ELSE <<world.focus>>
    BY DEF NewToplevel, Ids
  <1>3. Heirs(managed[id])'
    BY <1>1, <1>2 DEF Heirs
  <1>4. \A o \in Ids : o # id => Heirs(managed[o])'
    BY <1>2 DEF Families, Heirs
  <1> QED BY <1>2, <1>3, <1>4 DEF Families

LEMMA ParentFamily ==
  ASSUME ShellAssumption, IInv, Families, NEW id, NEW parent, SetParent(id, parent)
  PROVE  Families'
PROOF
  <1> DEFINE inherited == IF parent = None THEN << >> ELSE managed[parent].candidates
             c         == MergeFocusCandidates(parent, inherited, managed[id].candidates)
  <1>1. id \in Ids /\ parent \in Ids \cup {None}
    BY DEF SetParent
  <1>2. PICK floats \in FloatsAfter(id, parent) :
          Floated(id, [managed EXCEPT ![id].parent = parent, ![id].candidates = c,
                                      ![id].floats = floats])
    BY DEF SetParent
  <1>3. /\ floats \in BOOLEAN /\ ManagedWindow(managed[id]) /\ parent \in Windows \cup {None}
    BY <1>1, FloatsType, Typing
  <1>4. inherited \in Seq(Windows) /\ managed[id].candidates \in Seq(Windows)
    BY <1>1 DEF Families, Heirs
  <1> HIDE DEF inherited
  <1>5. c \in Seq(Windows) /\ (parent # None => c # << >> /\ c[1] = parent)
    BY <1>3, <1>4, ParentFirst
  <1> HIDE DEF c
  <1> DEFINE n == Parented(managed[id], parent, c, floats)
             ms == [managed EXCEPT ![id] = n]
  <1>6. ManagedWindow(n) /\ n.parent = parent /\ n.candidates = c
    BY <1>3, ParentWindow DEF Parented, ManagedWindow
  <1>7. Floated(id, ms)
    BY <1>1, <1>2 DEF Ids, Parented
  <1>8. Heirs(n)
    BY <1>5, <1>6 DEF Heirs
  <1> HIDE DEF n
  <1>9. DOMAIN ms = Ids /\ \A o \in Ids : ManagedWindow(ms[o]) /\ Heirs(ms[o])
    BY <1>1, <1>6, <1>8, Typing DEF Ids, Families
  <1> HIDE DEF ms
  <1>10. DOMAIN managed' = Ids /\ SameFamily(ms, managed')
    BY <1>7, <1>9, FloatedFamily
  <1> QED BY <1>9, <1>10 DEF Families, Heirs, SameFamily, Ids

LEMMA CommitFamily ==
  ASSUME ShellAssumption, IInv, NEW id, CommitToplevel(id) PROVE SameFamily(managed, managed')
PROOF
  <1>1. id \in Ids /\ ManagedWindow(managed[id])
    BY Typing DEF CommitToplevel
  <1>2. PICK floats \in FloatsAfter(id, managed[id].parent) :
          LET m     == [managed[id] EXCEPT !.floats = floats]
              after == [managed EXCEPT ![id] = [m EXCEPT !.deferred = ShouldDefer(m),
                                                         !.ready = ~ ShouldDefer(m)]]
          IN  managed' \in IF Centres(id, m.candidates, floats)
                           THEN ResetPresentations(after) ELSE {after}
    BY DEF CommitToplevel
  <1> DEFINE m     == [managed[id] EXCEPT !.floats = floats]
             n     == [m EXCEPT !.deferred = ShouldDefer(m), !.ready = ~ ShouldDefer(m)]
             after == [managed EXCEPT ![id] = n]
  <1>3. managed' \in ResetPresentations(after) \/ managed' = after
    BY <1>2
  <1>4. floats \in BOOLEAN /\ ShouldDefer(m) \in BOOLEAN
    BY <1>1, FloatsType DEF ShouldDefer
  <1>5. ManagedWindow(m) /\ m.candidates = managed[id].candidates /\ m.parent = managed[id].parent
    BY <1>1, <1>4 DEF ManagedWindow
  <1> HIDE DEF m
  <1>6. ManagedWindow(n) /\ n.candidates = managed[id].candidates /\ n.parent = managed[id].parent
    BY <1>4, <1>5 DEF ManagedWindow
  <1> HIDE DEF n
  <1>7. SameFamily(managed, after) /\ \A o \in DOMAIN after : ManagedWindow(after[o])
    BY <1>1, <1>6, OneFamily, Typing DEF Ids
  <1> HIDE DEF after
  <1>8. SameFamily(after, managed')
    BY <1>3, <1>7, ResetFamily DEF SameFamily
  <1> QED BY <1>7, <1>8, FamilyTwice

LEMMA FamilyStep ==
  ASSUME ShellAssumption, IInv, Families, Next PROVE Families'
PROOF
  <1>1. managed' = managed => SameFamily(managed, managed')
    BY DEF SameFamily
  <1>2. CASE ClientStep
    <2>1. ASSUME NEW id, DestroyToplevel(id) PROVE SameFamily(managed, managed')
      BY <2>1 DEF DestroyToplevel, SameFamily, Ids
    <2>2. ASSUME NEW id, RefreshAutoFloating(id) PROVE SameFamily(managed, managed')
      <3>1. PICK floats \in FloatsAfter(id, managed[id].parent) :
              Floated(id, [managed EXCEPT ![id].floats = floats])
        BY <2>2 DEF RefreshAutoFloating
      <3>2. id \in Ids /\ ManagedWindow(managed[id]) /\ floats \in BOOLEAN
        BY <2>2, <3>1, FloatsType, Typing DEF RefreshAutoFloating
      <3> DEFINE n  == [managed[id] EXCEPT !.floats = floats]
                 ms == [managed EXCEPT ![id] = n]
      <3>3. Floated(id, ms)
        BY <3>1
      <3>4. ManagedWindow(n) /\ n.candidates = managed[id].candidates /\ n.parent = managed[id].parent
        BY <3>2 DEF ManagedWindow
      <3> HIDE DEF n
      <3>5. SameFamily(managed, ms) /\ \A o \in DOMAIN ms : ManagedWindow(ms[o])
        BY <3>2, <3>4, OneFamily, Typing DEF Ids
      <3> HIDE DEF ms
      <3> QED BY <3>3, <3>5, FloatedFamily, FamilyTwice
    <2>3. ASSUME NEW id, RequestActivation(id) PROVE managed' = managed
      BY <2>3 DEF RequestActivation, ActivateWindow
    <2> QED BY <1>1, <1>2, <2>1, <2>2, <2>3, CommitFamily, NewFamily, ParentFamily, SameFamilies
            DEF ClientStep
  <1>3. CASE UserStep
    <2>1. ASSUME NEW id, BeginCloseTransition(id) PROVE SameFamily(managed, managed')
      <3>1. id \in Ids /\ ManagedWindow(managed[id])
        BY <2>1, WindowsManaged, Typing DEF BeginCloseTransition
      <3>2. managed' = managed \/ managed' = [managed EXCEPT ![id].closing = TRUE]
        BY <2>1 DEF BeginCloseTransition
      <3> DEFINE n == [managed[id] EXCEPT !.closing = TRUE]
      <3>3. managed' = managed \/ managed' = [managed EXCEPT ![id] = n]
        BY <3>2
      <3>4. n.candidates = managed[id].candidates /\ n.parent = managed[id].parent
        BY <3>1 DEF ManagedWindow
      <3> HIDE DEF n
      <3> QED BY <1>1, <3>3, <3>4, OneFamily
    <2>2. ASSUME NEW id, GestureEnds(id) PROVE SameFamily(managed, managed')
      <3>1. id \in Ids /\ ManagedWindow(managed[id])
        BY <2>2, Typing DEF GestureEnds
      <3>2. PICK f : managed' = [managed EXCEPT ![id].frozen = f]
        BY <2>2 DEF GestureEnds
      <3> DEFINE n == [managed[id] EXCEPT !.frozen = f]
      <3>3. managed' = [managed EXCEPT ![id] = n]
        BY <3>2
      <3>4. n.candidates = managed[id].candidates /\ n.parent = managed[id].parent
        BY <3>1 DEF ManagedWindow
      <3> HIDE DEF n
      <3> QED BY <3>3, <3>4, OneFamily
    <2>3. ASSUME NEW id, ChooseWindow(id) \/ Click(id) \/ CameraMoves PROVE managed' = managed
      BY <2>3 DEF ChooseWindow, Click, CameraMoves
    <2>4. ASSUME PanCamera PROVE SameFamily(managed, managed')
      <3>1. \A id \in DOMAIN managed : ManagedWindow(managed[id])
        BY Typing DEF Ids
      <3> QED BY <2>4, <3>1, ResetFamily DEF PanCamera
    <2> QED BY <1>1, <1>3, <2>1, <2>2, <2>3, <2>4, SameFamilies DEF UserStep
  <1>4. CASE FrameStep
    <2>1. SameFamily(managed, managed')
      BY <1>4 DEF FrameStep, FinishCloseTransitions, SameFamily, Ids
    <2> QED BY <2>1, SameFamilies
  <1>5. CASE SeatStep \/ LayerStep \/ LockStep \/ ReloadConfig
    <2>1. managed' = managed
      BY <1>5 DEF SeatStep, TouchDown, GrabPopup, PopupDestroyed, KeyPress, LayerStep,
                  NewLayerSurface, LayerDestroyed, CommitLayer, ToggleFullscreen,
                  LockStep, Lock, NewLockSurface, Unlock, ReloadConfig
    <2> QED BY <1>1, <2>1, SameFamilies
  <1> QED BY <1>2, <1>3, <1>4, <1>5 DEF Next

\* What is owed when the focused window leaves the World.
HandsBack(id) ==
  LET heirs == managed[id].candidates
      alive == { i \in DOMAIN heirs : heirs[i] \in world'.windows }
  IN  /\ IF managed[id].parent = None \/ alive = {} THEN world'.focus = None
         ELSE \E i \in alive : world'.focus = heirs[i] /\ \A j \in alive : i <= j
      /\ managed[id].parent \in world'.windows => world'.focus = managed[id].parent
      /\ seat.popup = "live" \/ seat'.focus = world'.focus

LEMMA HandedBack ==
  ASSUME ShellAssumption, IInv, Families, NEW id \in Ids, world.focus = id,
         world' = RestorePreferredFocus(Removed(world, id), PreferredFocus(id)),
         seat' = SetFocus(seat, world'.focus)
  PROVE  HandsBack(id)
PROOF
  <1> DEFINE heirs == managed[id].candidates
             w     == Removed(world, id)
             alive == { i \in DOMAIN heirs : heirs[i] \in world'.windows }
  <1>1. /\ w \in WorldSet /\ w.windows = world.windows \ {id} /\ w.focus = None
    BY Typing, RemovedWorld
  <1> HIDE DEF w
  <1>2. world' \in WorldSet /\ world'.windows = w.windows
    BY <1>1, RestoredWorld DEF w
  <1>3. heirs \in Seq(Windows) /\ (managed[id].parent # None => heirs # << >> /\ heirs[1] = managed[id].parent)
    BY DEF Families, Heirs
  <1>4. None \notin world'.windows
    BY <1>2, ShellAssumption DEF WorldSet
  <1>5. seat.popup = "live" \/ seat'.focus = world'.focus
    BY Typing DEF SetFocus, SeatSet, Popup
  <1>6. CASE managed[id].parent = None
    <2>1. PreferredFocus(id) = << >>
      BY <1>6 DEF PreferredFocus
    <2>2. world' = w
      BY <2>1 DEF RestorePreferredFocus, w
    <2> QED BY <1>1, <1>4, <1>5, <1>6, <2>2 DEF HandsBack
  <1>7. CASE managed[id].parent # None
    <2>1. PreferredFocus(id) = heirs
      BY <1>7 DEF PreferredFocus
    <2>2. world' = RestorePreferredFocus(w, heirs)
      BY <2>1 DEF w
    <2>3. alive = { i \in DOMAIN heirs : heirs[i] \in w.windows }
      BY <1>2
    <2>4. /\ alive = {} => world' = w
          /\ alive # {} => \E i \in alive : world'.focus = heirs[i] /\ \A j \in alive : i <= j
      <3> HIDE DEF heirs
      <3> QED BY <1>1, <1>3, <2>2, <2>3, RestoredFocus
    <2>5. CASE alive = {}
      <3>1. managed[id].parent \notin world'.windows
        BY <1>3, <1>7, <2>5
      <3> QED BY <1>1, <1>5, <1>7, <2>4, <2>5, <3>1 DEF HandsBack
    <2>6. CASE alive # {}
      <3>1. PICK i \in alive : world'.focus = heirs[i] /\ \A j \in alive : i <= j
        BY <2>4, <2>6
      <3>2. managed[id].parent \in world'.windows => world'.focus = managed[id].parent
        <4>1. SUFFICES ASSUME managed[id].parent \in world'.windows
                       PROVE  world'.focus = managed[id].parent
          OBVIOUS
        <4>2. 1 \in alive
          BY <1>3, <1>7, <4>1
        <4>3. i = 1
          BY <1>3, <3>1, <4>2
        <4> QED BY <1>3, <1>7, <3>1, <4>3
      <3> QED BY <1>5, <1>7, <2>6, <3>1, <3>2 DEF HandsBack
    <2> QED BY <2>5, <2>6
  <1> QED BY <1>6, <1>7

LEMMA ActivatedStays ==
  ASSUME NEW w, NEW s, NEW view, NEW id, NEW policy
  PROVE  Activated(w, s, view, id, policy).world = FocusedOn(w, id)
  BY DEF Activated

LEMMA FocusedStays ==
  ASSUME NEW w \in WorldSet, NEW id
  PROVE  FocusedOn(w, id) \in WorldSet /\ FocusedOn(w, id).windows = w.windows
  BY FocusedOnWorld

\* The World keeps its windows when somebody is activated, wherever that is done.
LEMMA TakesNobody ==
  ASSUME NEW w \in WorldSet, NEW s, NEW view, NEW id, NEW policy, NEW ls,
         Take(Activated(w, s, view, id, policy), ls)
  PROVE  world'.windows = w.windows
  BY ActivatedStays, FocusedStays DEF Take

\* Windows leave the World only when they are destroyed or closed.
LEMMA NobodyLeaves ==
  ASSUME ShellAssumption, IInv, Next,
         ~ \E id \in Windows : DestroyToplevel(id) \/ BeginCloseTransition(id)
  PROVE  world.windows \subseteq world'.windows
PROOF
  <1>0. world \in WorldSet
    BY Typing
  <1>1. \A ls : ReturnKeyboard(ls) => world'.windows = world.windows
    BY <1>0, TakesNobody DEF ReturnKeyboard
  <1>2. \A surface : FocusAt(surface) => world'.windows = world.windows
    BY <1>0, TakesNobody DEF FocusAt
  <1>3. CASE ClientStep
    <2>1. ASSUME NEW id \in Windows, NewToplevel(id) PROVE world.windows \subseteq world'.windows
      <3>1. Placed(world, id) \in WorldSet /\ Placed(world, id).windows = world.windows \cup {id}
        BY <1>0 DEF Placed, WorldSet
      <3> QED BY <2>1, <3>1, FocusedStays DEF NewToplevel
    <2>2. ASSUME NEW id, CommitToplevel(id) PROVE world'.windows = world.windows
      <3>1. PICK a, view, policy, sync :
              Take(a, layers) /\ (\/ a = [world |-> world, seat |-> seat, camera |-> view, sync |-> sync]
                                  \/ a = Activated(world, seat, view, id, policy))
        BY <2>2 DEF CommitToplevel
      <3> QED BY <1>0, <3>1, TakesNobody DEF Take
    <2>3. ASSUME NEW id, RefreshAutoFloating(id) PROVE world' = world
      BY <2>3 DEF RefreshAutoFloating
    <2>4. ASSUME NEW id, NEW parent, SetParent(id, parent) PROVE world' = world
      BY <2>4 DEF SetParent
    <2>5. ASSUME NEW id, RequestActivation(id) PROVE world'.windows = world.windows
      BY <1>0, <2>5, TakesNobody DEF RequestActivation, ActivateWindow
    <2> QED BY <1>3, <2>1, <2>2, <2>3, <2>4, <2>5 DEF ClientStep
  <1>4. CASE UserStep
    <2>1. ASSUME NEW id, ChooseWindow(id) PROVE world'.windows = world.windows
      BY <1>0, <2>1, FocusedStays, TakesNobody DEF ChooseWindow
    <2>2. ASSUME NEW id, GestureEnds(id) PROVE world'.windows = world.windows
      BY <1>0, <2>2, TakesNobody DEF GestureEnds
    <2>3. ASSUME NEW surface, Click(surface) PROVE world'.windows = world.windows
      BY <1>2, <2>3 DEF Click
    <2> QED BY <1>4, <2>1, <2>2, <2>3 DEF UserStep, CameraMoves, PanCamera
  <1>5. CASE FrameStep \/ ReloadConfig
    BY <1>5 DEF FrameStep, FinishCloseTransitions, ReloadConfig
  <1>6. CASE SeatStep
    BY <1>2, <1>6 DEF SeatStep, TouchDown, GrabPopup, PopupDestroyed, KeyPress
  <1>7. CASE LayerStep
    <2>1. ASSUME NEW id, ToggleFullscreen(id) PROVE world'.windows = world.windows
      BY <1>0, <2>1 DEF ToggleFullscreen, WorldSet
    <2>2. ASSUME NEW l, NEW wants, CommitLayer(l, wants) PROVE world'.windows = world.windows
      BY <1>1, <2>2 DEF CommitLayer
    <2> QED BY <1>1, <1>7, <2>1, <2>2 DEF LayerStep, NewLayerSurface, LayerDestroyed
  <1>8. CASE LockStep
    BY <1>0, <1>8, TakesNobody DEF LockStep, Lock, NewLockSurface, Unlock
  <1> QED BY <1>3, <1>4, <1>5, <1>6, <1>7, <1>8 DEF Next

LEMMA HandsBackStep ==
  ASSUME ShellAssumption, IInv, Families, Next
  PROVE  \A id \in world.windows \ world'.windows : world.focus = id => HandsBack(id)
PROOF
  <1>1. TAKE id \in world.windows \ world'.windows
  <1>2. SUFFICES ASSUME world.focus = id PROVE HandsBack(id)
    OBVIOUS
  <1>3. PICK gone \in Windows : DestroyToplevel(gone) \/ BeginCloseTransition(gone)
    BY <1>1, NobodyLeaves
  <1> DEFINE after == RestorePreferredFocus(Removed(world, gone), PreferredFocus(gone))
  <1>4. \/ world' = after /\ seat' = SetFocus(seat, after.focus)
        \/ world' = Removed(world, gone) /\ world.focus # gone
        \/ world' = world
    BY <1>3 DEF DestroyToplevel, BeginCloseTransition
  <1>5. gone \in Ids /\ id \in Ids
    BY <1>1, <1>3, WindowsManaged DEF DestroyToplevel, BeginCloseTransition
  <1>6. Removed(world, gone) \in WorldSet /\ Removed(world, gone).windows = world.windows \ {gone}
    BY Typing, RemovedWorld
  <1>7. after.windows = world.windows \ {gone}
    BY <1>5, HandedOn
  <1>8. gone = id
    <2> HIDE DEF after
    <2> QED BY <1>1, <1>4, <1>6, <1>7
  <1>9. world' = after /\ seat' = SetFocus(seat, world'.focus)
    <2> HIDE DEF after
    <2> QED BY <1>1, <1>2, <1>4, <1>8
  <1> QED BY <1>2, <1>5, <1>8, <1>9, HandedBack

-----------------------------------------------------------------------------
\* The fields of the shell hold what their types allow, and what is managed was
\* once issued (struct MioState, ManagedWindow).
THEOREM ShellTypeCorrect == Spec => []ShellTypeOK
  BY Invariant, PTL DEF IInv

\* The World has exactly the managed windows that are not fading out, and its
\* focus is one of them (add_toplevel, remove_toplevel, begin_close_transition,
\* finish_close_transitions).
THEOREM WorldIsManaged == Spec => []WorldMatchesManaged
  BY Invariant, PTL DEF IInv

\* Whoever gets the focus of the World gets the keyboard in the same step, but for
\* the first window of an empty World and under a popup's grab
\* (activate_window_with_camera_policy, restore_window_focus).
THEOREM KeyboardFollowsFocus == Spec => FocusCarriesKeyboard
PROOF
  <1>1. IInv /\ [Next]_vars =>
          [world'.focus \notin {world.focus, None} =>
             \/ KeyWindow(seat)' = world'.focus
             \/ issued' # issued
             \/ seat.popup = "live" /\ world'.windows # world.windows]_vars
    BY StepGood DEF Good, Carries
  <1> QED BY <1>1, Invariant, PTL DEF Spec, FocusCarriesKeyboard

\* No Top layer is in the way of a window that has become fullscreen, and none is
\* left hidden when the last one ends (refresh_layer_visibility).
THEOREM LayersMakeWay == Spec => FullscreenHidesTopLayers
PROOF
  <1>1. IInv /\ [Next]_vars =>
          [/\ world.fullscreen # world'.fullscreen /\ world'.fullscreen # {} =>
                \A l \in TopLayers : layers'[l].at # "mapped"
           /\ world'.fullscreen = {} => \A l \in Layers : layers'[l].at # "hidden"]_vars
    BY StepGood DEF Good, Hides, NoneHidden
  <1> QED BY <1>1, Invariant, PTL DEF Spec, FullscreenHidesTopLayers

\* The shell implements the life of its windows that module Toplevels promises:
\* every window opens, is shown, may close and is gone for good, and is chosen
\* only by showing, by choice or by the end of the one chosen before it
\* (add_toplevel, handle_commit, begin_close_transition, remove_toplevel).
THEOREM ShellIsToplevels == Spec => ToplevelsSpec
PROOF
  <1>1. Init => T!Init
    BY ShellAssumption, InitShell
  <1>2. IInv /\ [Next]_vars => [T!Next]_(T!topVars)
    BY StepGood DEF Good, Lives, T!topVars
  <1> QED BY <1>1, <1>2, Invariant, PTL DEF Spec, ToplevelsSpec, T!Spec

\* A layer that has the keyboard and goes, or wants it no more, gives it to the
\* focused window, and so does the lock (layer_destroyed, handle_commit, unlock).
THEOREM KeyboardIsReturned == Spec => KeyboardComesBack
PROOF
  <1>1. IInv /\ [Next]_vars =>
          [\/ \E l \in Layers : HasKeyboard(l) /\ layers[l].at = "mapped" /\ GivesUp(l)
           \/ lock.on /\ ~ lock'.on /\ world.focus # None
           => seat'.focus = world.focus]_vars
    BY ShellAssumption, ComesBack
  <1> QED BY <1>1, Invariant, PTL DEF Spec, KeyboardComesBack

\* The camera stays where it is when windows go, and when a window that has the
\* focus is only given the keyboard again (camera_should_follow_on_activation).
THEOREM CameraIsKeptStill == Spec => CameraKeepsStill
PROOF
  <1>1. IInv /\ [Next]_vars =>
          [camera' # camera =>
             /\ Ids' = Ids \/ issued' # issued
             /\ world'.focus = world.focus /\ KeyWindow(seat) \in {world.focus, None}
                  => ~ Unfocusing]_vars
    BY ShellAssumption, CameraOrIds, StaysStill
  <1> QED BY <1>1, Invariant, PTL DEF Spec, CameraKeepsStill

\* When the focused window is destroyed or closed, the focus and the keyboard go to
\* its parent, or else to the first of its candidates that still lives, or to
\* nobody (restore_preferred_focus, merge_focus_candidates).
THEOREM FocusIsHandedBack == Spec => DialogHandsBackFocus
PROOF
  <1>1. Init => Families
    BY DEF Init, Families, Ids
  <1>2. IInv /\ Families /\ [Next]_vars => Families'
    <2>1. ASSUME UNCHANGED vars, Families PROVE Families'
      BY <2>1 DEF vars, Families, Heirs, Ids
    <2> QED BY <2>1, ShellAssumption, FamilyStep
  <1>3. IInv /\ Families /\ [Next]_vars =>
          [\A id \in world.windows \ world'.windows :
             world.focus = id =>
               LET heirs == managed[id].candidates
                   alive == { i \in DOMAIN heirs : heirs[i] \in world'.windows }
               IN  /\ IF managed[id].parent = None \/ alive = {} THEN world'.focus = None
                      ELSE \E i \in alive : world'.focus = heirs[i] /\ \A j \in alive : i <= j
                   /\ managed[id].parent \in world'.windows => world'.focus = managed[id].parent
                   /\ seat.popup = "live" \/ seat'.focus = world'.focus]_vars
    BY ShellAssumption, HandsBackStep DEF HandsBack
  <1> QED BY <1>1, <1>2, <1>3, Invariant, PTL DEF Spec, DialogHandsBackFocus
=============================================================================
