---------------------------- MODULE GesturesProofs ----------------------------
(***************************************************************************)
(* Proofs of what is true of pointer gestures for any bindings, windows    *)
(* and clicks.                                                             *)
(*                                                                         *)
(* Whoever consumes the press of a button must consume its release.  The   *)
(* invariant says so of the buttons that are held: the client has been     *)
(* sent the press, or somebody is responsible for the release.  Handlers   *)
(* hand a record of gestures, client and World from one helper to the      *)
(* next: helpers that only add to what is answered for Keep it, and the    *)
(* last one takes the button away that goes up.                            *)
(***************************************************************************)
EXTENDS GesturesProperties, TLAPS

ClientType == [down : SUBSET Buttons, stray : SUBSET Buttons, grabbed : BOOLEAN]
WorldType == [windows : SUBSET Windows, focus : Windows \cup {None}]
StepType == [pending : Gesture, client : ClientType, world : WorldType]

\* Somebody consumes the release of b.
Responsible(p, b) == p.closing \/ Owns(p, b)

\* The buttons `downs' are answered for, also if a click that is kept back is
\* replayed with a release of its own.
Answered(s, downs) ==
  /\ \A b \in downs : b \in s.client.down \/ Responsible(s.pending, b)
  /\ s.pending.panClick # None /\ PanButton \in downs => Responsible(s.pending, PanButton)

\* The gestures, but for the camera's, that would consume a release; Sole: only one
\* of them is waiting for that of b.
SameClaims(p, q) ==
  /\ p.drag = None <=> q.drag = None
  /\ p.resize = None <=> q.resize = None
  /\ ChordButtons(p.chord) = ChordButtons(q.chord)
  /\ p.edge = q.edge /\ p.releases = q.releases /\ p.focusClick = q.focusClick

InChord(p, b) == b \in ChordButtons(p.chord)
InEdge(p, b) == p.edge /\ b = PlaceButton
InResize(p, b) == p.resize # None /\ b = ResizeButton
InReleases(p, b) == b \in p.releases
InDrag(p, b) == p.drag # None /\ b \in {MoveHold, MovePress}
InFocus(p, b) == p.focusClick /\ b = Left

Sole(p, b) ==
  /\ InChord(p, b) => ~ (InEdge(p, b) \/ InResize(p, b) \/ InReleases(p, b) \/ InDrag(p, b) \/ InFocus(p, b))
  /\ InEdge(p, b) => ~ (InResize(p, b) \/ InReleases(p, b) \/ InDrag(p, b) \/ InFocus(p, b))
  /\ InResize(p, b) => ~ (InReleases(p, b) \/ InDrag(p, b) \/ InFocus(p, b))
  /\ InReleases(p, b) => ~ (InDrag(p, b) \/ InFocus(p, b))
  /\ InDrag(p, b) => ~ InFocus(p, b)

\* Nor does such a helper give the client a button.
Tidies(s, t) ==
  /\ SameClaims(s.pending, t.pending)
  /\ t.client.down \subseteq s.client.down

\* What a helper does that takes nothing from anybody.
Keeps(s, t) ==
  /\ Tidies(s, t)
  /\ t \in StepType
  /\ \A b : Owns(s.pending, b) => Owns(t.pending, b)
  /\ s.pending.closing => t.pending.closing
  /\ t.client.stray \subseteq s.client.stray
  /\ \A b \in s.client.down :
       b \in t.client.down \/ (b = PanButton /\ s.pending.panClick # None)
  /\ t.pending.panClick # None => s.pending.panClick # None

\* Helpers follow each other.
LEMMA TidiesTwice ==
  ASSUME NEW s, NEW t, NEW u, Tidies(s, t), Tidies(t, u) PROVE Tidies(s, u)
  BY DEF Tidies, SameClaims

LEMMA SameClaimsTwice ==
  ASSUME NEW p, NEW q, NEW r, SameClaims(p, q), SameClaims(q, r) PROVE SameClaims(p, r)
  BY DEF SameClaims

LEMMA TidiesSelf == ASSUME NEW s PROVE Tidies(s, s)
  BY DEF Tidies, SameClaims

\* Gestures that differ in the clicks, and in how far they have got.
LEMMA TidiesGestures ==
  ASSUME NEW s, NEW t,
         t.pending.drag = None <=> s.pending.drag = None,
         t.pending.resize = s.pending.resize,
         t.pending.chord = s.pending.chord, t.pending.edge = s.pending.edge,
         t.pending.releases = s.pending.releases, t.pending.focusClick = s.pending.focusClick,
         t.client.down \subseteq s.client.down
  PROVE  Tidies(s, t)
  BY DEF Tidies, SameClaims

\* The buttons, but for the camera's, of which no close gesture has taken a release.
Others == Buttons \ ({PanButton} \cup robbed)

\* The buttons that gestures wait for are down, each for one gesture.
Orderly(p, downs) == \A x \in Others : Owns(p, x) => x \in downs /\ Sole(p, x)

\* Nor has the client been given them.  The camera's button is the client's only
\* under the lock.
Settled(s, downs, lock) ==
  /\ Orderly(s.pending, downs)
  /\ \A x \in Others : Owns(s.pending, x) => x \notin s.client.down
  /\ ~ lock => PanButton \notin s.client.down

\* What takes over from p when b has gone up.
Passes(p, q, b) ==
  \A x \in Others : Owns(q, x) => x # b /\ Owns(p, x) /\ Sole(q, x)

LEMMA SameClaimsOwn ==
  ASSUME NEW p, NEW q, SameClaims(p, q), NEW x, x # PanButton
  PROVE  (Owns(p, x) <=> Owns(q, x)) /\ (Sole(p, x) <=> Sole(q, x))
  BY DEF SameClaims, Owns, Sole, InChord, InEdge, InResize, InReleases, InDrag, InFocus

LEMMA TidiesSettles ==
  ASSUME NEW s, NEW t, NEW downs, NEW lock, Tidies(s, t), Settled(s, downs, lock)
  PROVE  Settled(t, downs, lock)
  BY SameClaimsOwn DEF Tidies, Settled, Orderly, Others

\* A release that a gesture was waiting for, or the client.
LEMMA PassesSettles ==
  ASSUME NEW s, NEW t, NEW b, NEW downs, NEW lock, Settled(s, downs \cup {b}, lock),
         Passes(s.pending, t.pending, b), t.client.down \subseteq s.client.down
  PROVE  Settled(t, downs, lock)
  BY DEF Settled, Orderly, Passes

LEMMA KeepsAnswered ==
  ASSUME NEW s, NEW t, NEW downs, Keeps(s, t), Answered(s, downs)
  PROVE  Answered(t, downs)
  BY DEF Keeps, Answered, Responsible

-----------------------------------------------------------------------------
(* Helpers *)

LEMMA OneMoreType == ASSUME NEW clicks \in 1..6 PROVE OneMore(clicks) \in 1..6
  BY GesturesAssumption DEF OneMore, GesturesAssumption

LEMMA FocusedType ==
  ASSUME NEW w \in WorldType, NEW id PROVE Focused(w, id) \in WorldType
  BY DEF Focused, WorldType

\* A down and an up in one: the client keeps no more and gets no stray release.
LEMMA SendClickClient ==
  ASSUME NEW c \in ClientType, NEW b
  PROVE  /\ SendClick(c, b) \in ClientType
         /\ SendClick(c, b).stray \subseteq c.stray
         /\ SendClick(c, b).down = c.down \ {b}
PROOF
  <1> DEFINE d == SendDown(c, b)
  <1>1. d.down = c.down \cup {b} /\ d.stray = c.stray \ {b} /\ d.grabbed = TRUE
    BY DEF SendDown
  <1> HIDE DEF d
  <1>2. SendUp(d, b) = [down |-> c.down \ {b}, stray |-> c.stray \ {b},
                        grabbed |-> d.grabbed /\ d.down \ {b} # {}]
    BY <1>1 DEF SendUp
  <1>3. SendUp(d, b) \in ClientType
    BY <1>2 DEF ClientType
  <1> QED BY <1>2, <1>3 DEF SendClick, d

\* Gestures that own the same buttons.
LEMMA SameGestures ==
  ASSUME NEW p \in Gesture, NEW q \in Gesture,
         p.camera = q.camera, p.drag = q.drag, p.resize = q.resize, p.chord = q.chord,
         p.edge = q.edge, p.releases = q.releases, p.focusClick = q.focusClick
  PROVE  \A b : Owns(p, b) <=> Owns(q, b)
  BY DEF Owns

LEMMA ReplayKeeps ==
  ASSUME NEW s \in StepType
  PROVE  /\ Keeps(s, ReplayPanClick(s))
         /\ ReplayPanClick(s).pending = [s.pending EXCEPT !.panClick = None]
         /\ ReplayPanClick(s).pending.panClick = None
PROOF
  <1> DEFINE p == [s.pending EXCEPT !.panClick = None]
  <1>0. s.pending \in Gesture /\ s.client \in ClientType /\ s.world \in WorldType
    BY DEF StepType
  <1>1. /\ p \in Gesture /\ p.panClick = None
        /\ p.camera = s.pending.camera /\ p.drag = s.pending.drag /\ p.resize = s.pending.resize
        /\ p.chord = s.pending.chord /\ p.edge = s.pending.edge /\ p.closing = s.pending.closing
        /\ p.releases = s.pending.releases /\ p.focusClick = s.pending.focusClick
    BY <1>0 DEF Gesture
  <1>2. CASE s.pending.panClick = None
    <2>1. ReplayPanClick(s) = s
      BY <1>2 DEF ReplayPanClick
    <2>2. p = s.pending
      BY <1>0, <1>2 DEF Gesture
    <2> QED BY <2>1, <2>2, <1>2, TidiesSelf DEF Keeps
  <1>3. CASE s.pending.panClick # None
    <2> DEFINE t == ReplayPanClick(s)
    <2>1. t.pending = p /\ t.client = SendClick(s.client, PanButton) /\ t.world = s.world
          /\ t \in [pending : {p}, client : {SendClick(s.client, PanButton)}, world : {s.world}]
      BY <1>3 DEF ReplayPanClick, StepType
    <2>2. t \in StepType
      BY <2>1, <1>0, <1>1, SendClickClient DEF StepType
    <2> HIDE DEF t, p
    <2>3. \A b : Owns(s.pending, b) <=> Owns(t.pending, b)
      BY <1>0, <1>1, <2>1, SameGestures
    <2>5. /\ SendClick(s.client, PanButton).stray \subseteq s.client.stray
          /\ SendClick(s.client, PanButton).down = s.client.down \ {PanButton}
      BY <1>0, SendClickClient
    <2>6. Tidies(s, t)
      BY <1>1, <2>1, <2>5, TidiesGestures
    <2>4. Keeps(s, t)
      BY <1>0, <1>1, <1>3, <2>1, <2>2, <2>3, <2>5, <2>6 DEF Keeps
    <2> QED BY <2>1, <2>4, <1>1 DEF t, p
  <1> QED BY <1>2, <1>3

\* Only the World hears of the actions of a click.
LEMMA ActionsKeep ==
  ASSUME NEW s \in StepType, NEW id, NEW gone \in BOOLEAN
  PROVE  /\ RunClickActions(s, id, gone) \in StepType
         /\ RunClickActions(s, id, gone).pending = s.pending
         /\ RunClickActions(s, id, gone).client = s.client
PROOF
  <1> DEFINE w == Focused(s.world, id)
             v == IF gone /\ id \in s.world.windows THEN Without(w, id) ELSE w
  <1>1. v \in WorldType
    <2>1. w \in WorldType
      BY FocusedType DEF StepType
    <2> HIDE DEF w
    <2> QED BY <2>1 DEF WorldType, Without
  <1>2. RunClickActions(s, id, gone) = [s EXCEPT !.world = v]
    BY DEF RunClickActions
  <1> HIDE DEF w, v
  <1> QED BY <1>1, <1>2 DEF StepType

\* A close gesture swallows what is still held; nothing else changes for a release.
LEMMA CompleteKeeps ==
  ASSUME NEW s \in StepType, NEW click \in ChordClick, NEW downs, NEW gone \in BOOLEAN,
         s.pending.closing => downs # {}
  PROVE  /\ Keeps(s, CompleteChordClick(s, click, downs, gone))
         /\ CompleteChordClick(s, click, downs, gone).pending.closing => downs # {}
PROOF
  <1> DEFINE t == CompleteChordClick(s, click, downs, gone)
             closing == IF click.clicks \in CloseClicks THEN downs # {} ELSE s.pending.closing
             p == [s.pending EXCEPT !.closing = closing]
             s1 == [s EXCEPT !.pending = p]
  <1>1. CASE click.clicks \notin ChordClicks
    <2>1. t = s
      BY <1>1 DEF CompleteChordClick
    <2> QED BY <2>1, TidiesSelf DEF Keeps
  <1>2. CASE click.clicks \in ChordClicks
    <2>1. p \in Gesture /\ p.closing = closing /\ closing \in BOOLEAN
          /\ p.camera = s.pending.camera /\ p.drag = s.pending.drag /\ p.resize = s.pending.resize
          /\ p.chord = s.pending.chord /\ p.edge = s.pending.edge
          /\ p.releases = s.pending.releases /\ p.focusClick = s.pending.focusClick
          /\ p.panClick = s.pending.panClick
      <3>1. s.pending \in Gesture /\ closing \in BOOLEAN
        BY DEF StepType, Gesture
      <3> HIDE DEF closing
      <3> QED BY <3>1 DEF Gesture
    <2>2. s.pending.closing => closing
      OBVIOUS
    <2>3. s1 \in StepType /\ s1.pending = p /\ s1.client = s.client
      BY <2>1 DEF StepType
    <2>4. t = RunClickActions(s1, click.id, gone /\ click.clicks \in CloseClicks)
      <3>1. [s EXCEPT !.pending.closing =
                IF click.clicks \in CloseClicks THEN downs # {} ELSE s.pending.closing] = s1
        BY DEF StepType
      <3> QED BY <1>2, <3>1 DEF CompleteChordClick
    <2>5. t \in StepType /\ t.pending = p /\ t.client = s.client
      <3>1. (gone /\ click.clicks \in CloseClicks) \in BOOLEAN
        OBVIOUS
      <3> HIDE DEF t, p, s1
      <3> QED BY <2>3, <2>4, <3>1, ActionsKeep
    <2>6. closing => downs # {}
      OBVIOUS
    <2> HIDE DEF t, p, closing
    <2>9. Tidies(s, t)
      BY <2>1, <2>5, <2>6, TidiesGestures
    <2>7. ASSUME NEW b, Owns(s.pending, b) PROVE Owns(t.pending, b)
      BY <2>7, <2>1, <2>5 DEF Owns
    <2>8. Keeps(s, t)
      BY <2>1, <2>2, <2>5, <2>7, <2>9 DEF Keeps
    <2> QED BY <2>1, <2>5, <2>6, <2>8 DEF t
  <1> QED BY <1>1, <1>2

\* Records of a step with other gestures.
LEMMA WithType ==
  ASSUME NEW s \in StepType, NEW p \in Gesture
  PROVE  /\ With(s, p) \in StepType /\ With(s, p).pending = p
         /\ With(s, p).client = s.client /\ With(s, p).world = s.world
  BY DEF With, StepType

-----------------------------------------------------------------------------
(* A button goes down *)

\* What the proofs need of the variables.
Typed == GesturesTypeOK

\* No binding hands the camera's button to a chord that does not answer for it.
Bindings == MoveHold \in {PanButton, None}

LEMMA OverType == Typed => Over \in Windows \cup {None} /\ (locked => Over = None)
  BY DEF Typed, GesturesTypeOK, Over, Spots

LEMMA UnplacedKeeps ==
  ASSUME Typed, NEW p \in Gesture, NEW b
  PROVE  /\ Unplaced(p, b) \in Gesture
         /\ Unplaced(p, b).panClick = p.panClick /\ Unplaced(p, b).closing = p.closing
         /\ \A x : x # b /\ Owns(p, x) => Owns(Unplaced(p, b), x)
         /\ Unplaced(p, b).camera = p.camera /\ Unplaced(p, b).drag = p.drag
         /\ Unplaced(p, b).resize = p.resize /\ Unplaced(p, b).chord = p.chord
         /\ Unplaced(p, b).releases = p.releases /\ Unplaced(p, b).focusClick = p.focusClick
         /\ Unplaced(p, b).edge = IF b = PlaceButton THEN at.edge ELSE p.edge
PROOF
  <1> DEFINE q == Unplaced(p, b)
  <1>0. at.edge \in BOOLEAN
    BY DEF Typed, GesturesTypeOK, Spots
  <1>1. CASE b # PlaceButton
    <2>1. q = p
      BY <1>1 DEF Unplaced
    <2> QED BY <1>1, <2>1
  <1>2. CASE b = PlaceButton
    <2>1. q = [p EXCEPT !.edge = at.edge]
      BY <1>2 DEF Unplaced
    <2>2. /\ q \in Gesture /\ q.camera = p.camera /\ q.drag = p.drag /\ q.resize = p.resize
          /\ q.chord = p.chord /\ q.closing = p.closing /\ q.panClick = p.panClick
          /\ q.releases = p.releases /\ q.focusClick = p.focusClick /\ q.edge = at.edge
      BY <1>0, <2>1 DEF Gesture
    <2> HIDE DEF q
    <2>3. \A x : x # b /\ Owns(p, x) => Owns(q, x)
      BY <1>2, <2>2 DEF Owns
    <2> QED BY <1>2, <2>2, <2>3 DEF q
  <1> QED BY <1>1, <1>2

\* The gesture that begins owns its button, and takes none from the others.
LEMMA BeginOwns ==
  ASSUME GesturesAssumption, Bindings, Typed, NEW p \in Gesture, NEW b \in Buttons \ held, Begins(b)
  PROVE  /\ Begin(p, b) \in Gesture /\ Owns(Begin(p, b), b)
         /\ \A x \in held : Owns(p, x) => Owns(Begin(p, b), x)
         /\ Begin(p, b).panClick = p.panClick /\ Begin(p, b).closing = p.closing
         /\ Orderly(p, held) =>
              \A x \in Others :
                Owns(Begin(p, b), x) => (x = b \/ Owns(p, x)) /\ Sole(Begin(p, b), x)
PROOF
  <1> DEFINE q == Begin(p, b)
             u == Unplaced(p, b)
  <1>t. /\ Over \in Windows \cup {None} /\ held \subseteq Buttons /\ world.windows \subseteq Windows
        /\ b # None /\ None \notin held
    BY OverType DEF Typed, GesturesTypeOK, Buttons
  <1>u. /\ u \in Gesture /\ u.panClick = p.panClick /\ u.closing = p.closing
        /\ \A x : x # b /\ Owns(p, x) => Owns(u, x)
        /\ u.drag = p.drag /\ u.resize = p.resize /\ u.chord = p.chord /\ u.releases = p.releases
        /\ u.focusClick = p.focusClick /\ u.edge = IF b = PlaceButton THEN at.edge ELSE p.edge
    BY UnplacedKeeps
  <1>o. ASSUME Orderly(p, held), NEW x \in Others
        PROVE  (Owns(p, x) => x # b) /\ (Owns(p, x) => Sole(p, x))
    BY <1>o DEF Orderly
  <1> DEFINE Good(r) == Orderly(p, held) =>
                          \A x \in Others :
                            Owns(r, x) => (x = b \/ Owns(p, x)) /\ Sole(r, x)
  <1> HIDE DEF u
  <1>1. CASE DragsEdge(b)
    <2>1. q = [p EXCEPT !.resize = at.handle] /\ at.handle \in Windows /\ b = ResizeButton
      BY <1>1, <1>t DEF Begin, DragsEdge
    <2>2. /\ q \in Gesture /\ q.camera = p.camera /\ q.drag = p.drag /\ q.resize = at.handle
          /\ q.chord = p.chord /\ q.closing = p.closing /\ q.panClick = p.panClick
          /\ q.releases = p.releases /\ q.focusClick = p.focusClick /\ q.edge = p.edge
      BY <2>1 DEF Gesture
    <2>3. at.handle # None
      BY <2>1 DEF GesturesAssumption
    <2> HIDE DEF q
    <2>4. Owns(q, b) /\ \A x \in held : Owns(p, x) => Owns(q, x)
      BY <2>1, <2>2, <2>3 DEF Owns
    <2>5. Good(q)
      BY <1>o, <2>1, <2>2 DEF Owns, Sole, InChord, InEdge, InResize, InReleases, InDrag, InFocus
    <2> QED BY <2>2, <2>4, <2>5 DEF q
  <1>2. CASE ~DragsEdge(b) /\ TogglesFloating(b)
    <2> DEFINE chord == [id |-> Over, held |-> {FloatHold, FloatPress}]
    <2>1. /\ q = [p EXCEPT !.camera = None, !.chord = chord]
          /\ b = FloatPress /\ FloatHold \in held /\ Over \in Windows
      BY <1>2, <1>t DEF Begin, TogglesFloating
    <2>2. chord \in FloatingChord /\ chord.held = {FloatHold, FloatPress}
      BY <2>1 DEF FloatingChord
    <2>3. chord # None /\ FloatHold = PanButton
      BY <2>1, <2>2, <1>t DEF GesturesAssumption
    <2> HIDE DEF chord
    <2>4. /\ q \in Gesture /\ q.camera = None /\ q.drag = p.drag /\ q.resize = p.resize
          /\ q.chord = chord /\ q.closing = p.closing /\ q.panClick = p.panClick
          /\ q.releases = p.releases /\ q.focusClick = p.focusClick /\ q.edge = p.edge
      BY <2>1, <2>2 DEF Gesture
    <2> HIDE DEF q
    <2>5. ChordButtons(q.chord) = {FloatHold, FloatPress}
      BY <2>2, <2>3, <2>4 DEF ChordButtons
    <2>6. ChordButtons(p.chord) \subseteq {FloatHold, FloatPress}
      BY DEF ChordButtons, Gesture, FloatingChord
    <2>7. Owns(q, b) /\ \A x \in held : Owns(p, x) => Owns(q, x)
      BY <2>1, <2>3, <2>4, <2>5, <2>6 DEF Owns
    <2>8. Good(q)
      BY <1>o, <2>1, <2>3, <2>4, <2>5, <2>6 DEF Owns, Sole, InChord, InEdge, InResize, InReleases, InDrag, InFocus, Others
    <2> QED BY <2>4, <2>7, <2>8 DEF q
  <1>3. CASE ~DragsEdge(b) /\ ~TogglesFloating(b) /\ b = PlaceButton /\ at.edge
    <2>1. q = [p EXCEPT !.edge = TRUE]
      BY <1>3 DEF Begin
    <2>2. /\ q \in Gesture /\ q.camera = p.camera /\ q.drag = p.drag /\ q.resize = p.resize
          /\ q.chord = p.chord /\ q.closing = p.closing /\ q.panClick = p.panClick
          /\ q.releases = p.releases /\ q.focusClick = p.focusClick /\ q.edge = TRUE
      BY <2>1 DEF Gesture
    <2> HIDE DEF q
    <2>3. Owns(q, b) /\ \A x \in held : Owns(p, x) => Owns(q, x)
      BY <1>3, <2>2 DEF Owns
    <2>4. Good(q)
      BY <1>o, <1>3, <2>2 DEF Owns, Sole, InChord, InEdge, InResize, InReleases, InDrag, InFocus
    <2> QED BY <2>2, <2>3, <2>4 DEF q
  <1>4. CASE ~DragsEdge(b) /\ ~TogglesFloating(b) /\ ~(b = PlaceButton /\ at.edge) /\ MovesWindow(b)
    <2> DEFINE drag == [id |-> Over, moved |-> FALSE]
    <2>1. /\ q = [u EXCEPT !.camera = None, !.drag = drag]
          /\ b = MovePress /\ MoveHold \in held /\ Over \in Windows
      BY <1>4, <1>t DEF Begin, MovesWindow, u
    <2>2. drag \in WindowDrag
      BY <2>1 DEF WindowDrag
    <2>3. drag # None /\ MoveHold = PanButton
      BY <2>1, <2>2, <1>t DEF GesturesAssumption, Bindings
    <2> HIDE DEF drag
    <2>4. /\ q \in Gesture /\ q.camera = None /\ q.drag = drag /\ q.resize = u.resize
          /\ q.chord = u.chord /\ q.closing = u.closing /\ q.panClick = u.panClick
          /\ q.releases = u.releases /\ q.focusClick = u.focusClick /\ q.edge = u.edge
      BY <1>u, <2>1, <2>2 DEF Gesture
    <2> HIDE DEF q
    <2>5. \A x : Owns(u, x) => Owns(q, x)
      BY <2>3, <2>4 DEF Owns
    <2>6. Owns(q, b)
      BY <2>1, <2>3, <2>4 DEF Owns
    <2>7. \A x \in held : Owns(p, x) => Owns(q, x)
      BY <1>u, <2>5
    <2>8. q.edge => p.edge /\ b # PlaceButton
      BY <1>4, <1>u, <2>4
    <2>9. Good(q)
      BY <1>o, <1>u, <2>1, <2>3, <2>4, <2>8 DEF Owns, Sole, InChord, InEdge, InResize, InReleases, InDrag, InFocus, Others
    <2> QED BY <1>u, <2>4, <2>6, <2>7, <2>9 DEF q
  <1>5. CASE ~DragsEdge(b) /\ ~TogglesFloating(b) /\ ~(b = PlaceButton /\ at.edge) /\ ~MovesWindow(b)
    <2> DEFINE camera == [window |-> Over, dragging |-> FALSE]
    <2>1. q = [u EXCEPT !.camera = camera] /\ b = PanButton
      BY <1>5 DEF Begin, Begins, u
    <2>2. camera \in CameraDrag
      BY <1>t DEF CameraDrag
    <2>3. camera # None
      BY <2>2 DEF GesturesAssumption
    <2> HIDE DEF camera
    <2>4. /\ q \in Gesture /\ q.camera = camera /\ q.drag = u.drag /\ q.resize = u.resize
          /\ q.chord = u.chord /\ q.closing = u.closing /\ q.panClick = u.panClick
          /\ q.releases = u.releases /\ q.focusClick = u.focusClick /\ q.edge = u.edge
      BY <1>u, <2>1, <2>2 DEF Gesture
    <2> HIDE DEF q
    <2>5. \A x : Owns(u, x) => Owns(q, x)
      BY <2>3, <2>4 DEF Owns
    <2>6. Owns(q, b)
      BY <2>1, <2>3, <2>4 DEF Owns
    <2>7. \A x \in held : Owns(p, x) => Owns(q, x)
      BY <1>u, <2>5
    <2>8. q.edge => p.edge \/ PlaceButton = PanButton
      BY <1>u, <2>1, <2>4
    <2>9. Good(q)
      BY <1>o, <1>u, <2>1, <2>4, <2>8 DEF Owns, Sole, InChord, InEdge, InResize, InReleases, InDrag, InFocus
    <2> QED BY <1>u, <2>4, <2>6, <2>7, <2>9 DEF q
  <1> QED BY <1>1, <1>2, <1>3, <1>4, <1>5

\* A press that nobody consumes goes to the client, or its release is swallowed.
LEMMA DeliverAnswers ==
  ASSUME Typed, NEW s \in StepType, NEW b \in Buttons
  PROVE  /\ Deliver(s, b) \in StepType
         /\ b \in Deliver(s, b).client.down \/ Owns(Deliver(s, b).pending, b)
         /\ s.client.down \subseteq Deliver(s, b).client.down
         /\ Deliver(s, b).client.stray \subseteq s.client.stray
         /\ \A x : Owns(s.pending, x) => Owns(Deliver(s, b).pending, x)
         /\ Deliver(s, b).pending.panClick = s.pending.panClick
         /\ Deliver(s, b).pending.closing = s.pending.closing
         /\ locked => Deliver(s, b).pending = s.pending
         /\ \/ /\ Deliver(s, b).pending = s.pending
               /\ Deliver(s, b).client.down = s.client.down \cup {b}
            \/ /\ b = Left /\ Deliver(s, b).client = s.client
               /\ Deliver(s, b).pending.drag = s.pending.drag
               /\ Deliver(s, b).pending.resize = s.pending.resize
               /\ Deliver(s, b).pending.chord = s.pending.chord
               /\ Deliver(s, b).pending.edge = s.pending.edge
               /\ Deliver(s, b).pending.releases = s.pending.releases
PROOF
  <1> DEFINE target == IF s.client.grabbed THEN None ELSE Over
             t == Deliver(s, b)
             w == Focused(s.world, target)
  <1>0. /\ s.pending \in Gesture /\ s.client \in ClientType /\ w \in WorldType
        /\ locked => target = None
    BY OverType, FocusedType DEF StepType
  <1> HIDE DEF w, target
  <1>1. CASE b = Left /\ target # None /\ target # s.world.focus
    <2> DEFINE q == [s.pending EXCEPT !.focusClick = TRUE]
    <2>1. t = [[s EXCEPT !.world = w] EXCEPT !.pending = q]
      BY <1>1 DEF Deliver, w, target, StepType
    <2>2. /\ q \in Gesture /\ q.camera = s.pending.camera /\ q.drag = s.pending.drag
          /\ q.resize = s.pending.resize /\ q.chord = s.pending.chord
          /\ q.closing = s.pending.closing /\ q.panClick = s.pending.panClick
          /\ q.releases = s.pending.releases /\ q.focusClick = TRUE /\ q.edge = s.pending.edge
      BY <1>0 DEF Gesture
    <2> HIDE DEF q
    <2>3. t \in StepType /\ t.pending = q /\ t.client = s.client
      BY <1>0, <2>1, <2>2 DEF StepType
    <2>4. Owns(q, b) /\ \A x : Owns(s.pending, x) => Owns(q, x)
      BY <1>1, <2>2 DEF Owns
    <2> HIDE DEF t
    <2>5. ~locked
      BY <1>0, <1>1
    <2>6. /\ t \in StepType /\ Owns(t.pending, b)
          /\ s.client.down \subseteq t.client.down /\ t.client.stray \subseteq s.client.stray
          /\ \A x : Owns(s.pending, x) => Owns(t.pending, x)
          /\ t.pending.panClick = s.pending.panClick /\ t.pending.closing = s.pending.closing
      BY <2>2, <2>3, <2>4
    <2> QED BY <1>1, <2>2, <2>3, <2>5, <2>6 DEF t
  <1>2. CASE ~(b = Left /\ target # None /\ target # s.world.focus)
    <2> DEFINE c == SendDown(s.client, b)
    <2>1. t = [[s EXCEPT !.world = w] EXCEPT !.client = c]
      BY <1>2 DEF Deliver, w, target, StepType
    <2>2. /\ c \in ClientType /\ c.down = s.client.down \cup {b}
          /\ c.stray = s.client.stray \ {b}
      BY <1>0 DEF SendDown, ClientType
    <2> HIDE DEF c
    <2>3. t \in StepType /\ t.pending = s.pending /\ t.client = c
      BY <1>0, <2>1, <2>2 DEF StepType
    <2> HIDE DEF t
    <2>4. /\ b \in t.client.down /\ s.client.down \subseteq t.client.down
          /\ t.client.stray \subseteq s.client.stray
      BY <2>2, <2>3
    <2> QED BY <2>2, <2>3, <2>4 DEF t
  <1> QED BY <1>1, <1>2

LEMMA CountKeeps ==
  ASSUME NEW p \in Gesture, NEW b
  PROVE  /\ CountChordClick(p, b) \in Gesture
         /\ \A x : Owns(CountChordClick(p, b), x) <=> Owns(p, x)
         /\ CountChordClick(p, b).panClick = p.panClick
         /\ CountChordClick(p, b).closing = p.closing
         /\ locked => CountChordClick(p, b) = p
         /\ SameClaims(p, CountChordClick(p, b))
PROOF
  <1> DEFINE q == CountChordClick(p, b)
  <1>1. ASSUME NEW click \in ChordClick \cup {None}, q = [p EXCEPT !.chordClick = click]
        PROVE  /\ q \in Gesture /\ \A x : Owns(q, x) <=> Owns(p, x)
               /\ q.panClick = p.panClick /\ q.closing = p.closing
               /\ SameClaims(p, q)
    <2>1. /\ q \in Gesture /\ q.camera = p.camera /\ q.drag = p.drag /\ q.resize = p.resize
          /\ q.chord = p.chord /\ q.closing = p.closing /\ q.panClick = p.panClick
          /\ q.releases = p.releases /\ q.focusClick = p.focusClick /\ q.edge = p.edge
      BY <1>1 DEF Gesture
    <2> HIDE DEF q
    <2> QED BY <2>1, SameGestures DEF SameClaims
  <1>2. CASE q = p
    BY <1>2 DEF SameClaims
  <1>3. CASE q = [p EXCEPT !.chordClick = None] /\ ~locked
    BY <1>1, <1>3
  <1>4. CASE q = [p EXCEPT !.chordClick.clicks = OneMore(p.chordClick.clicks)]
             /\ p.chordClick # None /\ ~locked
    <2> DEFINE click == [p.chordClick EXCEPT !.clicks = OneMore(p.chordClick.clicks)]
    <2>1. p.chordClick \in ChordClick
      BY <1>4 DEF Gesture
    <2>2. OneMore(p.chordClick.clicks) \in 1..6
      BY <2>1, OneMoreType DEF ChordClick
    <2>3. click \in ChordClick
      BY <2>1, <2>2 DEF ChordClick
    <2>4. q = [p EXCEPT !.chordClick = click]
      BY <1>4
    <2> HIDE DEF click
    <2> QED BY <1>1, <1>4, <2>3, <2>4
  <1> QED BY <1>2, <1>3, <1>4 DEF CountChordClick

-----------------------------------------------------------------------------
(* The invariant *)

Covered == Answered(Now, held)

IInv == Typed /\ LockedIsIdle /\ SwallowingEnds /\ Covered

\* The client's buttons are down, and no gesture waits for one that it was given.
Tidy ==
  /\ client.down \subseteq phys \cup robbed /\ PanButton \notin robbed
  /\ Settled(Now, held, locked)

\* A step does no harm, and gives no release back that a close gesture took.
Tided == Tidy => Tidy'

LEMMA NoneWorks == \A b : ~ Owns(Idle, b)
  BY DEF Owns, Idle, ChordButtons

LEMMA NowType ==
  Typed => Now \in StepType /\ Now.pending = pending /\ Now.client = client /\ Now.world = world
  BY DEF Typed, GesturesTypeOK, Now, StepType, ClientType, WorldType

\* What a handler leaves behind.
LEMMA Becomes ==
  ASSUME Typed, NEW t \in StepType, Become(t), phys' \subseteq Buttons, held' \subseteq phys',
         at' \in Spots, locked' \in BOOLEAN, robbed' \subseteq Buttons
  PROVE  /\ Typed'
         /\ Answered(t, held') => Covered'
         /\ t.client.down \subseteq phys' \cup robbed' /\ Settled(t, held', locked')
            /\ robbed' = robbed /\ PanButton \notin robbed => Tidy'
PROOF
  <1>1. /\ pending' = t.pending /\ client' = t.client /\ world' = t.world
        /\ t.pending \in Gesture /\ t.client \in ClientType /\ t.world \in WorldType
    BY DEF Become, StepType
  <1>2. Typed'
    BY <1>1 DEF Typed, GesturesTypeOK, ClientType, WorldType
  <1>3. ASSUME Answered(t, held') PROVE Covered'
    BY <1>1, <1>3 DEF Answered, Covered, Now
  <1>4. ASSUME t.client.down \subseteq phys' \cup robbed', Settled(t, held', locked'),
               robbed' = robbed, PanButton \notin robbed
        PROVE  Tidy'
    <2>1. Settled(Now, held, locked)'
      BY <1>1, <1>4 DEF Settled, Orderly, Now, Others
    <2> QED BY <1>1, <1>4, <2>1 DEF Tidy
  <1> QED BY <1>2, <1>3, <1>4

LEMMA PressKeeps ==
  ASSUME GesturesAssumption, Bindings, IInv, NEW b \in Buttons, Press(b)
  PROVE  IInv' /\ client'.stray \subseteq client.stray /\ Tided
PROOF
  <1> DEFINE s == IF pending.panClick # None /\ (b # PanButton \/ pending.panClick.expired)
                  THEN ReplayPanClick(Now) ELSE Now
             p == CountChordClick(s.pending, b)
             u == IF locked THEN p ELSE Unplaced(p, b)
             t == IF pending.closing THEN s
                  ELSE IF Begins(b) THEN With(s, Begin(p, b))
                  ELSE Deliver(With(s, u), b)
  <1>0. /\ phys' = phys \cup {b} /\ held' = held \cup {b} /\ b \notin held /\ at' = at
        /\ locked' = locked /\ Become(t) /\ Typed /\ b # None
        /\ robbed' = robbed /\ robbed \subseteq Buttons
    BY DEF Press, IInv, Typed, GesturesTypeOK, Buttons
  <1>s. /\ s \in StepType /\ Keeps(Now, s) /\ s.pending.closing = pending.closing
        /\ locked => s.pending = pending
    <2>1. Now \in StepType /\ Now.pending = pending /\ Now.client = client
      BY <1>0, NowType
    <2>2. CASE s = Now
      <3>1. Keeps(Now, Now)
        BY <2>1, TidiesSelf DEF Keeps
      <3> QED BY <2>1, <2>2, <3>1
    <2>3. CASE s = ReplayPanClick(Now) /\ pending.panClick # None
      <3>1. ~locked
        BY <2>3 DEF IInv, LockedIsIdle, Idle
      <3>2. [pending EXCEPT !.panClick = None].closing = pending.closing
        BY <1>0 DEF Typed, GesturesTypeOK, Gesture
      <3> HIDE DEF s
      <3>3. /\ Keeps(Now, s) /\ s.pending = [pending EXCEPT !.panClick = None]
        BY <2>1, <2>3, ReplayKeeps
      <3>4. s \in StepType
        BY <3>3 DEF Keeps
      <3> QED BY <3>1, <3>2, <3>3, <3>4
    <2> QED BY <2>2, <2>3
  <1> HIDE DEF s
  <1>a. Answered(s, held)
    BY <1>s, KeepsAnswered DEF IInv, Covered
  <1>p. /\ p \in Gesture /\ \A x : Owns(p, x) <=> Owns(s.pending, x)
        /\ p.panClick = s.pending.panClick /\ p.closing = pending.closing
        /\ locked => p = pending
        /\ SameClaims(s.pending, p)
    BY <1>s, CountKeeps DEF StepType
  <1> HIDE DEF p
  <1>q. ASSUME Tidy
        PROVE  /\ Settled(s, held, locked) /\ Orderly(p, held)
               /\ s.client.down \subseteq phys \cup robbed
               /\ \A x \in Others : Owns(p, x) => x \notin s.client.down
    <2>1. Settled(s, held, locked) /\ s.client.down \subseteq client.down
      <3>1. Tidies(Now, s) /\ Now.client = client
        BY <1>0, <1>s, NowType DEF Keeps
      <3> QED BY <1>q, <3>1, TidiesSettles DEF Tidy, Tidies
    <2>2. Orderly(p, held)
      BY <1>p, <2>1, SameClaimsOwn DEF Settled, Orderly, Others
    <2> QED BY <1>p, <1>q, <2>1, <2>2 DEF Tidy, Settled
  <1>b. b \notin phys
    BY DEF Press
  <1>t. /\ t \in StepType /\ Answered(t, held') /\ t.client.stray \subseteq s.client.stray
        /\ locked => t.pending = pending
        /\ Tidy =>
             t.client.down \subseteq phys' \cup robbed /\ Settled(t, held', locked)
    <2>1. CASE pending.closing
      <3>1. s.pending.closing
        BY <1>s, <2>1
      <3>2. t = s /\ (locked => s.pending = pending)
        BY <1>s, <2>1
      <3>3. Answered(s, held')
        BY <1>a, <1>0, <3>1 DEF Answered, Responsible
      <3> HIDE DEF t
      <3>4. Tidy => Settled(s, held', locked) /\ s.client.down \subseteq phys' \cup robbed
        BY <1>0, <1>q DEF Settled, Orderly
      <3> QED BY <1>s, <2>1, <3>2, <3>3, <3>4
    <2>2. CASE ~pending.closing /\ Begins(b)
      <3> DEFINE q == Begin(p, b)
      <3>1. /\ q \in Gesture /\ Owns(q, b) /\ \A x \in held : Owns(p, x) => Owns(q, x)
            /\ q.panClick = p.panClick /\ q.closing = p.closing
            /\ Orderly(p, held) =>
                 \A x \in Others : Owns(q, x) => (x = b \/ Owns(p, x)) /\ Sole(q, x)
        BY <1>0, <1>p, <2>2, BeginOwns
      <3> HIDE DEF q
      <3>2. /\ With(s, q) \in StepType /\ With(s, q).pending = q /\ With(s, q).client = s.client
        BY <1>s, <3>1, WithType
      <3>3. Answered(With(s, q), held')
        BY <1>a, <1>0, <1>s, <1>p, <3>1, <3>2 DEF Answered, Responsible
      <3>4. t = With(s, q) /\ ~locked
        BY <2>2 DEF q, Begins
      <3> HIDE DEF t
      <3>5. ASSUME Tidy
            PROVE  t.client.down \subseteq phys' \cup robbed /\ Settled(t, held', locked)
        <4>1. Orderly(q, held')
          BY <1>0, <1>q, <3>1, <3>5 DEF Orderly
        <4>2. ASSUME NEW x \in Others, Owns(q, x) PROVE x \notin s.client.down
          BY <1>b, <1>q, <3>1, <3>5, <4>2 DEF Others
        <4>3. Settled(t, held', locked)
          BY <1>q, <3>2, <3>4, <3>5, <4>1, <4>2 DEF Settled
        <4> QED BY <1>0, <1>p, <1>q, <2>2, <3>1, <3>2, <3>4, <3>5, <4>3
      <3> QED BY <3>2, <3>3, <3>4, <3>5
    <2>3. CASE ~pending.closing /\ ~Begins(b)
      <3>u. /\ u \in Gesture /\ \A x : x # b /\ Owns(p, x) => Owns(u, x)
            /\ u.panClick = p.panClick /\ u.closing = p.closing /\ (locked => u = p)
            /\ u.drag = p.drag /\ u.resize = p.resize /\ u.chord = p.chord
            /\ u.releases = p.releases /\ u.focusClick = p.focusClick
            /\ ~ locked => u.edge = IF b = PlaceButton THEN at.edge ELSE p.edge
        BY <1>0, <1>p, UnplacedKeeps
      <3> HIDE DEF u
      <3> DEFINE v == With(s, u)
      <3>1. v \in StepType /\ v.pending = u /\ v.client = s.client
        BY <1>s, <3>u, WithType
      <3> HIDE DEF v
      <3>2. /\ Deliver(v, b) \in StepType
            /\ b \in Deliver(v, b).client.down \/ Owns(Deliver(v, b).pending, b)
            /\ v.client.down \subseteq Deliver(v, b).client.down
            /\ Deliver(v, b).client.stray \subseteq v.client.stray
            /\ \A x : Owns(v.pending, x) => Owns(Deliver(v, b).pending, x)
            /\ Deliver(v, b).pending.panClick = v.pending.panClick
            /\ Deliver(v, b).pending.closing = v.pending.closing
            /\ locked => Deliver(v, b).pending = v.pending
            /\ \/ /\ Deliver(v, b).pending = v.pending
                  /\ Deliver(v, b).client.down = v.client.down \cup {b}
               \/ /\ b = Left /\ Deliver(v, b).client = v.client
                  /\ Deliver(v, b).pending.drag = v.pending.drag
                  /\ Deliver(v, b).pending.resize = v.pending.resize
                  /\ Deliver(v, b).pending.chord = v.pending.chord
                  /\ Deliver(v, b).pending.edge = v.pending.edge
                  /\ Deliver(v, b).pending.releases = v.pending.releases
        BY <1>0, <3>1, DeliverAnswers
      <3>3. t = Deliver(v, b)
        BY <2>3 DEF v
      <3>4. b = PanButton => u.panClick = None
        <4>1. b = PanButton => locked
          BY <2>3 DEF Begins
        <4>2. locked => pending.panClick = None
          BY DEF IInv, LockedIsIdle, Idle
        <4> QED BY <4>1, <4>2, <1>p, <3>u
      <3> HIDE DEF t
      <3>5. ASSUME NEW x \in held' PROVE x \in t.client.down \/ Responsible(t.pending, x)
        <4>1. CASE x = b
          BY <4>1, <3>2, <3>3 DEF Responsible
        <4>2. CASE x # b
          <5>1. x \in s.client.down \/ Responsible(s.pending, x)
            BY <4>2, <1>0, <1>a DEF Answered
          <5> QED BY <5>1, <4>2, <1>s, <1>p, <3>u, <3>1, <3>2, <3>3 DEF Responsible
        <4> QED BY <4>1, <4>2
      <3>6. ASSUME t.pending.panClick # None, PanButton \in held' PROVE Responsible(t.pending, PanButton)
        <4>1. PanButton # b /\ PanButton \in held /\ s.pending.panClick # None
          BY <3>6, <1>0, <1>p, <3>u, <3>1, <3>2, <3>3, <3>4
        <4>2. Responsible(s.pending, PanButton)
          BY <4>1, <1>a DEF Answered
        <4> QED BY <4>1, <4>2, <1>s, <1>p, <3>u, <3>1, <3>2, <3>3 DEF Responsible
      <3>7. ASSUME Tidy
            PROVE  t.client.down \subseteq phys' \cup robbed /\ Settled(t, held', locked)
        <4>1. t.client.down \subseteq s.client.down \cup {b}
          BY <1>p, <2>3, <3>u, <3>1, <3>2, <3>3
        <4>2. CASE locked
          <5>1. t.pending = Idle
            BY <4>2, <1>p, <3>u, <3>1, <3>2, <3>3 DEF IInv, LockedIsIdle
          <5>2. Settled(t, held', locked)
            BY <4>2, <5>1, NoneWorks DEF Settled, Orderly
          <5> QED BY <1>0, <1>q, <3>7, <4>1, <5>2
        <4>3. CASE ~ locked
          <5>1. b # PanButton /\ (b = PlaceButton => ~ at.edge)
            BY <2>3, <4>3 DEF Begins
          <5>2. b \in Others => ~ Owns(p, b)
            BY <1>0, <1>q, <3>7, <5>1 DEF Orderly
          <5>3. ASSUME NEW x \in Others, Owns(u, x)
                PROVE  x # b /\ Owns(p, x) /\ Sole(u, x)
            <6>1. u.edge => p.edge /\ b # PlaceButton
              BY <3>u, <4>3, <5>1 DEF Typed, GesturesTypeOK, Spots
            <6>2. Owns(p, x)
              BY <3>u, <5>3, <6>1 DEF Owns, Others
            <6>3. Sole(p, x)
              BY <1>q, <3>7, <6>2 DEF Orderly
            <6>4. Sole(u, x)
              BY <3>u, <6>1, <6>3 DEF Sole, InChord, InEdge, InResize, InReleases, InDrag, InFocus
            <6> QED BY <5>2, <6>2, <6>4
          <5>4. ASSUME NEW x \in Others, Owns(t.pending, x)
                PROVE  x \in held' /\ Sole(t.pending, x) /\ x \notin t.client.down
            <6>1. CASE t.pending = u /\ t.client.down = s.client.down \cup {b}
              <7>1. x # b /\ Owns(p, x) /\ Sole(u, x)
                BY <5>3, <5>4, <6>1
              <7> QED BY <1>0, <1>q, <3>7, <6>1, <7>1 DEF Orderly
            <6>2. CASE /\ b = Left /\ t.client = s.client
                       /\ t.pending.drag = u.drag /\ t.pending.resize = u.resize
                       /\ t.pending.chord = u.chord /\ t.pending.edge = u.edge
                       /\ t.pending.releases = u.releases
              <7>1. CASE x = b
                <8>1. ~ Owns(u, b)
                  BY <5>3, <7>1
                <8>2. Sole(t.pending, x)
                  BY <6>2, <7>1, <8>1 DEF Owns, Sole, InChord, InEdge, InResize, InReleases, InDrag, InFocus
                <8> QED BY <1>0, <1>b, <1>q, <3>7, <6>2, <7>1, <8>2 DEF Others
              <7>2. CASE x # b
                <8>1. Owns(u, x)
                  BY <5>4, <6>2, <7>2 DEF Owns, Others
                <8>2. Owns(p, x) /\ Sole(u, x)
                  BY <5>3, <8>1
                <8>3. Sole(t.pending, x)
                  BY <6>2, <7>2, <8>2 DEF Sole, InChord, InEdge, InResize, InReleases, InDrag, InFocus
                <8> QED BY <1>0, <1>q, <3>7, <6>2, <8>2, <8>3 DEF Orderly
              <7> QED BY <7>1, <7>2
            <6> QED BY <3>1, <3>2, <3>3, <6>1, <6>2
          <5>5. PanButton \notin t.client.down
            BY <1>q, <3>7, <4>1, <4>3, <5>1 DEF Settled
          <5>6. Settled(t, held', locked)
            BY <5>4, <5>5 DEF Settled, Orderly
          <5> QED BY <1>0, <1>q, <3>7, <4>1, <5>6
        <4> QED BY <4>2, <4>3
      <3> QED BY <1>p, <3>u, <3>1, <3>2, <3>3, <3>5, <3>6, <3>7 DEF Answered
    <2> QED BY <2>1, <2>2, <2>3
  <1> HIDE DEF t
  <1>1. Typed' /\ Covered' /\ Tided
    <2>1. phys' \subseteq Buttons /\ held' \subseteq phys' /\ at' \in Spots /\ locked' \in BOOLEAN
      BY <1>0 DEF Typed, GesturesTypeOK
    <2>2. Tidy => PanButton \notin robbed
      BY DEF Tidy
    <2> QED BY <1>0, <1>t, <2>1, <2>2, Becomes DEF Tided
  <1>2. LockedIsIdle'
    BY <1>0, <1>t DEF IInv, LockedIsIdle, Become, Idle
  <1>3. SwallowingEnds'
    BY <1>0 DEF SwallowingEnds
  <1>4. client'.stray \subseteq client.stray
    BY <1>0, <1>s, <1>t, NowType DEF Become, Keeps
  <1> QED BY <1>1, <1>2, <1>3, <1>4 DEF IInv

-----------------------------------------------------------------------------
(* A button goes up *)

\* Enough for the buttons that stay down.
LEMMA StillAnswered ==
  ASSUME NEW s, NEW t, NEW downs, Answered(s, downs),
         t.pending.closing = s.pending.closing,
         \A x \in downs : x \in s.client.down => x \in t.client.down,
         \A x \in downs : Owns(s.pending, x) => Owns(t.pending, x),
         t.pending.panClick # None => s.pending.panClick # None \/ PanButton \notin downs
  PROVE  Answered(t, downs)
  BY DEF Answered, Responsible

\* A gesture that ends gives its window the focus, if the World agrees.
AndFocus(s, p, id, yes) ==
  [[s EXCEPT !.pending = p] EXCEPT !.world = IF yes THEN Focused(s.world, id) ELSE s.world]

LEMMA FocusesWorld ==
  ASSUME NEW s \in StepType, NEW p \in Gesture, NEW id, NEW yes \in BOOLEAN
  PROVE  /\ AndFocus(s, p, id, yes) \in StepType /\ AndFocus(s, p, id, yes).pending = p
         /\ AndFocus(s, p, id, yes).client = s.client
PROOF
  <1> DEFINE w == IF yes THEN Focused(s.world, id) ELSE s.world
  <1>1. w \in WorldType
    BY FocusedType DEF StepType
  <1> HIDE DEF w
  <1>2. AndFocus(s, p, id, yes) = [[s EXCEPT !.pending = p] EXCEPT !.world = w]
    BY DEF w, AndFocus
  <1> QED BY <1>1, <1>2 DEF StepType

LEMMA ChordGoes ==
  ASSUME GesturesAssumption, NEW s \in StepType, NEW b, NEW downs, b \notin downs, NEW ok \in BOOLEAN,
         Answered(s, downs), b \in ChordButtons(s.pending.chord)
  PROVE  LET t == ReleaseChord(s, b, ok)
         IN  /\ t \in StepType /\ Answered(t, downs) /\ t.pending.closing = s.pending.closing
             /\ t.client = s.client
             /\ Orderly(s.pending, downs \cup {b}) => Passes(s.pending, t.pending, b)
PROOF
  <1> DEFINE chord == s.pending.chord
             rest == chord.held \ {b}
             left == IF rest = {} THEN None ELSE [chord EXCEPT !.held = rest]
             p == [s.pending EXCEPT !.chord = left]
             t == ReleaseChord(s, b, ok)
             yes == ok /\ chord.held = {FloatHold, FloatPress}
  <1>1. chord # None /\ chord \in FloatingChord /\ b \in chord.held
    BY DEF ChordButtons, StepType, Gesture
  <1>2. /\ left \in FloatingChord \cup {None}
        /\ \A x \in downs : x \in ChordButtons(chord) => x \in ChordButtons(left)
        /\ ChordButtons(left) = rest
    <2>1. CASE rest = {}
      BY <1>1, <2>1 DEF ChordButtons
    <2>2. CASE rest # {}
      <3> DEFINE c == [chord EXCEPT !.held = rest]
      <3>1. c \in FloatingChord /\ c.held = rest /\ left = c
        BY <1>1, <2>2 DEF FloatingChord
      <3> HIDE DEF c, left
      <3> QED BY <1>1, <2>2, <3>1 DEF ChordButtons, GesturesAssumption
    <2> QED BY <2>1, <2>2
  <1> HIDE DEF left
  <1>3. /\ p \in Gesture /\ p.camera = s.pending.camera /\ p.drag = s.pending.drag
        /\ p.resize = s.pending.resize /\ p.chord = left /\ p.closing = s.pending.closing
        /\ p.panClick = s.pending.panClick /\ p.releases = s.pending.releases
        /\ p.focusClick = s.pending.focusClick /\ p.edge = s.pending.edge
    BY <1>2 DEF StepType, Gesture
  <1>4. t \in StepType /\ t.pending = p /\ t.client = s.client
    <2>1. yes \in BOOLEAN
      OBVIOUS
    <2>2. t = AndFocus(s, p, chord.id, yes)
      BY DEF ReleaseChord, left, StepType, AndFocus
    <2> HIDE DEF t, p, yes
    <2> QED BY <1>3, <2>1, <2>2, FocusesWorld
  <1> HIDE DEF p
  <1>5. \A x \in downs : Owns(s.pending, x) => Owns(p, x)
    BY <1>2, <1>3 DEF Owns
  <1> HIDE DEF t
  <1>6. Answered(t, downs)
    BY <1>3, <1>4, <1>5, StillAnswered
  <1>7. ASSUME Orderly(s.pending, downs \cup {b}) PROVE Passes(s.pending, p, b)
    <2> SUFFICES ASSUME NEW x \in Others, Owns(p, x)
                 PROVE  x # b /\ Owns(s.pending, x) /\ Sole(p, x)
      BY DEF Passes
    <2>1. Owns(s.pending, x)
      BY <1>1, <1>2, <1>3 DEF Owns, ChordButtons
    <2>2. Sole(s.pending, x)
      BY <1>7, <2>1 DEF Orderly
    <2>3. ChordButtons(p.chord) = ChordButtons(s.pending.chord) \ {b} /\ b \in ChordButtons(s.pending.chord)
      BY <1>1, <1>2, <1>3 DEF ChordButtons
    <2>4. x # b /\ Sole(p, x)
      BY <1>3, <2>2, <2>3 DEF Owns, Sole, InChord, InEdge, InResize, InReleases, InDrag, InFocus, Others
    <2> QED BY <2>1, <2>4
  <1> QED BY <1>3, <1>4, <1>6, <1>7 DEF t

\* The other button of the move chord is answered for.
LEMMA DragGoes ==
  ASSUME NEW s \in StepType, NEW b, NEW downs, NEW ok \in BOOLEAN,
         Answered(s, downs), s.pending.drag # None, b \in {MoveHold, MovePress}, b \notin downs
  PROVE  LET t == ReleaseDrag(s, b, downs, ok)
         IN  /\ t \in StepType /\ Answered(t, downs) /\ t.pending.closing = s.pending.closing
             /\ t.client = s.client
             /\ Orderly(s.pending, downs \cup {b}) => Passes(s.pending, t.pending, b)
PROOF
  <1> DEFINE drag  == s.pending.drag
             count == IF s.pending.chordClick # None /\ s.pending.chordClick.id = drag.id
                      THEN s.pending.chordClick.clicks ELSE 1
             click == IF ChordClicks # {} /\ b = MovePress /\ MoveHold \in downs /\ ~ drag.moved
                      THEN [id |-> drag.id, clicks |-> count, expired |-> FALSE] ELSE None
             rest  == {MoveHold, MovePress} \cap downs
             p     == [[[s.pending EXCEPT !.drag = None] EXCEPT !.chordClick = click]
                        EXCEPT !.releases = rest]
             yes   == ok /\ drag.moved
             t     == ReleaseDrag(s, b, downs, ok)
  <1>1. drag \in WindowDrag /\ s.pending \in Gesture
    BY DEF StepType, Gesture
  <1>2. count \in 1..6
    BY <1>1 DEF Gesture, ChordClick
  <1> HIDE DEF count
  <1>3. click \in ChordClick \cup {None}
    BY <1>1, <1>2 DEF ChordClick, WindowDrag
  <1>4. yes \in BOOLEAN
    BY <1>1 DEF WindowDrag
  <1>5. t = AndFocus(s, p, drag.id, yes)
    BY DEF ReleaseDrag, AndFocus, StepType, count
  <1> HIDE DEF click
  <1>6. /\ p \in Gesture /\ p.camera = s.pending.camera
        /\ p.resize = s.pending.resize /\ p.chord = s.pending.chord
        /\ p.closing = s.pending.closing /\ p.panClick = s.pending.panClick /\ p.releases = rest
        /\ p.focusClick = s.pending.focusClick /\ p.edge = s.pending.edge /\ p.drag = None
    BY <1>1, <1>3 DEF Gesture
  <1> HIDE DEF p, yes, t
  <1>7. t \in StepType /\ t.pending = p /\ t.client = s.client
    BY <1>4, <1>5, <1>6, FocusesWorld
  <1>8. \A x \in downs : Owns(s.pending, x) => Owns(p, x)
    BY <1>1, <1>6 DEF Owns, Gesture
  <1>9. Answered(t, downs)
    BY <1>6, <1>7, <1>8, StillAnswered
  <1>10. ASSUME Orderly(s.pending, downs \cup {b}) PROVE Passes(s.pending, p, b)
    <2> SUFFICES ASSUME NEW x \in Others, Owns(p, x)
                 PROVE  x # b /\ Owns(s.pending, x) /\ Sole(p, x)
      BY DEF Passes
    <2>1. Owns(s.pending, x)
      BY <1>6 DEF Owns
    <2>2. Sole(s.pending, x)
      BY <1>10, <2>1 DEF Orderly
    <2>3. x # b
      BY <1>6, <2>2 DEF Owns, Sole, InChord, InEdge, InResize, InReleases, InDrag, InFocus, Others
    <2>4. Sole(p, x)
      BY <1>6, <2>2 DEF Owns, Sole, InChord, InEdge, InResize, InReleases, InDrag, InFocus
    <2> QED BY <2>1, <2>3, <2>4
  <1> QED BY <1>6, <1>7, <1>9, <1>10 DEF t

\* The click of the camera's button counts, or replays the one that was kept back.
LEMMA DeferKeeps ==
  ASSUME NEW s \in StepType, NEW window \in Windows \cup {None}
  PROVE  LET t == DeferPanClick(s, window)
         IN  /\ t \in StepType /\ t.pending.closing = s.pending.closing
             /\ t.client.stray \subseteq s.client.stray
             /\ \A x : x # PanButton /\ x \in s.client.down => x \in t.client.down
             /\ \A x : Owns(s.pending, x) => Owns(t.pending, x)
             /\ SameClaims(s.pending, t.pending) /\ t.client.down \subseteq s.client.down
PROOF
  <1> DEFINE first == s.pending.panClick
             same  == first # None /\ window # None /\ first.window = window /\ ~ first.expired
             again == IF same THEN OneMore(first.clicks) ELSE 1
             s1    == IF same THEN s ELSE ReplayPanClick(s)
             click == [window |-> window, clicks |-> again, expired |-> FALSE]
             t     == DeferPanClick(s, window)
  <1>1. s1 \in StepType /\ s1.pending.closing = s.pending.closing
        /\ s1.client.stray \subseteq s.client.stray
        /\ (\A x : x # PanButton /\ x \in s.client.down => x \in s1.client.down)
        /\ (\A x : Owns(s.pending, x) => Owns(s1.pending, x))
        /\ SameClaims(s.pending, s1.pending) /\ s1.client.down \subseteq s.client.down
    <2>1. CASE same
      BY <2>1 DEF SameClaims
    <2>2. CASE ~same
      <3>1. Keeps(s, ReplayPanClick(s))
            /\ ReplayPanClick(s).pending = [s.pending EXCEPT !.panClick = None]
        BY ReplayKeeps
      <3>2. ReplayPanClick(s).pending.closing = s.pending.closing
        BY <3>1 DEF StepType, Gesture
      <3> QED BY <2>2, <3>1, <3>2 DEF Keeps, Tidies
    <2> QED BY <2>1, <2>2
  <1>2. click \in PanClick
    <2>1. CASE same
      <3>1. OneMore(first.clicks) \in 1..6
        BY <2>1, OneMoreType DEF StepType, Gesture, PanClick
      <3> QED BY <2>1, <3>1 DEF PanClick
    <2>2. CASE ~same
      BY <2>2 DEF PanClick
    <2> QED BY <2>1, <2>2
  <1>3. ASSUME NEW c \in PanClick \cup {None}
        PROVE  LET q == [s1.pending EXCEPT !.panClick = c]
               IN  /\ q \in Gesture /\ q.closing = s1.pending.closing
                   /\ \A x : Owns(s1.pending, x) <=> Owns(q, x)
                   /\ SameClaims(s1.pending, q)
    <2> DEFINE p == s1.pending
               q == [p EXCEPT !.panClick = c]
    <2>0. p \in Gesture
      BY <1>1 DEF StepType
    <2> HIDE DEF s1, p
    <2>1. /\ q \in Gesture /\ q.camera = p.camera /\ q.drag = p.drag /\ q.resize = p.resize
          /\ q.chord = p.chord /\ q.closing = p.closing
          /\ q.releases = p.releases /\ q.focusClick = p.focusClick /\ q.edge = p.edge
      BY <2>0 DEF Gesture
    <2> HIDE DEF q
    <2>2. \A x : Owns(p, x) <=> Owns(q, x)
      BY <2>0, <2>1, SameGestures
    <2>3. SameClaims(p, q)
      BY <2>1 DEF SameClaims
    <2> QED BY <2>1, <2>2, <2>3 DEF q, p
  <1> DEFINE q(c) == [s1.pending EXCEPT !.panClick = c]
  <1>4. CASE again >= PanClicks
    <2>1. t = RunClickActions(With(s1, q(None)), window, FALSE)
      <3>1. [s1 EXCEPT !.pending.panClick = None] = With(s1, q(None))
        BY <1>1 DEF With, StepType
      <3> QED BY <1>4, <3>1 DEF DeferPanClick
    <2> HIDE DEF t
    <2>2. /\ q(None) \in Gesture /\ q(None).closing = s1.pending.closing
          /\ \A x : Owns(s1.pending, x) <=> Owns(q(None), x)
          /\ SameClaims(s1.pending, q(None))
      BY <1>3
    <2> HIDE DEF s1, q
    <2>3. With(s1, q(None)) \in StepType /\ With(s1, q(None)).pending = q(None)
          /\ With(s1, q(None)).client = s1.client
      BY <1>1, <2>2, WithType
    <2>4. t \in StepType /\ t.pending = q(None) /\ t.client = s1.client
      BY <2>1, <2>3, ActionsKeep
    <2>5. SameClaims(s.pending, t.pending)
      <3>1. SameClaims(s.pending, s1.pending)
        BY <1>1
      <3>2. SameClaims(s1.pending, t.pending)
        BY <2>2, <2>4
      <3> QED BY <3>1, <3>2, SameClaimsTwice
    <2> QED BY <1>1, <2>2, <2>4, <2>5 DEF t
  <1>5. CASE ~ (again >= PanClicks)
    <2>1. t = With(s1, q(click))
      <3>1. [s1 EXCEPT !.pending.panClick = click] = With(s1, q(click))
        BY <1>1 DEF With, StepType
      <3> QED BY <1>5, <3>1 DEF DeferPanClick
    <2> HIDE DEF t, click
    <2>2. /\ q(click) \in Gesture /\ q(click).closing = s1.pending.closing
          /\ \A x : Owns(s1.pending, x) <=> Owns(q(click), x)
          /\ SameClaims(s1.pending, q(click))
      BY <1>2, <1>3
    <2> HIDE DEF s1, q
    <2>3. t \in StepType /\ t.pending = q(click) /\ t.client = s1.client
      BY <1>1, <2>1, <2>2, WithType
    <2>4. SameClaims(s.pending, t.pending)
      <3>1. SameClaims(s.pending, s1.pending)
        BY <1>1
      <3>2. SameClaims(s1.pending, t.pending)
        BY <2>2, <2>3
      <3> QED BY <3>1, <3>2, SameClaimsTwice
    <2> QED BY <1>1, <2>2, <2>3, <2>4 DEF t
  <1> QED BY <1>4, <1>5

LEMMA CameraGoes ==
  ASSUME Typed, NEW s \in StepType, NEW downs, PanButton \notin downs, Answered(s, downs),
         s.pending.camera # None
  PROVE  LET t == ReleaseCamera(s)
         IN  /\ t \in StepType /\ Answered(t, downs) /\ t.pending.closing = s.pending.closing
             /\ t.client.stray \subseteq s.client.stray
             /\ SameClaims(s.pending, t.pending) /\ t.client.down \subseteq s.client.down
PROOF
  <1> DEFINE drag == s.pending.camera
             p  == [s.pending EXCEPT !.camera = None]
             s1 == With(s, p)
             s2 == AndFocus(s, p, Over, ~ s.client.grabbed)
             t  == ReleaseCamera(s)
  <1>1. /\ p \in Gesture /\ p.drag = s.pending.drag
        /\ p.resize = s.pending.resize /\ p.chord = s.pending.chord
        /\ p.closing = s.pending.closing /\ p.panClick = s.pending.panClick
        /\ p.releases = s.pending.releases
        /\ p.focusClick = s.pending.focusClick /\ p.edge = s.pending.edge
    BY DEF StepType, Gesture
  <1>0. drag.window \in Windows \cup {None}
    BY DEF StepType, Gesture, CameraDrag
  <1>e. /\ [s EXCEPT !.pending.camera = None] = s1
        /\ (IF s.client.grabbed THEN s1 ELSE [s1 EXCEPT !.world = Focused(s1.world, Over)]) = s2
    BY DEF With, AndFocus, StepType, ClientType
  <1>2. /\ \A x \in downs : Owns(s.pending, x) => Owns(p, x)
        /\ SameClaims(s.pending, p)
    BY <1>1 DEF Owns, SameClaims
  <1> HIDE DEF p
  <1>3. /\ s1 \in StepType /\ s1.pending = p /\ s1.client = s.client
        /\ s2 \in StepType /\ s2.pending = p /\ s2.client = s.client
    <2> DEFINE yes == ~ s.client.grabbed
    <2>1. yes \in BOOLEAN
      OBVIOUS
    <2> HIDE DEF yes
    <2>2. s1 \in StepType /\ s1.pending = p /\ s1.client = s.client
      BY <1>1, WithType
    <2>3. /\ AndFocus(s, p, Over, yes) \in StepType /\ AndFocus(s, p, Over, yes).pending = p
          /\ AndFocus(s, p, Over, yes).client = s.client
      BY <1>1, <2>1, FocusesWorld
    <2>4. s2 = AndFocus(s, p, Over, yes)
      BY DEF yes
    <2> HIDE DEF s1, s2
    <2> QED BY <2>2, <2>3, <2>4
  <1>4. Answered(s1, downs) /\ Answered(s2, downs)
    <2> HIDE DEF s1, s2
    <2>1. Answered(s1, downs)
      BY <1>1, <1>2, <1>3, StillAnswered
    <2>2. Answered(s2, downs)
      BY <1>1, <1>2, <1>3, StillAnswered
    <2> QED BY <2>1, <2>2
  <1> HIDE DEF s1, s2
  <1> DEFINE go == drag.dragging \/ (at.edge /\ EdgeCommand)
  <1>a. ASSUME go PROVE t = s1
    BY <1>e, <1>a DEF ReleaseCamera
  <1>b. ASSUME ~go, PanClicks = 0 PROVE t = [s2 EXCEPT !.client = SendClick(s2.client, PanButton)]
    BY <1>e, <1>b DEF ReleaseCamera
  <1>c. ASSUME ~go, PanClicks # 0 PROVE t = DeferPanClick(s2, drag.window)
    BY <1>e, <1>c DEF ReleaseCamera
  <1>5. \/ t = s1 \/ t = [s2 EXCEPT !.client = SendClick(s2.client, PanButton)]
        \/ t = DeferPanClick(s2, drag.window)
    <2> HIDE DEF t, go
    <2> QED BY <1>a, <1>b, <1>c
  <1>6. CASE t = s1
    <2> HIDE DEF t
    <2>1. t \in StepType /\ t.pending = p /\ t.client = s.client
      BY <1>3, <1>6
    <2>2. Answered(t, downs)
      BY <1>4, <1>6
    <2> QED BY <1>1, <1>2, <2>1, <2>2 DEF t
  <1>7. CASE t = [s2 EXCEPT !.client = SendClick(s2.client, PanButton)]
    <2>1. s2.client \in ClientType
      BY <1>3 DEF StepType
    <2> DEFINE c == SendClick(s2.client, PanButton)
    <2>2. c \in ClientType /\ c.stray \subseteq s.client.stray /\ c.down = s.client.down \ {PanButton}
      BY <2>1, <1>3, SendClickClient
    <2> HIDE DEF c
    <2>3. t \in StepType /\ t.pending = p /\ t.client = c
      BY <1>3, <1>7, <2>2 DEF StepType, c
    <2> HIDE DEF t
    <2>4. Answered(t, downs)
      BY <1>1, <1>2, <2>2, <2>3, StillAnswered
    <2> QED BY <1>1, <1>2, <2>2, <2>3, <2>4 DEF t
  <1>8. CASE t = DeferPanClick(s2, drag.window)
    <2> HIDE DEF drag
    <2> DEFINE d == DeferPanClick(s2, drag.window)
    <2>0. /\ d \in StepType /\ d.pending.closing = s2.pending.closing
          /\ d.client.stray \subseteq s2.client.stray
          /\ \A x : x # PanButton /\ x \in s2.client.down => x \in d.client.down
          /\ \A x : Owns(s2.pending, x) => Owns(d.pending, x)
          /\ SameClaims(s2.pending, d.pending) /\ d.client.down \subseteq s2.client.down
      BY <1>0, <1>3, DeferKeeps
    <2> HIDE DEF t
    <2>1. /\ t \in StepType /\ t.pending.closing = s2.pending.closing
          /\ t.client.stray \subseteq s2.client.stray
          /\ \A x : x # PanButton /\ x \in s2.client.down => x \in t.client.down
          /\ \A x : Owns(s2.pending, x) => Owns(t.pending, x)
          /\ SameClaims(s2.pending, t.pending) /\ t.client.down \subseteq s2.client.down
      BY <1>8, <2>0
    <2>2. Answered(t, downs)
      BY <1>4, <2>1, StillAnswered
    <2>3. SameClaims(s.pending, t.pending)
      BY <1>2, <1>3, <2>1 DEF SameClaims
    <2> QED BY <1>1, <1>3, <2>1, <2>2, <2>3 DEF t
  <1> QED BY <1>5, <1>6, <1>7, <1>8

\* A gesture that only stops to own the button that went up.
LEMMA GestureGoes ==
  ASSUME NEW s \in StepType, NEW downs, Answered(s, downs),
         NEW q \in Gesture, q.closing = s.pending.closing, q.panClick = s.pending.panClick,
         \A x \in downs : Owns(s.pending, x) => Owns(q, x),
         NEW id, NEW yes \in BOOLEAN
  PROVE  /\ AndFocus(s, q, id, yes) \in StepType /\ Answered(AndFocus(s, q, id, yes), downs)
         /\ AndFocus(s, q, id, yes).pending = q
         /\ AndFocus(s, q, id, yes).client = s.client
  BY FocusesWorld, StillAnswered

\* Whoever is responsible takes the release; the rest stays answered for.
LEMMA ReleasedAnswers ==
  ASSUME GesturesAssumption, Typed, NEW s \in StepType, NEW b \in Buttons, NEW downs, b \notin downs,
         NEW ok \in BOOLEAN, Answered(s, downs), locked => s.pending = Idle
  PROVE  LET t == Released(s, b, downs, ok)
         IN  /\ t \in StepType /\ Answered(t, downs) /\ t.pending.closing = s.pending.closing
             /\ b \in s.client.down \/ Owns(s.pending, b)
                => t.client.stray \subseteq s.client.stray
             /\ t.client.stray \subseteq s.client.stray \cup {b}
             /\ locked => t.pending = Idle
             /\ Settled(s, downs \cup {b}, locked) =>
                  Settled(t, downs, locked) /\ t.client.down \subseteq (s.client.down \ {b}) \cup robbed
PROOF
  <1> DEFINE p == s.pending
             t == Released(s, b, downs, ok)
             inChord == b \in ChordButtons(p.chord)
             inEdge == p.edge /\ b = PlaceButton
             inResize == p.resize # None /\ b = ResizeButton
             inReleases == b \in p.releases
             inDrag == p.drag # None /\ b \in {MoveHold, MovePress}
             inFocus == b = Left /\ p.focusClick
             inCamera == ~ locked /\ b = PanButton /\ p.camera # None
             Good == /\ t \in StepType /\ Answered(t, downs)
                     /\ t.pending.closing = s.pending.closing
                     /\ b \in s.client.down \/ Owns(s.pending, b)
                        => t.client.stray \subseteq s.client.stray
                     /\ t.client.stray \subseteq s.client.stray \cup {b}
                     /\ locked => t.pending = Idle
                     /\ Settled(s, downs \cup {b}, locked) =>
                          Settled(t, downs, locked) /\ t.client.down \subseteq (s.client.down \ {b}) \cup robbed
  <1> SUFFICES Good
    OBVIOUS
  <1>s. ASSUME NEW r, r.client.down \subseteq s.client.down, Owns(s.pending, b), ~ locked,
               Settled(s, downs \cup {b}, locked), Passes(s.pending, r.pending, b)
        PROVE  Settled(r, downs, locked) /\ r.client.down \subseteq (s.client.down \ {b}) \cup robbed
    <2>1. b \in s.client.down => b \in robbed
      BY <1>s DEF Settled, Others
    <2>2. Settled(r, downs, locked)
      BY <1>s, PassesSettles
    <2> QED BY <1>s, <2>1, <2>2
  <1>0. p \in Gesture /\ s.client \in ClientType
    BY DEF StepType
  <1>i. locked => ~inChord /\ ~inEdge /\ ~inResize /\ ~inReleases /\ ~inDrag /\ ~inFocus /\ ~inCamera
    BY DEF Idle, ChordButtons
  <1>1. CASE inChord
    <2>1. t = ReleaseChord(s, b, ok)
      BY <1>1 DEF Released
    <2>2. LET r == ReleaseChord(s, b, ok)
          IN  /\ r \in StepType /\ Answered(r, downs) /\ r.pending.closing = s.pending.closing
              /\ r.client = s.client
              /\ Orderly(s.pending, downs \cup {b}) => Passes(s.pending, r.pending, b)
      BY <1>1, ChordGoes
    <2> HIDE DEF t
    <2>3. ~locked /\ Owns(p, b)
      BY <1>1, <1>i DEF Owns
    <2>4. Settled(s, downs \cup {b}, locked) => Passes(s.pending, t.pending, b)
      BY <2>1, <2>2 DEF Settled
    <2> QED BY <2>1, <2>2, <2>3, <2>4, <1>s
  <1>q. ASSUME NEW q \in Gesture, q.closing = p.closing, q.panClick = p.panClick,
               \A x \in downs : Owns(p, x) => Owns(q, x), ~locked,
               NEW id, NEW yes \in BOOLEAN, t = AndFocus(s, q, id, yes),
               Owns(p, b), Orderly(p, downs \cup {b}) => Passes(p, q, b)
        PROVE  Good
    <2> HIDE DEF t
    <2>1. /\ t \in StepType /\ Answered(t, downs) /\ t.pending = q /\ t.client = s.client
      BY <1>q, GestureGoes
    <2>2. Settled(s, downs \cup {b}, locked) => Passes(s.pending, t.pending, b)
      BY <1>q, <2>1 DEF Settled
    <2> QED BY <1>q, <1>s, <2>1, <2>2
  <1>2. CASE ~inChord /\ inEdge
    <2> DEFINE q == [p EXCEPT !.edge = FALSE]
    <2>1. t = AndFocus(s, q, None, FALSE)
      BY <1>2 DEF Released, AndFocus, StepType
    <2>2. /\ q \in Gesture /\ q.camera = p.camera /\ q.drag = p.drag /\ q.resize = p.resize
          /\ q.chord = p.chord /\ q.closing = p.closing /\ q.panClick = p.panClick
          /\ q.releases = p.releases /\ q.focusClick = p.focusClick /\ q.edge = FALSE
      BY <1>0 DEF Gesture
    <2> HIDE DEF t, q
    <2>3. \A x \in downs : Owns(p, x) => Owns(q, x)
      BY <1>2, <2>2 DEF Owns
    <2>4. ~ locked /\ Owns(p, b)
      BY <1>2, <1>i DEF Owns
    <2>5. ASSUME Orderly(p, downs \cup {b}) PROVE Passes(p, q, b)
      <3> SUFFICES ASSUME NEW x \in Others, Owns(q, x)
                   PROVE  x # b /\ Owns(p, x) /\ Sole(q, x)
        BY DEF Passes
      <3>1. Owns(p, x)
        BY <2>2 DEF Owns
      <3>2. Sole(p, x)
        BY <2>5, <3>1 DEF Orderly
      <3>3. x # b /\ Sole(q, x)
        BY <1>2, <2>2, <3>2 DEF Owns, Sole, InChord, InEdge, InResize, InReleases, InDrag, InFocus, Others
      <3> QED BY <3>1, <3>3
    <2> QED BY <2>1, <2>2, <2>3, <2>4, <2>5, <1>q
  <1>3. CASE ~inChord /\ ~inEdge /\ inResize
    <2> DEFINE q == [p EXCEPT !.resize = None]
    <2>1. t = AndFocus(s, q, p.resize, TRUE)
      BY <1>3 DEF Released, AndFocus, StepType
    <2>2. /\ q \in Gesture /\ q.camera = p.camera /\ q.drag = p.drag /\ q.edge = p.edge
          /\ q.chord = p.chord /\ q.closing = p.closing /\ q.panClick = p.panClick
          /\ q.releases = p.releases /\ q.focusClick = p.focusClick /\ q.resize = None
      BY <1>0 DEF Gesture
    <2> HIDE DEF t, q
    <2>3. \A x \in downs : Owns(p, x) => Owns(q, x)
      BY <1>3, <2>2 DEF Owns
    <2>4. ~ locked /\ Owns(p, b)
      BY <1>3, <1>i DEF Owns
    <2>5. ASSUME Orderly(p, downs \cup {b}) PROVE Passes(p, q, b)
      <3> SUFFICES ASSUME NEW x \in Others, Owns(q, x)
                   PROVE  x # b /\ Owns(p, x) /\ Sole(q, x)
        BY DEF Passes
      <3>1. Owns(p, x)
        BY <2>2 DEF Owns
      <3>2. Sole(p, x)
        BY <2>5, <3>1 DEF Orderly
      <3>3. x # b /\ Sole(q, x)
        BY <1>3, <2>2, <3>2 DEF Owns, Sole, InChord, InEdge, InResize, InReleases, InDrag, InFocus, Others
      <3> QED BY <3>1, <3>3
    <2> QED BY <2>1, <2>2, <2>3, <2>4, <2>5, <1>q
  <1>4. CASE ~inChord /\ ~inEdge /\ ~inResize /\ inReleases
    <2> DEFINE q == [p EXCEPT !.releases = p.releases \ {b}]
    <2>1. t = AndFocus(s, q, None, FALSE)
      BY <1>4 DEF Released, AndFocus, StepType
    <2>2. /\ q \in Gesture /\ q.camera = p.camera /\ q.drag = p.drag /\ q.edge = p.edge
          /\ q.chord = p.chord /\ q.closing = p.closing /\ q.panClick = p.panClick
          /\ q.releases = p.releases \ {b} /\ q.focusClick = p.focusClick /\ q.resize = p.resize
      BY <1>0 DEF Gesture
    <2> HIDE DEF t, q
    <2>3. \A x \in downs : Owns(p, x) => Owns(q, x)
      BY <2>2 DEF Owns
    <2>4. ~ locked /\ Owns(p, b)
      BY <1>4, <1>i DEF Owns
    <2>5. ASSUME Orderly(p, downs \cup {b}) PROVE Passes(p, q, b)
      <3> SUFFICES ASSUME NEW x \in Others, Owns(q, x)
                   PROVE  x # b /\ Owns(p, x) /\ Sole(q, x)
        BY DEF Passes
      <3>1. Owns(p, x)
        BY <2>2 DEF Owns
      <3>2. Sole(p, x)
        BY <2>5, <3>1 DEF Orderly
      <3>3. x # b /\ Sole(q, x)
        BY <1>4, <2>2, <3>2 DEF Owns, Sole, InChord, InEdge, InResize, InReleases, InDrag, InFocus, Others
      <3> QED BY <3>1, <3>3
    <2> QED BY <2>1, <2>2, <2>3, <2>4, <2>5, <1>q
  <1>5. CASE ~inChord /\ ~inEdge /\ ~inResize /\ ~inReleases /\ inDrag
    <2>1. t = ReleaseDrag(s, b, downs, ok)
      BY <1>5 DEF Released
    <2>0. s.pending.drag # None /\ b \in {MoveHold, MovePress}
      BY <1>5
    <2>2. LET r == ReleaseDrag(s, b, downs, ok)
          IN  /\ r \in StepType /\ Answered(r, downs) /\ r.pending.closing = s.pending.closing
              /\ r.client = s.client
              /\ Orderly(s.pending, downs \cup {b}) => Passes(s.pending, r.pending, b)
      BY <2>0, DragGoes
    <2> HIDE DEF t
    <2>3. ~locked /\ Owns(p, b)
      BY <1>5, <1>i DEF Owns
    <2>4. Settled(s, downs \cup {b}, locked) => Passes(s.pending, t.pending, b)
      BY <2>1, <2>2 DEF Settled
    <2> QED BY <2>1, <2>2, <2>3, <2>4, <1>s
  <1>6. CASE ~inChord /\ ~inEdge /\ ~inResize /\ ~inReleases /\ ~inDrag /\ inFocus
    <2> DEFINE q == [p EXCEPT !.focusClick = FALSE]
    <2>1. t = AndFocus(s, q, None, FALSE)
      BY <1>6 DEF Released, AndFocus, StepType
    <2>2. /\ q \in Gesture /\ q.camera = p.camera /\ q.drag = p.drag /\ q.edge = p.edge
          /\ q.chord = p.chord /\ q.closing = p.closing /\ q.panClick = p.panClick
          /\ q.releases = p.releases /\ q.resize = p.resize /\ q.focusClick = FALSE
      BY <1>0 DEF Gesture
    <2> HIDE DEF t, q
    <2>3. \A x \in downs : Owns(p, x) => Owns(q, x)
      BY <1>6, <2>2 DEF Owns
    <2>4. ~ locked /\ Owns(p, b)
      BY <1>6, <1>i DEF Owns
    <2>5. ASSUME Orderly(p, downs \cup {b}) PROVE Passes(p, q, b)
      <3> SUFFICES ASSUME NEW x \in Others, Owns(q, x)
                   PROVE  x # b /\ Owns(p, x) /\ Sole(q, x)
        BY DEF Passes
      <3>1. Owns(p, x)
        BY <2>2 DEF Owns
      <3>2. Sole(p, x)
        BY <2>5, <3>1 DEF Orderly
      <3>3. x # b /\ Sole(q, x)
        BY <1>6, <2>2, <3>2 DEF Owns, Sole, InChord, InEdge, InResize, InReleases, InDrag, InFocus, Others
      <3> QED BY <3>1, <3>3
    <2> QED BY <2>1, <2>2, <2>3, <2>4, <2>5, <1>q
  <1>7. CASE ~inChord /\ ~inEdge /\ ~inResize /\ ~inReleases /\ ~inDrag /\ ~inFocus /\ inCamera
    <2>1. t = ReleaseCamera(s)
      BY <1>7 DEF Released
    <2>2. LET r == ReleaseCamera(s)
          IN  /\ r \in StepType /\ Answered(r, downs) /\ r.pending.closing = s.pending.closing
              /\ r.client.stray \subseteq s.client.stray
              /\ SameClaims(s.pending, r.pending) /\ r.client.down \subseteq s.client.down
      BY <1>7, CameraGoes
    <2> HIDE DEF t
    <2>3. ~ locked /\ Owns(p, b)
      BY <1>7 DEF Owns
    <2>4. ASSUME Settled(s, downs \cup {b}, locked) PROVE Passes(s.pending, t.pending, b)
      BY <1>7, <2>1, <2>2, <2>4, SameClaimsOwn DEF Passes, Settled, Orderly, Others
    <2> QED BY <2>1, <2>2, <2>3, <2>4, <1>s
  <1>8. CASE ~inChord /\ ~inEdge /\ ~inResize /\ ~inReleases /\ ~inDrag /\ ~inFocus /\ ~inCamera
    <2> DEFINE c == SendUp(s.client, b)
    <2>1. t = [s EXCEPT !.client = c]
      BY <1>8 DEF Released
    <2>2. /\ c \in ClientType /\ c.down = s.client.down \ {b}
          /\ c.stray = IF b \in s.client.down THEN s.client.stray ELSE s.client.stray \cup {b}
      <3> DEFINE e == IF b \in s.client.down THEN s.client.stray ELSE s.client.stray \cup {b}
                 g == s.client.grabbed /\ s.client.down \ {b} # {}
      <3>1. e \in SUBSET Buttons /\ g \in BOOLEAN /\ s.client.down \ {b} \in SUBSET Buttons
        BY <1>0 DEF ClientType
      <3>2. c = [down |-> s.client.down \ {b}, stray |-> e, grabbed |-> g]
        BY DEF SendUp
      <3> HIDE DEF e, g, c
      <3>3. c \in ClientType /\ c.down = s.client.down \ {b} /\ c.stray = e
        BY <3>1, <3>2 DEF ClientType
      <3> QED BY <3>3 DEF e
    <2> HIDE DEF c
    <2>3. t \in StepType /\ t.pending = p /\ t.client = c
      BY <2>1, <2>2 DEF StepType
    <2> HIDE DEF t
    <2>4. \A x \in downs : x \in s.client.down => x \in t.client.down
      BY <2>2, <2>3
    <2>5. Answered(t, downs)
      BY <2>3, <2>4, StillAnswered
    <2>6. ~ Owns(p, b)
      <3>1. locked => ~ Owns(p, b)
        BY DEF Idle, Owns, ChordButtons
      <3>2. ~locked => ~ Owns(p, b)
        BY <1>8 DEF Owns
      <3> QED BY <3>1, <3>2
    <2>7. ASSUME Settled(s, downs \cup {b}, locked) PROVE Settled(t, downs, locked)
      <3>1. Passes(p, t.pending, b)
        BY <2>3, <2>6, <2>7 DEF Passes, Settled, Orderly
      <3> QED BY <2>2, <2>3, <2>7, <3>1, PassesSettles
    <2> QED BY <2>2, <2>3, <2>5, <2>6, <2>7
  <1> QED BY <1>1, <1>2, <1>3, <1>4, <1>5, <1>6, <1>7, <1>8

LEMMA ReleaseKeeps ==
  ASSUME GesturesAssumption, IInv, NEW b \in Buttons, Release(b)
  PROVE  IInv' /\ client'.stray \subseteq client.stray \cup (phys \ held) /\ Tided
PROOF
  <1>0. /\ phys' = phys \ {b} /\ held' = held \ {b} /\ at' = at /\ locked' = locked /\ b \in phys
        /\ Typed /\ pending \in Gesture /\ phys' \subseteq Buttons /\ held' \subseteq phys'
        /\ at' \in Spots /\ locked' \in BOOLEAN /\ robbed' \subseteq Buttons
        /\ robbed' = IF pending.closing /\ Awaited(b) THEN robbed \cup {b} ELSE robbed
    BY DEF Release, IInv, Typed, GesturesTypeOK
  <1>n. Now \in StepType /\ Now.pending = pending /\ Now.client = client
    BY <1>0, NowType
  <1>1. CASE pending.closing
    <2> DEFINE swallow == held' # {}
               q == [pending EXCEPT !.closing = swallow]
    <2>1. Become(With(Now, q))
      BY <1>1 DEF Release
    <2>2. q \in Gesture /\ q.closing = swallow /\ SameClaims(pending, q)
      <3>1. swallow \in BOOLEAN
        OBVIOUS
      <3> HIDE DEF swallow
      <3> QED BY <1>0, <3>1 DEF Gesture, SameClaims
    <2> HIDE DEF q
    <2>3. /\ With(Now, q) \in StepType /\ With(Now, q).pending = q /\ With(Now, q).client = client
      BY <1>n, <2>2, WithType
    <2>4. Answered(With(Now, q), held')
      BY <2>2, <2>3 DEF Answered, Responsible
    <2>5. Typed' /\ Covered'
      BY <1>0, <2>1, <2>3, <2>4, Becomes
    <2>6. pending' = q /\ client' = client
      BY <2>1, <2>3 DEF Become
    <2>7. LockedIsIdle'
      BY <1>0, <1>1 DEF IInv, LockedIsIdle, Idle
    <2>8. SwallowingEnds'
      BY <2>2, <2>6 DEF SwallowingEnds
    <2>9. ASSUME Tidy PROVE Tidy'
      <3>1. Settled(Now, held, locked) /\ client.down \subseteq phys \cup robbed
        BY <2>9 DEF Tidy
      <3>2. client'.down \subseteq phys' \cup robbed'
        BY <1>0, <1>1, <2>6, <3>1 DEF Awaited
      <3>3. ASSUME NEW x \in Others', Owns(q, x)
            PROVE  x \in held' /\ Sole(q, x) /\ x \notin client.down
        <4>1. x \in Others /\ x # PanButton /\ (x = b => ~ Awaited(b))
          BY <1>0, <1>1, <3>3 DEF Others
        <4>2. Owns(pending, x) /\ (Sole(pending, x) => Sole(q, x))
          BY <2>2, <3>3, <4>1, SameClaimsOwn
        <4>3. x \in held /\ Sole(pending, x) /\ x \notin client.down
          BY <1>n, <3>1, <4>1, <4>2 DEF Settled, Orderly
        <4>4. x # b
          BY <4>1, <4>2 DEF Awaited
        <4> QED BY <1>0, <4>2, <4>3, <4>4
      <3>4. ~ locked => PanButton \notin client.down
        BY <1>n, <3>1 DEF Settled
      <3>5. Now' = [pending |-> q, client |-> client, world |-> world']
        BY <2>6 DEF Now
      <3>6. Settled(Now, held, locked)'
        BY <1>0, <3>3, <3>4, <3>5 DEF Settled, Orderly
      <3>7. PanButton \notin robbed'
        <4>1. PanButton \notin client.down
          BY <1>1, <3>4 DEF IInv, LockedIsIdle, Idle
        <4> QED BY <1>0, <2>9, <4>1 DEF Awaited, Tidy
      <3> QED BY <3>2, <3>6, <3>7 DEF Tidy
    <2> QED BY <2>5, <2>6, <2>7, <2>8, <2>9 DEF IInv, Tided
  <1>2. CASE ~pending.closing
    <2> PICK ok \in BOOLEAN, gone \in BOOLEAN :
          Become(Released(IF b = MoveHold /\ pending.chordClick # None
                          THEN CompleteChordClick(With(Now, [pending EXCEPT !.chordClick = None]),
                                                  pending.chordClick, held', gone)
                          ELSE Now, b, held', ok))
      BY <1>2 DEF Release
    <2> DEFINE click == pending.chordClick
               q == [pending EXCEPT !.chordClick = None]
    <2>a. PICK s : s = IF b = MoveHold /\ click # None
                       THEN CompleteChordClick(With(Now, q), click, held', gone) ELSE Now
      OBVIOUS
    <2>b. PICK t : t = Released(s, b, held', ok)
      OBVIOUS
    <2>1. Become(t)
      BY <2>a, <2>b
    <2>2. /\ q \in Gesture /\ q.closing = pending.closing /\ q.panClick = pending.panClick
          /\ q.drag = pending.drag /\ q.resize = pending.resize /\ q.chord = pending.chord
          /\ q.edge = pending.edge /\ q.releases = pending.releases
          /\ q.focusClick = pending.focusClick
          /\ \A x : Owns(pending, x) <=> Owns(q, x)
      <3>1. /\ q \in Gesture /\ q.camera = pending.camera /\ q.drag = pending.drag
            /\ q.resize = pending.resize
            /\ q.chord = pending.chord /\ q.closing = pending.closing
            /\ q.panClick = pending.panClick
            /\ q.releases = pending.releases /\ q.focusClick = pending.focusClick
            /\ q.edge = pending.edge
        BY <1>0 DEF Gesture
      <3> HIDE DEF q
      <3> QED BY <1>0, <3>1, SameGestures
    <2>3. /\ s \in StepType /\ Keeps(Now, s)
          /\ s.pending.closing => held' # {}
          /\ locked => s.pending = Idle
      <3>1. CASE b = MoveHold /\ click # None
        <4> DEFINE w == With(Now, q)
        <4>1. /\ w \in StepType /\ w.pending = q /\ w.client = Now.client
          BY <1>n, <2>2, WithType
        <4>2. click \in ChordClick /\ ~locked
          BY <1>0, <3>1 DEF Gesture, IInv, LockedIsIdle, Idle
        <4>3. s = CompleteChordClick(w, click, held', gone)
          BY <2>a, <3>1
        <4> HIDE DEF w, q, click
        <4>4. Keeps(w, s)
          BY <1>2, <2>2, <4>1, <4>2, <4>3, CompleteKeeps
        <4>5. s.pending.closing => held' # {}
          BY <1>2, <2>2, <4>1, <4>2, <4>3, CompleteKeeps
        <4>7. Tidies(Now, w)
          BY <1>n, <2>2, <4>1, TidiesGestures
        <4>8. Tidies(w, s)
          BY <4>4 DEF Keeps
        <4>9. Tidies(Now, s)
          BY <4>7, <4>8, TidiesTwice
        <4>6. Keeps(Now, s) /\ s \in StepType
          BY <1>n, <1>2, <2>2, <4>1, <4>4, <4>9 DEF Keeps
        <4> QED BY <4>2, <4>5, <4>6
      <3>2. CASE ~ (b = MoveHold /\ click # None)
        <4>1. s = Now
          BY <2>a, <3>2
        <4>2. Keeps(Now, Now)
          BY <1>n, TidiesSelf DEF Keeps
        <4> QED BY <1>n, <1>2, <4>1, <4>2 DEF IInv, LockedIsIdle
      <3> QED BY <3>1, <3>2
    <2>4. Answered(s, held')
      <3>1. Answered(s, held)
        BY <2>3, KeepsAnswered DEF IInv, Covered
      <3> QED BY <1>0, <3>1 DEF Answered
    <2>5. b \notin held' /\ t = Released(s, b, held', ok)
      BY <1>0, <2>b
    <2>6. /\ t \in StepType /\ Answered(t, held') /\ t.pending.closing = s.pending.closing
          /\ b \in s.client.down \/ Owns(s.pending, b)
             => t.client.stray \subseteq s.client.stray
          /\ t.client.stray \subseteq s.client.stray \cup {b}
          /\ locked => t.pending = Idle
          /\ Settled(s, held' \cup {b}, locked) =>
               Settled(t, held', locked) /\ t.client.down \subseteq (s.client.down \ {b}) \cup robbed
      <3>1. PICK downs : downs = held'
        OBVIOUS
      <3>2. b \notin downs /\ Answered(s, downs) /\ (locked => s.pending = Idle) /\ s \in StepType
        BY <2>3, <2>4, <2>5, <3>1
      <3>3. LET r == Released(s, b, downs, ok)
            IN  /\ r \in StepType /\ Answered(r, downs) /\ r.pending.closing = s.pending.closing
                /\ b \in s.client.down \/ Owns(s.pending, b)
                   => r.client.stray \subseteq s.client.stray
                /\ r.client.stray \subseteq s.client.stray \cup {b}
                /\ locked => r.pending = Idle
                /\ Settled(s, downs \cup {b}, locked) =>
                     Settled(r, downs, locked) /\ r.client.down \subseteq (s.client.down \ {b}) \cup robbed
        BY <1>0, <3>2, ReleasedAnswers
      <3> QED BY <2>5, <3>1, <3>3
    <2>7. Typed' /\ Covered'
      BY <1>0, <2>1, <2>6, Becomes
    <2>11. ASSUME Tidy PROVE Tidy'
      <3>1. Tidies(Now, s)
        BY <2>3 DEF Keeps
      <3>2. Settled(s, held, locked)
        BY <2>11, <3>1, TidiesSettles DEF Tidy
      <3>3. Settled(s, held' \cup {b}, locked)
        BY <1>0, <3>2 DEF Settled, Orderly
      <3>4. s.client.down \subseteq phys \cup robbed
        BY <1>n, <2>11, <3>1 DEF Tidy, Tidies
      <3>5. t.client.down \subseteq phys' \cup robbed' /\ Settled(t, held', locked')
            /\ robbed' = robbed /\ PanButton \notin robbed
        BY <1>0, <1>2, <2>6, <2>11, <3>3, <3>4 DEF Tidy
      <3> QED BY <1>0, <2>1, <2>6, <3>5, Becomes
    <2>8. LockedIsIdle' /\ SwallowingEnds'
      BY <1>0, <2>1, <2>3, <2>6 DEF LockedIsIdle, SwallowingEnds, Become
    <2>9. b \in held => b \in s.client.down \/ Owns(s.pending, b)
      <3>1. b \in held => b \in client.down \/ Owns(pending, b)
        BY <1>2, <1>n DEF IInv, Covered, Answered, Responsible
      <3>2. b \in held /\ b = PanButton /\ pending.panClick # None => Owns(pending, b)
        BY <1>2, <1>n DEF IInv, Covered, Answered, Responsible
      <3> QED BY <3>1, <3>2, <1>n, <2>3 DEF Keeps
    <2>10. client'.stray \subseteq client.stray \cup (phys \ held)
      <3>1. s.client.stray \subseteq client.stray /\ client' = t.client
        BY <1>n, <2>1, <2>3 DEF Keeps, Become
      <3> QED BY <1>0, <2>6, <2>9, <3>1
    <2> QED BY <2>7, <2>8, <2>10, <2>11 DEF IInv, Tided
  <1> QED BY <1>1, <1>2

-----------------------------------------------------------------------------
(* The other steps *)

\* A step in which no button moves and nothing is taken from anybody.
LEMMA QuietKeeps ==
  ASSUME IInv, NEW t, Keeps(Now, t), Become(t), phys' = phys, held' = held,
         at' \in Spots, locked' = locked, robbed' = robbed,
         t.pending.closing => held # {}, locked => t.pending = Idle
  PROVE  IInv' /\ client'.stray \subseteq client.stray /\ Tided
PROOF
  <1>1. Typed /\ t \in StepType /\ Now.client = client
    BY NowType DEF Keeps, IInv
  <1>2. Answered(t, held')
    BY KeepsAnswered DEF IInv, Covered
  <1>3. phys' \subseteq Buttons /\ held' \subseteq phys' /\ locked' \in BOOLEAN
        /\ robbed' \subseteq Buttons
    BY <1>1 DEF Typed, GesturesTypeOK
  <1>4. Typed' /\ Covered'
    BY <1>1, <1>2, <1>3, Becomes
  <1>5. LockedIsIdle' /\ SwallowingEnds'
    BY DEF LockedIsIdle, SwallowingEnds, Become
  <1>6. client'.stray \subseteq client.stray
    BY <1>1 DEF Keeps, Become
  <1>7. ASSUME Tidy PROVE Tidy'
    <2>1. Tidies(Now, t) /\ Now.pending = pending
      BY <1>1, NowType DEF Keeps
    <2>2. Settled(t, held', locked')
      BY <1>7, <2>1, TidiesSettles DEF Tidy
    <2>3. t.client.down \subseteq phys' \cup robbed' /\ PanButton \notin robbed
      BY <1>1, <1>7, <2>1 DEF Tidy, Tidies
    <2> QED BY <1>1, <1>3, <2>2, <2>3, Becomes
  <1> QED BY <1>4, <1>5, <1>6, <1>7 DEF IInv, Tided

\* Gestures that change without a click being replayed.
LEMMA ChangesKeep ==
  ASSUME IInv, NEW p \in Gesture, p.panClick # None => pending.panClick # None,
         p.closing = pending.closing, \A x : Owns(pending, x) => Owns(p, x),
         SameClaims(pending, p)
  PROVE  /\ Keeps(Now, With(Now, p)) /\ With(Now, p).pending = p /\ With(Now, p) \in StepType
         /\ With(Now, p).client = client /\ With(Now, p).world = world
PROOF
  <1>1. Now \in StepType /\ Now.pending = pending /\ Now.client = client /\ Now.world = world
    BY NowType DEF IInv
  <1>2. /\ With(Now, p) \in StepType /\ With(Now, p).pending = p
        /\ With(Now, p).client = client /\ With(Now, p).world = world
    BY <1>1, WithType
  <1>3. Tidies(Now, With(Now, p))
    BY <1>1, <1>2 DEF Tidies
  <1> QED BY <1>1, <1>2, <1>3 DEF Keeps

LEMMA SameRecord ==
  ASSUME NEW p \in Gesture, NEW q \in Gesture,
         p.camera = q.camera, p.drag = q.drag, p.resize = q.resize, p.chord = q.chord,
         p.edge = q.edge, p.closing = q.closing, p.chordClick = q.chordClick,
         p.panClick = q.panClick, p.releases = q.releases, p.focusClick = q.focusClick
  PROVE  p = q
  BY DEF Gesture

LEMMA MoveKeeps ==
  ASSUME GesturesAssumption, IInv, NEW spot \in Spots,
         NEW fromPress \in BOOLEAN, NEW fromClick \in BOOLEAN, Move(spot, fromPress, fromClick)
  PROVE  IInv' /\ client'.stray \subseteq client.stray /\ Tided
PROOF
  <1> DEFINE click == IF fromClick THEN None ELSE pending.chordClick
             drag == IF pending.drag = None THEN None ELSE [pending.drag EXCEPT !.moved = fromPress]
             camera == IF pending.camera = None \/ pending.drag # None THEN pending.camera
                       ELSE [pending.camera EXCEPT !.dragging = pending.camera.dragging \/ fromPress]
             p == [[[pending EXCEPT !.chordClick = click] EXCEPT !.drag = drag]
                    EXCEPT !.camera = camera]
             s == With(Now, p)
             t == IF fromClick THEN ReplayPanClick(s) ELSE s
  <1>0. pending \in Gesture
    BY DEF IInv, Typed, GesturesTypeOK
  <1>1. Become(t) /\ at' = spot /\ phys' = phys /\ held' = held /\ locked' = locked
        /\ robbed' = robbed
    <2>1. [pending EXCEPT !.chordClick = click, !.drag = drag, !.camera = camera] = p
      <3> HIDE DEF click, drag, camera
      <3> QED OBVIOUS
    <2>2. at' = spot /\ phys' = phys /\ held' = held /\ locked' = locked /\ robbed' = robbed
      BY DEF Move
    <2> HIDE DEF p
    <2>3. Become(t)
      BY <2>1 DEF Move
    <2> QED BY <2>2, <2>3
  <1>2. click \in ChordClick \cup {None}
    BY <1>0 DEF Gesture
  <1>3. drag \in WindowDrag \cup {None} /\ (pending.drag # None => drag # None)
    <2>1. CASE pending.drag = None
      BY <2>1
    <2>2. CASE pending.drag # None
      <3> DEFINE d == [pending.drag EXCEPT !.moved = fromPress]
      <3>1. d \in WindowDrag
        BY <1>0, <2>2 DEF Gesture, WindowDrag
      <3> HIDE DEF d
      <3>2. d # None
        BY <3>1 DEF GesturesAssumption
      <3>3. drag = d
        BY <2>2 DEF d
      <3> QED BY <3>1, <3>2, <3>3
    <2> QED BY <2>1, <2>2
  <1>4. camera \in CameraDrag \cup {None} /\ (pending.camera # None => camera # None)
    <2>1. CASE pending.camera = None \/ pending.drag # None
      BY <1>0, <2>1 DEF Gesture
    <2>2. CASE pending.camera # None /\ pending.drag = None
      <3> DEFINE c == [pending.camera EXCEPT !.dragging = pending.camera.dragging \/ fromPress]
      <3>1. c \in CameraDrag
        <4>1. pending.camera \in CameraDrag
          BY <1>0, <2>2 DEF Gesture
        <4>2. (pending.camera.dragging \/ fromPress) \in BOOLEAN
          OBVIOUS
        <4> QED BY <4>1, <4>2 DEF CameraDrag
      <3> HIDE DEF c
      <3>2. c # None
        BY <3>1 DEF GesturesAssumption
      <3>3. camera = c
        BY <2>2 DEF c
      <3> QED BY <3>1, <3>2, <3>3
    <2> QED BY <2>1, <2>2
  <1>i. locked => pending = Idle
    BY DEF IInv, LockedIsIdle
  <1>5. pending = Idle => click = None /\ drag = None /\ camera = None
    BY DEF Idle
  <1>k. pending.drag = None => drag = None
    OBVIOUS
  <1> HIDE DEF click, drag, camera
  <1>6. /\ p \in Gesture /\ p.camera = camera /\ p.drag = drag
        /\ p.resize = pending.resize /\ p.chord = pending.chord /\ p.closing = pending.closing
        /\ p.panClick = pending.panClick /\ p.releases = pending.releases
        /\ p.focusClick = pending.focusClick /\ p.edge = pending.edge /\ p.chordClick = click
    BY <1>0, <1>2, <1>3, <1>4 DEF Gesture
  <1> HIDE DEF p
  <1>j. locked => p = Idle
    <2>1. ASSUME locked PROVE p = pending
      <3>1. click = pending.chordClick /\ drag = pending.drag /\ camera = pending.camera
        BY <1>5, <1>i, <2>1 DEF Idle
      <3> QED BY <1>0, <1>6, <3>1, SameRecord
    <2> QED BY <2>1, <1>i
  <1>7. /\ \A x : Owns(pending, x) => Owns(p, x)
        /\ SameClaims(pending, p)
    BY <1>3, <1>4, <1>6, <1>k DEF Owns, SameClaims
  <1>8. /\ Keeps(Now, s) /\ s.pending = p /\ s \in StepType /\ s.client = client
    BY <1>6, <1>7, ChangesKeep
  <1> HIDE DEF s
  <1>9. Keeps(Now, t) /\ t.pending.closing = pending.closing /\ (locked => t.pending = Idle)
    <2>1. CASE ~fromClick
      BY <2>1, <1>6, <1>8, <1>j
    <2>2. CASE fromClick
      <3>1. t = ReplayPanClick(s)
        BY <2>2
      <3> HIDE DEF t
      <3>2. Keeps(s, t) /\ t.pending = [p EXCEPT !.panClick = None]
        BY <1>8, <3>1, ReplayKeeps
      <3>3. t.pending.closing = pending.closing
        BY <1>6, <3>2 DEF Gesture
      <3>4. locked => t.pending = Idle
        <4>1. ASSUME locked PROVE p.panClick = None
          BY <1>j, <4>1 DEF Idle
        <4>2. p.panClick = None => [p EXCEPT !.panClick = None] = p
          BY <1>6 DEF Gesture
        <4> QED BY <1>j, <3>2, <4>1, <4>2
      <3>6. Tidies(Now, t)
        BY <1>8, <3>2, TidiesTwice DEF Keeps
      <3>5. Keeps(Now, t)
        BY <1>6, <1>8, <3>2, <3>6, NowType DEF Keeps, IInv
      <3> QED BY <3>3, <3>4, <3>5
    <2> QED BY <2>1, <2>2
  <1>10. t.pending.closing => held # {}
    BY <1>9 DEF IInv, SwallowingEnds
  <1> HIDE DEF t
  <1> QED BY <1>1, <1>9, <1>10, QuietKeeps

LEMMA WheelKeeps ==
  ASSUME GesturesAssumption, IInv, Wheel
  PROVE  IInv' /\ client'.stray \subseteq client.stray /\ Tided
PROOF
  <1> DEFINE camera == [pending.camera EXCEPT !.dragging = TRUE]
             p == [pending EXCEPT !.camera = camera]
  <1>0. /\ pending \in Gesture /\ ~locked /\ pending.camera # None /\ pending' = p
        /\ phys' = phys /\ held' = held /\ locked' = locked /\ at' = at /\ at \in Spots
        /\ robbed' = robbed
        /\ client' = client /\ world' = world
    BY DEF IInv, Typed, GesturesTypeOK, Wheel
  <1>1. camera \in CameraDrag
    BY <1>0 DEF Gesture, CameraDrag
  <1>2. camera # None
    BY <1>1 DEF GesturesAssumption
  <1> HIDE DEF camera
  <1>3. /\ p \in Gesture /\ p.camera = camera /\ p.drag = pending.drag
        /\ p.resize = pending.resize /\ p.chord = pending.chord /\ p.closing = pending.closing
        /\ p.panClick = pending.panClick /\ p.releases = pending.releases
        /\ p.focusClick = pending.focusClick /\ p.edge = pending.edge
    BY <1>0, <1>1 DEF Gesture
  <1> HIDE DEF p
  <1>4. /\ \A x : Owns(pending, x) => Owns(p, x)
        /\ SameClaims(pending, p)
    BY <1>2, <1>3 DEF Owns, SameClaims
  <1>5. /\ Keeps(Now, With(Now, p)) /\ With(Now, p).pending = p
        /\ With(Now, p).client = client /\ With(Now, p).world = world
    BY <1>3, <1>4, ChangesKeep
  <1>6. Become(With(Now, p)) /\ (p.closing => held # {})
    BY <1>0, <1>3, <1>5 DEF Become, IInv, SwallowingEnds
  <1> QED BY <1>0, <1>5, <1>6, QuietKeeps

LEMMA ExpireKeeps ==
  ASSUME IInv, Expire
  PROVE  IInv' /\ client'.stray \subseteq client.stray /\ Tided
PROOF
  <1>0. /\ pending \in Gesture
        /\ phys' = phys /\ held' = held /\ locked' = locked /\ at' = at /\ at \in Spots
        /\ robbed' = robbed
        /\ client' = client /\ world' = world
    BY DEF IInv, Typed, GesturesTypeOK, Expire
  <1>a. ASSUME NEW p \in Gesture, pending' = p, p.closing = pending.closing, ~locked,
               p.panClick # None => pending.panClick # None,
               \A x : Owns(pending, x) => Owns(p, x), SameClaims(pending, p)
        PROVE  IInv' /\ client'.stray \subseteq client.stray /\ Tided
    <2>1. /\ Keeps(Now, With(Now, p)) /\ With(Now, p).pending = p
          /\ With(Now, p).client = client /\ With(Now, p).world = world
      BY <1>a, ChangesKeep
    <2>2. Become(With(Now, p)) /\ (p.closing => held # {})
      BY <1>0, <1>a, <2>1 DEF Become, IInv, SwallowingEnds
    <2> QED BY <1>0, <1>a, <2>1, <2>2, QuietKeeps
  <1>1. CASE pending.panClick # None /\ pending' = [pending EXCEPT !.panClick.expired = TRUE]
    <2> DEFINE click == [pending.panClick EXCEPT !.expired = TRUE]
               p == [pending EXCEPT !.panClick = click]
    <2>1. pending' = p
      BY <1>1
    <2>2. click \in PanClick
      BY <1>0, <1>1 DEF Gesture, PanClick
    <2> HIDE DEF click
    <2>3. /\ p \in Gesture /\ p.camera = pending.camera /\ p.drag = pending.drag
          /\ p.resize = pending.resize /\ p.chord = pending.chord /\ p.closing = pending.closing
          /\ p.releases = pending.releases
          /\ p.focusClick = pending.focusClick /\ p.edge = pending.edge
      BY <1>0, <2>2 DEF Gesture
    <2> HIDE DEF p
    <2>4. ~locked
      BY <1>1 DEF IInv, LockedIsIdle, Idle
    <2>5. /\ \A x : Owns(pending, x) => Owns(p, x)
          /\ SameClaims(pending, p)
      BY <1>0, <2>3, SameGestures DEF SameClaims
    <2> QED BY <1>1, <2>1, <2>3, <2>4, <2>5, <1>a
  <1>2. CASE pending.chordClick # None /\ pending' = [pending EXCEPT !.chordClick.expired = TRUE]
    <2> DEFINE click == [pending.chordClick EXCEPT !.expired = TRUE]
               p == [pending EXCEPT !.chordClick = click]
    <2>1. pending' = p
      BY <1>2
    <2>2. click \in ChordClick
      BY <1>0, <1>2 DEF Gesture, ChordClick
    <2> HIDE DEF click
    <2>3. /\ p \in Gesture /\ p.camera = pending.camera /\ p.drag = pending.drag
          /\ p.resize = pending.resize /\ p.chord = pending.chord /\ p.closing = pending.closing
          /\ p.releases = pending.releases /\ p.panClick = pending.panClick
          /\ p.focusClick = pending.focusClick /\ p.edge = pending.edge
      BY <1>0, <2>2 DEF Gesture
    <2> HIDE DEF p
    <2>4. ~locked
      BY <1>2 DEF IInv, LockedIsIdle, Idle
    <2>5. /\ \A x : Owns(pending, x) => Owns(p, x)
          /\ SameClaims(pending, p)
      BY <1>0, <2>3, SameGestures DEF SameClaims
    <2> QED BY <2>1, <2>3, <2>4, <2>5, <1>a
  <1> QED BY <1>1, <1>2 DEF Expire

LEMMA FlushKeeps ==
  ASSUME IInv, Flush
  PROVE  IInv' /\ client'.stray \subseteq client.stray /\ Tided
PROOF
  <1> DEFINE late(click) == IF click = None THEN FALSE ELSE click.expired
             s == IF late(pending.panClick) THEN ReplayPanClick(Now) ELSE Now
             q == [s.pending EXCEPT !.chordClick = None]
             w == With(s, q)
  <1>0. /\ pending \in Gesture /\ Now \in StepType /\ Now.pending = pending /\ Now.client = client
        /\ phys' = phys /\ held' = held /\ locked' = locked /\ at' = at /\ at \in Spots
        /\ robbed' = robbed
    BY NowType DEF IInv, Typed, GesturesTypeOK, Flush
  <1>1. PICK gone \in BOOLEAN :
          Become(IF late(pending.chordClick)
                 THEN CompleteChordClick([s EXCEPT !.pending.chordClick = None],
                                         pending.chordClick, held, gone)
                 ELSE s)
    BY DEF Flush
  <1>2. late(pending.panClick) \/ late(pending.chordClick)
    BY DEF Flush
  <1>3. ~locked
    BY <1>2 DEF IInv, LockedIsIdle, Idle
  <1>4. s \in StepType /\ Keeps(Now, s) /\ s.pending.closing = pending.closing
    <2>1. CASE s = Now
      <3> HIDE DEF s
      <3> QED BY <1>0, <2>1, TidiesSelf DEF Keeps
    <2>2. CASE s = ReplayPanClick(Now)
      <3> HIDE DEF s
      <3>1. Keeps(Now, s) /\ s.pending = [pending EXCEPT !.panClick = None]
        BY <1>0, <2>2, ReplayKeeps
      <3>2. s.pending.closing = pending.closing
        BY <1>0, <3>1 DEF Gesture
      <3> QED BY <3>1, <3>2 DEF Keeps
    <2> QED BY <2>1, <2>2
  <1>5. (pending.closing => held # {}) /\ (s.pending.closing => held # {})
    BY <1>4 DEF IInv, SwallowingEnds
  <1>6. CASE ~ late(pending.chordClick)
    <2>1. Become(s)
      BY <1>1, <1>6
    <2> HIDE DEF s
    <2> QED BY <1>0, <1>3, <1>4, <1>5, <2>1, QuietKeeps
  <1>7. CASE late(pending.chordClick)
    <2>1. [s EXCEPT !.pending.chordClick = None] = w
      <3> HIDE DEF s
      <3> QED BY <1>4 DEF With, StepType
    <2>2. pending.chordClick \in ChordClick
      BY <1>0, <1>7 DEF Gesture
    <2> HIDE DEF late, s
    <2>3. /\ q \in Gesture /\ q.closing = s.pending.closing /\ q.panClick = s.pending.panClick
          /\ \A x : Owns(s.pending, x) <=> Owns(q, x)
          /\ SameClaims(s.pending, q)
      <3> DEFINE p == s.pending
      <3>0. p \in Gesture
        BY <1>4 DEF StepType
      <3> HIDE DEF p
      <3> DEFINE r == [p EXCEPT !.chordClick = None]
      <3>1. /\ r \in Gesture /\ r.camera = p.camera /\ r.drag = p.drag /\ r.resize = p.resize
            /\ r.chord = p.chord /\ r.closing = p.closing /\ r.panClick = p.panClick
            /\ r.releases = p.releases /\ r.focusClick = p.focusClick /\ r.edge = p.edge
        BY <3>0 DEF Gesture
      <3> HIDE DEF r
      <3>2. (\A x : Owns(p, x) <=> Owns(r, x)) /\ SameClaims(p, r)
        BY <3>0, <3>1, SameGestures DEF SameClaims
      <3>3. r = q
        BY DEF r, p
      <3> HIDE DEF q
      <3> QED BY <3>1, <3>2, <3>3 DEF p
    <2> HIDE DEF q
    <2>4. /\ w \in StepType /\ w.pending = q /\ w.client = s.client
      BY <1>4, <2>3, WithType
    <2> HIDE DEF w
    <2>5. PICK t : t = CompleteChordClick(w, pending.chordClick, held, gone)
      OBVIOUS
    <2>6. Become(t)
      BY <1>1, <1>7, <2>1, <2>5
    <2>7. w.pending.closing => held # {}
      BY <1>5, <2>3, <2>4
    <2>8. Keeps(w, t)
      BY <2>2, <2>4, <2>5, <2>7, CompleteKeeps
    <2>9. t.pending.closing => held # {}
      BY <2>2, <2>4, <2>5, <2>7, CompleteKeeps
    <2>11. Tidies(Now, t)
      <3>1. Tidies(Now, s) /\ Tidies(w, t)
        BY <1>4, <2>8 DEF Keeps
      <3>2. Tidies(s, w)
        BY <2>3, <2>4 DEF Tidies
      <3> QED BY <3>1, <3>2, TidiesTwice
    <2>10. Keeps(Now, t)
      BY <1>0, <1>4, <2>3, <2>4, <2>8, <2>11 DEF Keeps
    <2> QED BY <1>0, <1>3, <2>6, <2>9, <2>10, QuietKeeps
  <1> QED BY <1>6, <1>7

\* A lock forgets everything; nobody is responsible for what is still down.
LEMMA LockKeeps ==
  ASSUME IInv, Lock
  PROVE  IInv' /\ client'.stray \subseteq client.stray /\ Tided
PROOF
  <1>0. /\ Typed /\ locked' = TRUE /\ pending' = Idle /\ held' = {} /\ phys' = phys /\ at' = at
        /\ robbed' = robbed /\ world' = world /\ client' = [client EXCEPT !.grabbed = FALSE]
        /\ client \in [down : SUBSET Buttons, stray : SUBSET Buttons, grabbed : BOOLEAN]
    BY DEF Lock, IInv, Typed, GesturesTypeOK
  <1>1. Idle \in Gesture
    BY DEF Idle, Gesture
  <1>2. /\ client' \in [down : SUBSET Buttons, stray : SUBSET Buttons, grabbed : BOOLEAN]
        /\ client'.stray = client.stray /\ client'.down = client.down
    BY <1>0
  <1>3. Typed'
    BY <1>0, <1>1, <1>2 DEF Typed, GesturesTypeOK
  <1>4. LockedIsIdle' /\ SwallowingEnds'
    BY <1>0 DEF LockedIsIdle, SwallowingEnds, Idle
  <1>5. Covered'
    BY <1>0 DEF Covered, Answered
  <1>6. Tidy => Tidy'
    <2>1. Settled(Now, held, locked)'
      BY <1>0, NoneWorks DEF Settled, Orderly, Now
    <2> QED BY <1>0, <1>2, <2>1 DEF Tidy
  <1> QED BY <1>2, <1>3, <1>4, <1>5, <1>6 DEF IInv, Tided

LEMMA UnlockKeeps ==
  ASSUME IInv, Unlock
  PROVE  IInv' /\ client'.stray \subseteq client.stray /\ (phys = {} => Tided)
PROOF
  <1>0. /\ locked' = FALSE /\ phys' = phys /\ held' = held /\ client' = client
        /\ pending' = pending /\ at' = at /\ world' = world /\ robbed' = robbed
    BY DEF Unlock
  <1>1. Typed' /\ SwallowingEnds' /\ Covered'
    BY <1>0 DEF IInv, Typed, GesturesTypeOK, SwallowingEnds, Covered, Now
  <1>2. LockedIsIdle'
    BY <1>0 DEF LockedIsIdle
  <1>3. ASSUME phys = {}, Tidy PROVE Tidy'
    BY <1>0, <1>3 DEF Tidy, Settled, Orderly, Now, Others
  <1> QED BY <1>0, <1>1, <1>2, <1>3 DEF IInv, Tided

\* The World has no part in who answers for a button.
LEMMA WorldKeeps ==
  ASSUME IInv, world' \in WorldType, UNCHANGED <<phys, held, client, robbed, pending, at, locked>>
  PROVE  IInv' /\ client'.stray \subseteq client.stray /\ Tided
PROOF
  <1>1. Typed'
    BY DEF IInv, Typed, GesturesTypeOK, WorldType
  <1>2. LockedIsIdle' /\ SwallowingEnds'
    BY DEF IInv, LockedIsIdle, SwallowingEnds
  <1>3. Covered'
    BY DEF IInv, Covered, Answered, Now
  <1>4. Tidy => Tidy'
    BY DEF Tidy, Settled, Orderly, Now, Others
  <1> QED BY <1>1, <1>2, <1>3, <1>4 DEF IInv, Tided

LEMMA ClientsKeep ==
  ASSUME IInv, NEW id \in Windows, WindowGoes(id) \/ FocusMoves(id)
  PROVE  IInv' /\ client'.stray \subseteq client.stray /\ Tided
PROOF
  <1>1. world \in WorldType
    BY DEF IInv, Typed, GesturesTypeOK, WorldType
  <1>2. world' \in WorldType
    <2>1. CASE WindowGoes(id)
      BY <1>1, <2>1 DEF WindowGoes, Without, WorldType
    <2>2. CASE FocusMoves(id)
      BY <1>1, <2>2, FocusedType DEF FocusMoves
    <2> QED BY <2>1, <2>2
  <1>3. UNCHANGED <<phys, held, client, robbed, pending, at, locked>>
    BY DEF WindowGoes, FocusMoves
  <1> QED BY <1>2, <1>3, WorldKeeps

-----------------------------------------------------------------------------
(* The theorems *)

LEMMA InitGestures == Init => IInv
PROOF
  <1> SUFFICES ASSUME Init PROVE IInv
    OBVIOUS
  <1>1. Idle \in Gesture
    BY DEF Idle, Gesture
  <1>2. Typed
    BY <1>1 DEF Init, Typed, GesturesTypeOK, Spots
  <1>3. LockedIsIdle /\ SwallowingEnds
    BY DEF Init, LockedIsIdle, SwallowingEnds, Idle
  <1>4. Covered
    BY DEF Init, Covered, Answered, Now, Idle
  <1> QED BY <1>2, <1>3, <1>4 DEF IInv

Followed == client'.stray \subseteq client.stray \cup (phys \ held)

LEMMA NextKeeps ==
  ASSUME Bindings, IInv, [Next]_vars
  PROVE  IInv' /\ Followed /\ ((locked /\ ~ locked' => phys = {}) => Tided)
PROOF
  <1>0. GesturesAssumption
    BY GesturesAssumption
  <1>1. CASE UserStep
    <2>1. CASE \E b \in Buttons : Press(b)
      BY <1>0, <2>1, PressKeeps DEF Followed
    <2>2. CASE \E b \in Buttons : Release(b)
      BY <1>0, <2>2, ReleaseKeeps DEF Followed
    <2>3. CASE \E spot \in Spots, fromPress, fromClick \in BOOLEAN : Move(spot, fromPress, fromClick)
      BY <1>0, <2>3, MoveKeeps DEF Followed
    <2>4. CASE Wheel
      BY <1>0, <2>4, WheelKeeps DEF Followed
    <2> QED BY <1>1, <2>1, <2>2, <2>3, <2>4 DEF UserStep
  <1>2. CASE Expire
    BY <1>2, ExpireKeeps DEF Followed
  <1>3. CASE Flush
    BY <1>3, FlushKeeps DEF Followed
  <1>4. CASE SessionStep
    <2>1. CASE Lock
      BY <2>1, LockKeeps DEF Followed
    <2>2. CASE Unlock
      BY <2>2, UnlockKeeps DEF Followed, Unlock
    <2>3. CASE \E id \in Windows : WindowGoes(id) \/ FocusMoves(id)
      BY <2>3, ClientsKeep DEF Followed
    <2> QED BY <1>4, <2>1, <2>2, <2>3 DEF SessionStep
  <1>5. CASE UNCHANGED vars
    <2>1. world \in WorldType
      BY DEF IInv, Typed, GesturesTypeOK, WorldType
    <2> QED BY <1>5, <2>1, WorldKeeps DEF vars, Followed
  <1> QED BY <1>1, <1>2, <1>3, <1>4, <1>5 DEF Next

LEMMA Invariant ==
  ASSUME Bindings PROVE Spec => []IInv
PROOF
  <1>1. Init => IInv
    BY InitGestures
  <1>2. IInv /\ [Next]_vars => IInv'
    BY NextKeeps
  <1> QED BY <1>1, <1>2, PTL DEF Spec

\* What is remembered of a gesture fits what its handlers take from it, and the
\* compositor holds no button that is up (pointer_buttons_held).
THEOREM GesturesTypeCorrect ==
  ASSUME Bindings PROVE Spec => []GesturesTypeOK
PROOF
  <1>1. IInv => GesturesTypeOK
    BY DEF IInv, Typed
  <1> QED BY <1>1, Invariant, PTL

\* No gesture, click or swallowed release outlives the beginning of a lock (lock()).
THEOREM LockLeavesNothing ==
  ASSUME Bindings PROVE Spec => []LockedIsIdle
PROOF
  <1>1. IInv => LockedIsIdle
    BY DEF IInv
  <1> QED BY <1>1, Invariant, PTL

\* A close gesture does not swallow the clicks that come after it
\* (closing_pointer_chord).
THEOREM CloseSwallowsItsOwn ==
  ASSUME Bindings PROVE Spec => []SwallowingEnds
PROOF
  <1>1. IInv => SwallowingEnds
    BY DEF IInv
  <1> QED BY <1>1, Invariant, PTL

\* The client sees a release only after its press, or of a button the lock took out
\* of pointer_buttons_held (process_pointer_button).
THEOREM ReleasesFollowPresses ==
  ASSUME Bindings PROVE Spec => ReleaseAfterPress
PROOF
  <1>1. IInv /\ [Next]_vars => [client'.stray \subseteq client.stray \cup (phys \ held)]_vars
    BY NextKeeps DEF Followed
  <1> QED BY <1>1, Invariant, PTL DEF Spec, ReleaseAfterPress

\* No client is left with a button that is up (process_pointer_button), but for those
\* whose release a close gesture took from others, if nobody unlocks the session
\* with a button down.
THEOREM NoButtonIsStuck ==
  ASSUME Bindings
  PROVE  Spec /\ [][locked /\ ~ locked' => phys = {}]_vars => []NoButtonSticks
PROOF
  <1>1. Init => Tidy
    <2> SUFFICES ASSUME Init PROVE Tidy
      OBVIOUS
    <2>1. Now.pending = Idle /\ Now.client.down = {}
      BY DEF Init, Now
    <2> QED BY <2>1, NoneWorks DEF Init, Tidy, Settled, Orderly
  <1>2. IInv /\ Tidy /\ [Next]_vars /\ [locked /\ ~ locked' => phys = {}]_vars => Tidy'
    <2> SUFFICES ASSUME IInv, Tidy, [Next]_vars, [locked /\ ~ locked' => phys = {}]_vars
                 PROVE  Tidy'
      OBVIOUS
    <2>1. locked /\ ~ locked' => phys = {}
      BY DEF vars
    <2> QED BY <2>1, NextKeeps DEF Tided
  <1>3. Tidy => NoButtonSticks
    BY DEF Tidy, NoButtonSticks
  <1> QED BY <1>1, <1>2, <1>3, Invariant, PTL DEF Spec
=============================================================================
