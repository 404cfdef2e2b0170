------------------------------ MODULE Desktop -------------------------------
(***************************************************************************)
(* What the World promises whoever sits in front of it, stated without     *)
(* rectangles, properties or presentation.  Windows open and close under   *)
(* names that are never used twice; the focus moves only because somebody  *)
(* chose a window, because the focused one closed, or because nothing was  *)
(* focused when a window opened; and every Output keeps a view of its own, *)
(* of which only the active Output's can change.                           *)
(***************************************************************************)
EXTENDS Integers

CONSTANTS
  None,   \* no window
  Sights    \* what an Output can show

VARIABLES opened, live, focused, outputs, active, views

desktopVars == <<opened, live, focused, outputs, active, views>>

Init ==
  /\ opened = 0 /\ live = {} /\ focused = None
  /\ outputs = 1 /\ active = 1
  /\ views \in [{1} -> Sights]

Open ==
  /\ opened' = opened + 1
  /\ live' = live \cup {opened + 1}
  /\ focused' = IF focused = None THEN opened + 1 ELSE focused
  /\ UNCHANGED <<outputs, active, views>>

Close(w) ==
  /\ live' = live \ {w}
  /\ focused' = IF focused = w THEN None ELSE focused
  /\ UNCHANGED <<opened, outputs, active, views>>

Choose(w) ==
  /\ focused' = w
  /\ UNCHANGED <<opened, live, outputs, active, views>>

Attach ==
  /\ outputs' = outputs + 1
  /\ views' \in [1 .. outputs + 1 -> Sights]
  /\ \A o \in 1 .. outputs : views'[o] = views[o]
  /\ UNCHANGED <<opened, live, focused, active>>

Switch ==
  /\ active' \in 1 .. outputs
  /\ UNCHANGED <<opened, live, focused, outputs, views>>

Look ==
  /\ views' \in [1 .. outputs -> Sights]
  /\ \A o \in 1 .. outputs : o # active => views'[o] = views[o]
  /\ UNCHANGED <<opened, live, focused, outputs, active>>

Next ==
  \/ Open \/ Attach \/ Switch \/ Look
  \/ \E w \in live : Close(w) \/ Choose(w)

Spec == Init /\ [][Next]_desktopVars
=============================================================================
