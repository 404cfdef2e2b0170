------------------------------ MODULE Toplevels ------------------------------
(***************************************************************************)
(* What the shell promises of its windows, stated without keyboards, popups, *)
(* layers or cameras.  A window opens and waits for its first commits, is  *)
(* shown, may be told to close, and is gone for good; it is chosen because *)
(* it was shown or somebody chose it, or because nobody was chosen when it *)
(* opened; a window that vanishes unchosen changes nothing for the others. *)
(***************************************************************************)
CONSTANTS Windows, None

VARIABLES phase, chosen

topVars == <<phase, chosen>>

Living(p) == { w \in Windows : p[w] \in {"waiting", "shown"} }

Init == phase = [w \in Windows |-> "unborn"] /\ chosen = None

Become(w, before, after) == phase[w] \in before /\ phase' = [phase EXCEPT ![w] = after]

Open(w) ==
  /\ Become(w, {"unborn"}, "waiting")
  /\ chosen' = IF chosen = None THEN w ELSE chosen

Show(w) == chosen' = w /\ Become(w, {"waiting"}, "shown")

\* A closing window that commits for the first time shows itself to nobody.
Choose(w) == chosen' = w /\ w \in Living(phase) /\ UNCHANGED phase

Dismiss(w) ==
  /\ Become(w, {"waiting", "shown"}, "closing")
  /\ chosen' \in Living(phase') \cup {None}

Vanish(w) ==
  /\ Become(w, {"waiting", "shown", "closing"}, "gone")
  /\ IF chosen = w THEN chosen' \in Living(phase') \cup {None} ELSE UNCHANGED chosen

\* The transitions of several windows may end in one frame.
End(done) ==
  /\ done # {} /\ UNCHANGED chosen
  /\ \A w \in done : phase[w] = "closing"
  /\ phase' = [w \in Windows |-> IF w \in done THEN "gone" ELSE phase[w]]

Next ==
  \/ \E w \in Windows : Open(w) \/ Show(w) \/ Choose(w) \/ Dismiss(w) \/ Vanish(w)
  \/ \E done \in SUBSET Windows : End(done)

Spec == Init /\ [][Next]_topVars
=============================================================================
