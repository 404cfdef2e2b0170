------------------------------- MODULE MCShell -------------------------------
\* Two stories: three windows and what users and clients do with them; two windows
\* among a layer, popups and the session lock.
EXTENDS ShellProperties

CONSTANT Stories

VARIABLE story

\* To bound the first, windows float because they have a parent and for no other
\* reason; a parent is older than its children and is named before their first
\* commit; the transitions are on until the configuration is read again while
\* the first window is alone, and then there are two windows at most; the pointer
\* drags the camera, or ends a gesture on it, while the first window fades.
FirstAlone == issued = {1}

OnlyDialogsFloat == \A id \in Ids : managed[id].floats => managed[id].parent # None

Oldest(id) == \A older \in Windows : older < id => older \in issued

Unclassified(id) == id \in Ids /\ ~ managed[id].ready /\ ~ managed[id].deferred

Fading(id) == id \in Ids /\ managed[id].closing /\ ~ managed[id].frozen

WindowsNext ==
  \/ \E id \in Windows : (Oldest(id) /\ NewToplevel(id)) \/ CommitToplevel(id)
  \/ \E id \in Windows : DestroyToplevel(id) \/ RefreshAutoFloating(id)
  \/ \E id, parent \in Windows : Unclassified(id) /\ parent < id /\ SetParent(id, parent)
  \/ \E id \in Windows : Unclassified(id) /\ SetParent(id, None)
  \/ \E id \in Windows : ChooseWindow(id) \/ BeginCloseTransition(id)
  \/ FrameStep \/ (FirstAlone /\ ReloadConfig)
  \/ Fading(1) /\ (PanCamera \/ GestureEnds(1))

\* In the second nobody has a parent, and there are no transitions.
SeatNext ==
  \/ \E id \in {1, 2} : NewToplevel(id) \/ CommitToplevel(id) \/ DestroyToplevel(id)
  \/ \E id \in {1, 2} : RequestActivation(id)
  \/ \E id \in {1, 2} : ChooseWindow(id) \/ GestureEnds(id)
  \/ \E surface \in {1, 2, None} \cup Layers : Click(surface)
  \/ CameraMoves \/ SeatStep \/ LayerStep \/ LockStep

MCInit == Init /\ story \in Stories /\ animated = (story = "windows")

MCNext ==
  /\ \/ story = "windows" /\ WindowsNext /\ (animated' \/ 3 \notin issued')
     \/ story = "seat" /\ SeatNext
  /\ OnlyDialogsFloat'
  /\ UNCHANGED story

MCSpec == MCInit /\ [][MCNext]_<<vars, story>> /\ Fairness
=============================================================================
