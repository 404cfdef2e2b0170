------------------------------- MODULE MCFrames -------------------------------
\* One connector and everything that asks for frames; two connectors and the
\* session.
EXTENDS FramesProperties

\* To bound the runs, the monitor of the first has one mode list ...
LoopNext ==
  \/ FrameStep \/ HotplugStep
  \/ \E c \in Connectors, v \in {"off", "modes"} : Plug(c, v)
  \/ Input \/ PauseSession \/ ActivateSession
  \/ \E scene \in Scene : Commit(scene)
  \/ Defer \/ Lock \/ Unlock

LoopSpec == Init /\ [][LoopNext]_vars /\ Fairness

\* ... and in the second only the first wakes up late and changes its modes, and
\* nobody asks for a frame but by locking and unlocking.
Monitor(c) == IF c = 1 THEN Plugged ELSE {"off", "modes"}

HotplugNext ==
  \/ FrameStep \/ HotplugStep
  \/ \E c \in Connectors, v \in Plugged : v \in Monitor(c) /\ Plug(c, v)
  \/ PauseSession \/ ActivateSession
  \/ Lock \/ Unlock

HotplugInit == Init /\ \A c \in Connectors : plug[c] \in Monitor(c)

HotplugSpec == HotplugInit /\ [][HotplugNext]_vars
=============================================================================
