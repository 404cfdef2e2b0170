------------------------------- MODULE MCServices -------------------------------
\* Six machines that have nothing to do with each other: processes in a runtime
\* directory, the frames of a backend with their captures, the heartbeat of
\* clients, the configuration, a window on its way to the screen, and the Outputs of
\* the nested backend.  A behaviour is one of one machine, and the others rest in it.
EXTENDS InstancesProperties, CaptureProperties, HeartbeatProperties, ConfigProperties,
        MotionProperties, Nested

VARIABLE part

vars == <<part, instance_vars, capture_vars, heartbeat_vars, config_vars, motion_vars,
          nested_vars>>

\* The files that exist, and what is ever in them.
Files == {"main", "a", "b"}

Include(p) == [kind |-> "include", path |-> p]

Node(k, n) == [kind |-> k, arg |-> n]

FileContents ==
  {Missing, Broken, <<>>,
   <<Include("a"), Include("b")>>, <<Node("value", 1), Include("b")>>,
   <<Include("a"), Node("bind", 1)>>, <<Node("bind", 1), Node("spawn", 1)>>,
   <<Include("main"), Node("spawn", 2)>>, <<Node("value", 2)>>, <<Node("bad", 0)>>}

\* Whole and broken scales, which leave half a unit or a third of one over.
FractionalScales ==
  {[n |-> 1, d |-> 1], [n |-> 3, d |-> 2], [n |-> 5, d |-> 4], [n |-> 1, d |-> 2]}

\* A backend whose loop does not run.
NoBackend ==
  /\ backend = "nested" /\ running = FALSE /\ output = TRUE
  /\ session = [on |-> FALSE, confirm |-> FALSE]
  /\ config_error = FALSE /\ redraw = FALSE /\ click = NoClick
  /\ screen = [scene |-> "off", error |-> FALSE]
  /\ capture = [c \in Captures |-> [at |-> "none"]] /\ pending = {}

\* The captures are alike: they are asked for in order; and no click waits while
\* one is queued.
InOrder ==
  /\ click # NoClick => pending = {}
  /\ \A c \in Captures : capture[c].at # "none" => \A d \in Captures : d < c => capture[d].at # "none"

MCInit ==
  /\ part \in {"instances", "capture", "heartbeat", "config", "motion", "nested"}
  /\ InstancesInit /\ HeartbeatInit /\ ConfigInit /\ MotionInit /\ NestedInit
  /\ IF part = "capture" THEN CaptureInit ELSE NoBackend
  /\ part # "motion" => desk.size = 1
  /\ part # "nested" => host = 1 /\ scale.n = scale.d
  /\ part # "config" => disk = [p \in Paths |-> Missing]

MCNext ==
  /\ UNCHANGED part
  /\ \/ /\ part = "instances" /\ InstancesNext
        /\ UNCHANGED <<capture_vars, heartbeat_vars, config_vars, motion_vars, nested_vars>>
     \/ /\ part = "capture" /\ CaptureNext /\ InOrder'
        /\ UNCHANGED <<instance_vars, heartbeat_vars, config_vars, motion_vars, nested_vars>>
     \/ /\ part = "heartbeat" /\ HeartbeatNext
        /\ UNCHANGED <<instance_vars, capture_vars, config_vars, motion_vars, nested_vars>>
     \/ /\ part = "config" /\ ConfigNext
        /\ UNCHANGED <<instance_vars, capture_vars, heartbeat_vars, motion_vars, nested_vars>>
     \/ /\ part = "motion" /\ MotionNext
        /\ UNCHANGED <<instance_vars, capture_vars, heartbeat_vars, config_vars, nested_vars>>
     \/ /\ part = "nested" /\ NestedNext
        /\ UNCHANGED <<instance_vars, capture_vars, heartbeat_vars, config_vars, motion_vars>>

\* Nothing of what is owed to a machine that rests is enabled.
MCSpec ==
  /\ MCInit /\ [][MCNext]_vars
  /\ CaptureFairness /\ HeartbeatFairness /\ MotionFairness
=============================================================================
